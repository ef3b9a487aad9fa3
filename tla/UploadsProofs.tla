---------------------------- MODULE UploadsProofs ----------------------------
(***************************************************************************)
(* For any number of handlers, chunks and inodes: the type invariant of    *)
(* Uploads, and that at most one upload without overwrite is installed.    *)
(***************************************************************************)
EXTENDS Uploads, SequenceTheorems, TLAPS

-----------------------------------------------------------------------------
(* What the helpers return. *)

LEMMA BytesKnown == {"old", "single", Hole} \subseteq Bytes
  BY DEF Bytes

LEMMA BlankTyped == Blank \in Job
  <1>1. <<>> \in Content  BY DEF Content
  <1>2. None \in Name /\ 0 \in Nat  BY DEF Name, None
  <1> QED BY <1>1, <1>2 DEF Blank, Job

LEMMA SingleTyped == Single \in Content /\ Old \in Content /\ <<>> \in Content
  BY BytesKnown DEF Single, Old, Content

LEMMA SentTyped == \A i \in Index : \A d \in Sent[i] : <<d>> \in Content
  BY DEF Content, Bytes

\* A write at an offset leaves a sequence of bytes, whatever the offset is.
LEMMA WrittenTyped ==
  ASSUME NEW content \in Content, NEW pos \in Nat, NEW data \in Content
  PROVE  Written(content, pos, data) \in Content
  <1> DEFINE top == IF Len(content) > pos + Len(data) THEN Len(content)
                    ELSE pos + Len(data)
  <1>1. Len(content) \in Nat /\ Len(data) \in Nat  BY DEF Content
  <1>2. top \in Nat  BY <1>1
  <1>3. \A k \in 1 .. top : Written(content, pos, data)[k] \in Bytes
    BY <1>1, <1>2, BytesKnown DEF Written, Content
  <1>4. Written(content, pos, data) \in [1 .. top -> Bytes]
    <2>1. Written(content, pos, data) = [k \in 1 .. top |-> Written(content, pos, data)[k]]
      BY DEF Written
    <2> HIDE DEF top
    <2> QED BY <1>3, <2>1
  <1> HIDE DEF top
  <1> QED BY <1>2, <1>4, SeqDef DEF Content

LEMMA StoreTyped ==
  ASSUME NEW f \in [Inodes -> Content], Store(f)
  PROVE  file' \in [Inodes -> Content]
  BY SingleTyped DEF Store

LEMMA EndTyped ==
  ASSUME TypeOK, NEW w \in Workers, End(w)
  PROVE  pc' \in [Workers -> Steps] /\ job' \in [Workers -> Job] /\ ChunkIndexes'
  BY BlankTyped DEF TypeOK, ChunkIndexes, End, Steps

LEMMA GoTyped ==
  ASSUME TypeOK, NEW w \in Workers, NEW s \in Steps, Go(w, s),
         NEW j \in Job, job' = [job EXCEPT ![w] = j],
         s \in {"chunk", "truncate", "write"} => j.index \in Index
  PROVE  pc' \in [Workers -> Steps] /\ job' \in [Workers -> Job] /\ ChunkIndexes'
  BY DEF TypeOK, ChunkIndexes, Go

\* The parts after one of them was written.
LEMMA PartTyped ==
  ASSUME TypeOK, NEW i \in Index, NEW content \in Content
  PROVE  /\ DOMAIN Part(i, content) \subseteq Index
         /\ Part(i, content) \in [DOMAIN Part(i, content) -> Content]
  BY DEF TypeOK, Part

LEMMA FreshTyped == \A i \in Inodes : i \in Name
  BY DEF Name
-----------------------------------------------------------------------------
(* Type correctness. *)

LEMMA TypeInit == Init => TypeOK
  <1> SUFFICES ASSUME Init PROVE TypeOK
    OBVIOUS
  <1>1. job \in [Workers -> Job] /\ pc \in [Workers -> Steps]
    BY BlankTyped DEF Init, Steps
  <1>2. file \in [Inodes -> Content] /\ dest \in Name /\ creations \in Nat
    BY SingleTyped DEF Init, Name
  <1>3. DOMAIN parts \subseteq Index /\ parts \in [DOMAIN parts -> Content]
    BY DEF Init
  <1> QED
    BY <1>1, <1>2, <1>3 DEF Init, TypeOK, ChunkIndexes, Name, NoMeta

\* The arrival of a request keeps the types.
LEMMA TypeRequest ==
  ASSUME TypeOK, NEW w \in Workers, Request(w)
  PROVE  TypeOK'
  <1>1. ASSUME NEW step \in Steps, NEW j \in Job, Begin(w, step, j),
                 step = "chunk" => j.index \in Index,
                 step \notin {"truncate", "write"}
        PROVE  TypeOK'
    <2>1. pc' \in [Workers -> Steps] /\ job' \in [Workers -> Job] /\ ChunkIndexes'
      BY <1>1, GoTyped DEF Begin
    <2> QED BY <1>1, <2>1 DEF Begin, TypeOK, session, volume
  <1>2. CASE UploadInit(w)
    <2>1. PICK o \in BOOLEAN, n \in Sizes :
            Begin(w, "init", [Blank EXCEPT !.overwrite = o, !.size = n])
      BY <1>2 DEF UploadInit
    <2>2. [Blank EXCEPT !.overwrite = o, !.size = n] \in Job
      BY BlankTyped, CountsAreNumbers DEF Job
    <2> QED BY <1>1, <2>1, <2>2 DEF Steps
  <1>3. CASE UploadChunk(w)
    <2>1. PICK i \in Index : \E d \in Sent[i] :
            Begin(w, "chunk", [Blank EXCEPT !.index = i, !.got = <<d>>])
      BY <1>3 DEF UploadChunk
    <2>2. PICK d \in Sent[i] :
            Begin(w, "chunk", [Blank EXCEPT !.index = i, !.got = <<d>>])
      BY <2>1
    <2>3. i \in Nat /\ <<d>> \in Content
      BY SentTyped, CountsAreNumbers DEF Index
    <2>4. [Blank EXCEPT !.index = i, !.got = <<d>>] \in Job
      BY BlankTyped, <2>3 DEF Job
    <2>5. [Blank EXCEPT !.index = i, !.got = <<d>>].index = i
      BY BlankTyped DEF Job
    <2> QED BY <1>1, <2>2, <2>4, <2>5 DEF Steps
  <1>4. CASE UploadComplete(w)
    <2>1. PICK h \in BOOLEAN : Begin(w, "complete", [Blank EXCEPT !.sha = h])
      BY <1>4 DEF UploadComplete
    <2>2. [Blank EXCEPT !.sha = h] \in Job
      BY BlankTyped DEF Job
    <2> QED BY <1>1, <2>1, <2>2 DEF Steps
  <1>5. CASE UploadFile(w)
    <2>1. PICK o \in BOOLEAN :
            Begin(w, "prepare", [Blank EXCEPT !.overwrite = o, !.got = Single])
      BY <1>5 DEF UploadFile
    <2>2. [Blank EXCEPT !.overwrite = o, !.got = Single] \in Job
      BY BlankTyped, SingleTyped DEF Job
    <2> QED BY <1>1, <2>1, <2>2 DEF Steps
  <1> QED BY <1>2, <1>3, <1>4, <1>5 DEF Request

\* The steps inside the session directory keep the types.
LEMMA TypeInSession ==
  ASSUME TypeOK, NEW w \in Workers, InSession(w)
  PROVE  TypeOK'
  <1> USE DEF SessionStep, session, volume
  <1>a. /\ job[w] \in Job
        /\ UNCHANGED job => job' = [job EXCEPT ![w] = job[w]]
    BY DEF TypeOK
  <1>b. /\ Store(file) => file' \in [Inodes -> Content]
        /\ \A i \in Inodes, c \in Content :
             Store([file EXCEPT ![i] = c]) => file' \in [Inodes -> Content]
    <2>1. \A i \in Inodes, c \in Content : [file EXCEPT ![i] = c] \in [Inodes -> Content]
      BY DEF TypeOK
    <2> QED BY <2>1, StoreTyped DEF TypeOK
  <1>c. /\ End(w) => /\ pc' \in [Workers -> Steps]
                     /\ job' \in [Workers -> Job] /\ ChunkIndexes'
        /\ \A s \in Steps, j \in Job :
             /\ Go(w, s) /\ job' = [job EXCEPT ![w] = j]
             /\ s \in {"chunk", "truncate", "write"} => j.index \in Index
             => pc' \in [Workers -> Steps] /\ job' \in [Workers -> Job] /\ ChunkIndexes'
    BY EndTyped, GoTyped
  <1>1. CASE Refused(w)
    BY <1>b, <1>c, <1>1 DEF Refused, TypeOK
  <1>2. CASE Checked(w)
    BY <1>a, <1>c, <1>2 DEF Checked, TypeOK, Steps
  <1>3. CASE WriteMeta(w)
    BY <1>a, <1>b, <1>c, <1>3 DEF WriteMeta, TypeOK, Job
  <1>4. CASE Unknown(w)
    BY <1>b, <1>c, <1>4 DEF Unknown, TypeOK
  <1>5. CASE Known(w)
    BY <1>a, <1>c, <1>5 DEF Known, TypeOK, ChunkIndexes, Steps
  <1>6. CASE TruncatePart(w)
    <2>1. job[w].index \in Index
      BY <1>6 DEF TruncatePart, TypeOK, ChunkIndexes
    <2>2. DOMAIN parts' \subseteq Index /\ parts' \in [DOMAIN parts' -> Content]
      BY <1>6, <2>1, PartTyped, SingleTyped DEF TruncatePart
    <2>3. [job[w] EXCEPT !.live = TRUE] \in Job
      BY <1>a DEF Job
    <2>4. [job[w] EXCEPT !.live = TRUE].index \in Index
      BY <1>a, <2>1 DEF Job
    <2>5. pc' \in [Workers -> Steps] /\ job' \in [Workers -> Job] /\ ChunkIndexes'
      BY <1>c, <1>6, <2>3, <2>4 DEF TruncatePart, Steps
    <2> QED BY <1>6, <2>2, <2>5 DEF TruncatePart, TypeOK
  <1>7. CASE WritePart(w)
    <2>1. job[w].index \in Index /\ job[w].got \in Content
      BY <1>a, <1>7 DEF WritePart, TypeOK, ChunkIndexes, Job
    <2>2. DOMAIN parts' \subseteq Index /\ parts' \in [DOMAIN parts' -> Content]
      BY <1>7, <2>1, PartTyped DEF WritePart, TypeOK
    <2> QED BY <1>b, <1>c, <1>7, <2>2 DEF WritePart, TypeOK
  <1>8. CASE ReadMeta(w)
    <2> DEFINE j == [job[w] EXCEPT !.overwrite = meta.overwrite, !.size = meta.size]
    <2>1. j \in Job
      BY <1>a DEF TypeOK, Job
    <2>2. job' = [job EXCEPT ![w] = j]
      BY <1>8 DEF ReadMeta, TypeOK, Job
    <2> HIDE DEF j
    <2> QED BY <1>c, <1>8, <2>1, <2>2 DEF ReadMeta, TypeOK, Steps
  <1>9. CASE ListParts(w)
    <2>1. CASE End(w)
      BY <1>b, <1>c, <1>9, <2>1 DEF ListParts, TypeOK
    <2>2. ASSUME NEW n \in Index, job' = [job EXCEPT ![w].count = n], Go(w, "create")
          PROVE  TypeOK'
      <3>1. [job[w] EXCEPT !.count = n] \in Job
        BY <1>a, CountsAreNumbers DEF Job, Index
      <3>2. pc' \in [Workers -> Steps] /\ job' \in [Workers -> Job] /\ ChunkIndexes'
        BY <1>c, <2>2, <3>1 DEF Steps
      <3> QED BY <1>b, <1>9, <3>2 DEF ListParts, TypeOK
    <2> QED BY <1>9, <2>1, <2>2 DEF ListParts
  <1>10. CASE CreateAssembled(w)
    <2>1. CASE End(w)
      <3>1. CASE UNCHANGED <<assembled, dest, shared>> /\ Store(file)
        BY <1>b, <1>c, <1>10, <2>1, <3>1 DEF CreateAssembled, TypeOK
      <3>2. ~ Go(w, "assemble")
        BY <2>1 DEF End, Go, TypeOK
      <3> QED BY <1>10, <3>1, <3>2 DEF CreateAssembled
    <2>2. ASSUME NEW i \in Inodes, assembled' = i, job' = [job EXCEPT ![w].fd = i],
                 Store([file EXCEPT ![i] = <<>>]), shared' = (shared \/ Overlaps(w)),
                 Go(w, "assemble"), UNCHANGED dest
          PROVE  TypeOK'
      <3>1. [job[w] EXCEPT !.fd = i] \in Job
        BY <1>a DEF Job, Name
      <3>2. pc' \in [Workers -> Steps] /\ job' \in [Workers -> Job] /\ ChunkIndexes'
        BY <1>c, <2>2, <3>1 DEF Steps
      <3>3. file' \in [Inodes -> Content]
        BY <1>b, <2>2, SingleTyped
      <3>4. assembled' \in Name /\ shared' \in BOOLEAN
        BY <2>2 DEF Name, TypeOK, Overlaps
      <3> QED BY <1>10, <3>2, <3>3, <3>4 DEF CreateAssembled, TypeOK
    <2> QED BY <1>10, <2>1, <2>2 DEF CreateAssembled
  <1>11. CASE AppendPart(w)
    <2> DEFINE i == job[w].index + 1
               g == job[w].got \o parts[i]
               j == [job[w] EXCEPT !.index = i, !.got = g]
               c == Written(file[job[w].fd], Len(job[w].got), parts[i])
    <2>1. parts[i] \in Content /\ job[w].got \in Content /\ i \in Nat
      BY <1>a, <1>11 DEF AppendPart, TypeOK, Job
    <2>2. g \in Content /\ Len(job[w].got) \in Nat
      BY <2>1 DEF Content
    <2>3. j \in Job
      BY <1>a, <2>1, <2>2 DEF Job
    <2>4. job' = [job EXCEPT ![w] = j]
      BY <1>a, <1>11 DEF AppendPart, TypeOK, Job
    <2>5. \E s \in {"check", "assemble"} : Go(w, s)
      BY <1>11 DEF AppendPart
    <2>6. pc' \in [Workers -> Steps] /\ job' \in [Workers -> Job] /\ ChunkIndexes'
      <3> HIDE DEF j
      <3> QED BY <1>c, <2>3, <2>4, <2>5 DEF Steps
    <2>7. file' \in [Inodes -> Content]
      <3>1. CASE job[w].fd \in Inodes
        <4>1. c \in Content
          BY <2>1, <2>2, <3>1, WrittenTyped DEF TypeOK
        <4>2. Store([file EXCEPT ![job[w].fd] = c])
          BY <1>11 DEF AppendPart
        <4> HIDE DEF c
        <4> QED BY <1>b, <3>1, <4>1, <4>2
      <3>2. CASE job[w].fd \notin Inodes
        <4>1. [file EXCEPT ![job[w].fd] = c] = file
          BY <3>2 DEF TypeOK
        <4>2. Store([file EXCEPT ![job[w].fd] = c])
          BY <1>11 DEF AppendPart
        <4> HIDE DEF c
        <4> QED BY <1>b, <4>1, <4>2
      <3> QED BY <3>1, <3>2
    <2> QED BY <1>11, <2>6, <2>7 DEF AppendPart, TypeOK
  <1>12. CASE AssemblyFails(w)
    BY <1>b, <1>c, <1>12 DEF AssemblyFails, TypeOK
  <1>13. CASE Validate(w)
    <2>1. [job[w] EXCEPT !.fd = None] \in Job
      BY <1>a DEF Job, Name
    <2>2. pc' \in [Workers -> Steps] /\ job' \in [Workers -> Job] /\ ChunkIndexes'
      BY <1>c, <1>13, <2>1 DEF Validate, Steps
    <2> QED BY <1>b, <1>13, <2>2 DEF Validate, TypeOK
  <1>14. CASE Finalize(w)
    <2>1. pc' \in [Workers -> Steps] /\ job' \in [Workers -> Job] /\ ChunkIndexes'
      BY <1>a, <1>c, <1>14 DEF Finalize, Steps
    <2> QED BY <1>b, <1>14, <2>1 DEF Finalize, TypeOK
  <1>15. CASE Stage(w)
    <2>1. ASSUME NEW i \in Inodes, job' = [job EXCEPT ![w].own = i],
                 Store([file EXCEPT ![i] = Single]), Go(w, "install")
          PROVE  TypeOK'
      <3>1. [job[w] EXCEPT !.own = i] \in Job
        BY <1>a DEF Job, Name
      <3>2. pc' \in [Workers -> Steps] /\ job' \in [Workers -> Job] /\ ChunkIndexes'
        BY <1>c, <2>1, <3>1 DEF Steps
      <3>3. file' \in [Inodes -> Content]
        BY <1>b, <2>1, SingleTyped
      <3> QED BY <1>15, <3>2, <3>3 DEF Stage, TypeOK
    <2>2. CASE End(w) /\ Store(file)
      BY <1>b, <1>c, <1>15, <2>2 DEF Stage, TypeOK
    <2> QED BY <1>15, <2>1, <2>2 DEF Stage
  <1> QED
    BY <1>1, <1>2, <1>3, <1>4, <1>5, <1>6, <1>7, <1>8, <1>9, <1>10, <1>11,
       <1>12, <1>13, <1>14, <1>15 DEF InSession
\* The name a handler commits is that of an inode or none.
LEMMA SourceTyped ==
  ASSUME TypeOK, NEW w \in Workers
  PROVE  /\ Source(w) \in Name
         /\ Source(w) # None => Source(w) \in Inodes
         /\ Moved(w) \in Name
         /\ AfterCommit(w) \in Steps \ {"chunk", "truncate", "write"}
  BY DEF TypeOK, Job, Source, Moved, AfterCommit, Name, None, Steps

\* A commit keeps the types of what it changes.
LEMMA CommitTyped ==
  ASSUME TypeOK, NEW w \in Workers,
         NEW step \in Steps \ {"chunk", "truncate", "write"}, Commits(w, step)
  PROVE  /\ dest' \in Name /\ promised' \in BOOLEAN
         /\ pc' \in [Workers -> Steps] /\ job' \in [Workers -> Job] /\ ChunkIndexes'
  <1>1. dest' \in Name /\ promised' \in BOOLEAN
    BY SourceTyped DEF Commits, TypeOK, Job
  <1>2. CASE step = "idle"
    BY <1>1, <1>2, EndTyped DEF Commits
  <1>3. CASE step # "idle"
    <2> DEFINE o == IF step = "linked" THEN job[w].own ELSE None
               j == [job[w] EXCEPT !.own = o]
    <2>1. j \in Job
      BY DEF TypeOK, Job, Name
    <2>2. job' = [job EXCEPT ![w] = j]
      BY <1>3 DEF Commits, TypeOK, Job
    <2> HIDE DEF j
    <2> QED BY <1>1, <1>3, <2>1, <2>2, GoTyped DEF Commits
  <1> QED BY <1>2, <1>3

\* The steps of the finalization keep the types.
LEMMA TypeInstall ==
  ASSUME TypeOK, NEW w \in Workers, Install(w)
  PROVE  TypeOK'
  <1> USE DEF InstallStep, session, volume
  <1>a. /\ job[w] \in Job
        /\ UNCHANGED job => job' = [job EXCEPT ![w] = job[w]]
    BY DEF TypeOK
  <1>b. Store(file) => file' \in [Inodes -> Content]
    BY StoreTyped DEF TypeOK
  <1>c. /\ End(w) => /\ pc' \in [Workers -> Steps]
                     /\ job' \in [Workers -> Job] /\ ChunkIndexes'
        /\ \A s \in Steps, j \in Job :
             /\ Go(w, s) /\ job' = [job EXCEPT ![w] = j]
             /\ s \in {"chunk", "truncate", "write"} => j.index \in Index
             => pc' \in [Workers -> Steps] /\ job' \in [Workers -> Job] /\ ChunkIndexes'
    BY EndTyped, GoTyped
  <1>1. CASE Copy(w)
    <2>1. ASSUME NEW i \in Inodes, UNCHANGED pc,
                 job' = [job EXCEPT ![w].own = i, ![w].copied = TRUE],
                 Store([file EXCEPT ![i] = file[Source(w)]])
          PROVE  TypeOK'
      <3>1. [job[w] EXCEPT !.own = i, !.copied = TRUE] \in Job
        BY <1>a DEF Job, Name
      <3>2. pc' \in [Workers -> Steps] /\ job' \in [Workers -> Job] /\ ChunkIndexes'
        BY <1>1, <2>1, <3>1 DEF Copy, TypeOK, ChunkIndexes
      <3>3. file[Source(w)] \in Content
        BY <1>1, SourceTyped DEF Copy, TypeOK
      <3>4. [file EXCEPT ![i] = file[Source(w)]] \in [Inodes -> Content]
        BY <3>3 DEF TypeOK
      <3>5. file' \in [Inodes -> Content]
        BY <2>1, <3>4, StoreTyped
      <3> QED BY <1>1, <3>2, <3>5 DEF Copy, TypeOK
    <2>2. CASE End(w) /\ Store(file)
      BY <1>b, <1>c, <1>1, <2>2 DEF Copy, TypeOK
    <2> QED BY <1>1, <2>1, <2>2 DEF Copy
  <1>2. CASE Replace(w)
    BY <1>b, <1>2, SourceTyped, CommitTyped DEF Replace, TypeOK
  <1>3. CASE InstallFails(w)
    BY <1>b, <1>c, <1>3 DEF InstallFails, TypeOK
  <1>4. CASE Link(w)
    BY <1>b, <1>4, CommitTyped DEF Link, TypeOK, Steps
  <1>5. CASE Reserve(w)
    <2>1. PICK i \in Inodes : dest' = i /\ job' = [job EXCEPT ![w].mark = i] /\ Store(file)
      BY <1>5 DEF Reserve
    <2>2. [job[w] EXCEPT !.mark = i] \in Job
      BY <1>a DEF Job, Name
    <2>3. pc' \in [Workers -> Steps] /\ job' \in [Workers -> Job] /\ ChunkIndexes'
      BY <1>c, <1>5, <2>1, <2>2 DEF Reserve, Steps
    <2> QED BY <1>b, <1>5, <2>1, <2>3 DEF Reserve, TypeOK, Name
  <1>6. CASE RenameOver(w)
    BY <1>b, <1>6, SourceTyped, CommitTyped DEF RenameOver, TypeOK
  <1>7. CASE RenameFails(w)
    <2>1. pc' \in [Workers -> Steps] /\ job' \in [Workers -> Job] /\ ChunkIndexes'
      BY <1>a, <1>c, <1>7 DEF RenameFails, Steps
    <2> QED BY <1>b, <1>7, <2>1 DEF RenameFails, TypeOK
  <1>8. CASE Unreserve(w)
    BY <1>b, <1>c, <1>8 DEF Unreserve, TypeOK, Name
  <1>9. CASE RemoveSource(w)
    <2>1. [job[w] EXCEPT !.own = None] \in Job
      BY <1>a DEF Job, Name
    <2>2. pc' \in [Workers -> Steps] /\ job' \in [Workers -> Job] /\ ChunkIndexes'
      BY <1>c, <1>9, <2>1, SourceTyped DEF RemoveSource
    <2>3. assembled' \in Name
      BY <1>9 DEF RemoveSource, TypeOK, Name
    <2> QED BY <1>b, <1>9, <2>2, <2>3 DEF RemoveSource, TypeOK
  <1>10. CASE Unlink(w)
    <2>1. pc' \in [Workers -> Steps] /\ job' \in [Workers -> Job] /\ ChunkIndexes'
      BY <1>a, <1>c, <1>10 DEF Unlink, Steps
    <2>2. assembled' \in Name
      BY <1>10 DEF Unlink, TypeOK, Name
    <2> QED BY <1>b, <1>10, <2>1, <2>2 DEF Unlink, TypeOK
  <1>11. CASE Cleanup(w)
    <2>1. pc' \in [Workers -> Steps]
      BY <1>11 DEF Cleanup, TypeOK, Steps
    <2>2. job' \in [Workers -> Job]
      <3>1. ASSUME NEW v \in Workers
            PROVE  [job[v] EXCEPT !.live = @ /\ job[v].index \in DOMAIN parts'] \in Job
        <4>1. job[v] \in Job /\ (job[v].live /\ job[v].index \in DOMAIN parts') \in BOOLEAN
          BY DEF TypeOK, Job
        <4> QED BY <4>1 DEF Job
      <3>2. job' = [v \in Workers |->
                     IF v = w THEN Blank
                     ELSE [job[v] EXCEPT !.live = @ /\ job[v].index \in DOMAIN parts']]
        BY <1>11 DEF Cleanup
      <3> QED BY <3>1, <3>2, BlankTyped
    <2>3. ChunkIndexes'
      <3>1. \A v \in Workers \ {w} : pc'[v] = pc[v] /\ job'[v].index = job[v].index
        <4>1. \A v \in Workers \ {w} :
                job'[v] = [job[v] EXCEPT !.live = @ /\ job[v].index \in DOMAIN parts']
          BY <1>11 DEF Cleanup
        <4>2. \A v \in Workers \ {w} : job'[v].index = job[v].index
          BY <4>1 DEF TypeOK, Job
        <4> QED BY <1>11, <4>2 DEF Cleanup, TypeOK
      <3>2. pc'[w] = "idle"
        BY <1>11 DEF Cleanup, TypeOK
      <3> QED BY <3>1, <3>2 DEF ChunkIndexes, TypeOK
    <2>4. DOMAIN parts' \subseteq Index /\ parts' \in [DOMAIN parts' -> Content]
      <3>1. CASE parts' = <<>>
        BY <3>1
      <3>2. ASSUME NEW kept \in SUBSET DOMAIN parts, parts' = [i \in kept |-> parts[i]]
            PROVE  DOMAIN parts' \subseteq Index /\ parts' \in [DOMAIN parts' -> Content]
        BY <3>2 DEF TypeOK
      <3> QED BY <1>11, <3>1, <3>2 DEF Cleanup
    <2>5. assembled' \in Name /\ dir' \in BOOLEAN
          /\ meta' \in [here : BOOLEAN, overwrite : BOOLEAN, size : Nat]
      <3>1. NoMeta \in [here : BOOLEAN, overwrite : BOOLEAN, size : Nat]
        BY DEF NoMeta
      <3>2. assembled' \in {assembled, None} /\ dir' \in {dir, FALSE} /\ meta' \in {meta, NoMeta}
        BY <1>11 DEF Cleanup
      <3> QED BY <3>1, <3>2 DEF TypeOK, Name
    <2> QED BY <1>b, <1>11, <2>1, <2>2, <2>3, <2>4, <2>5 DEF Cleanup, TypeOK
  <1> QED
    BY <1>1, <1>2, <1>3, <1>4, <1>5, <1>6, <1>7, <1>8, <1>9, <1>10,
       <1>11 DEF Install

LEMMA TypeNext == TypeOK /\ [Next]_vars => TypeOK'
  <1> SUFFICES ASSUME TypeOK, [Next]_vars PROVE TypeOK'
    OBVIOUS
  <1>1. CASE Crash
    <2>1. file' \in [Inodes -> Content]
      BY <1>1, StoreTyped DEF Crash, TypeOK
    <2> QED
      BY <1>1, <2>1, BlankTyped DEF Crash, TypeOK, ChunkIndexes, Steps, session, volume
  <1>2. CASE UNCHANGED vars
    BY <1>2 DEF vars, session, volume, TypeOK, ChunkIndexes
  <1> QED
    BY <1>1, <1>2, TypeRequest, TypeInSession, TypeInstall DEF Next

\* The types hold throughout, whatever the interleaving of the handlers.
THEOREM TypeCorrect == Spec => []TypeOK
  BY TypeInit, TypeNext, PTL DEF Spec
-----------------------------------------------------------------------------
(* At most one upload without overwrite is installed.  OneCreation alone is  *)
(* not inductive: a handler between its placeholder and the rename counts   *)
(* without looking at the destination again.  What makes this safe is that  *)
(* the placeholder was exclusive (at most one handler is there, and none    *)
(* was installed before) and that from then on the destination is occupied. *)

Reserving(w) == pc[w] \in {"reserved", "unreserve"}
CreationInv ==
  /\ creations \in {0, 1}
  /\ creations = 1 => dest # None
  /\ \A w \in Workers : Reserving(w) => creations = 0 /\ dest # None
  /\ \A v, w \in Workers : Reserving(v) /\ Reserving(w) => v = w

LEMMA CreationInit == Init => CreationInv
  BY InodesAreNumbers DEF Init, CreationInv, Reserving, None

\* Whoever neither reserves nor touches the destination or the count leaves the
\* invariant alone.
LEMMA CreationFrame ==
  ASSUME TypeOK, CreationInv, NEW w \in Workers, NEW s \in Steps,
         Go(w, s), s \notin {"reserved", "unreserve"},
         creations' = creations, dest' = dest
  PROVE  CreationInv'
  BY DEF TypeOK, CreationInv, Reserving, Go

LEMMA CreationEnd ==
  ASSUME TypeOK, CreationInv, NEW w \in Workers, End(w),
         creations' = creations, dest' = dest
  PROVE  CreationInv'
  BY CreationFrame DEF End, Go, Steps

LEMMA CreationSession ==
  ASSUME TypeOK, CreationInv, NEW w \in Workers, Request(w) \/ InSession(w)
  PROVE  CreationInv'
  <1> USE DEF SessionStep
  <1>1. CASE Request(w)
    <2>1. ASSUME NEW s \in Steps \ {"reserved", "unreserve"}, NEW j, Begin(w, s, j)
          PROVE  CreationInv'
      BY <2>1, CreationFrame DEF Begin
    <2> QED
      BY <1>1, <2>1
      DEF Request, UploadInit, UploadChunk, UploadComplete, UploadFile, Steps
  <1>2. CASE Refused(w) \/ WriteMeta(w) \/ Unknown(w) \/ WritePart(w) \/ AssemblyFails(w)
    BY <1>2, CreationEnd DEF Refused, WriteMeta, Unknown, WritePart, AssemblyFails
  <1>3. CASE Checked(w) \/ Known(w) \/ TruncatePart(w) \/ ReadMeta(w)
    BY <1>3, CreationFrame DEF Checked, Known, TruncatePart, ReadMeta, Steps
  <1>4. CASE ListParts(w) \/ CreateAssembled(w) \/ Validate(w) \/ Finalize(w) \/ Stage(w)
    BY <1>4, CreationFrame, CreationEnd
    DEF ListParts, CreateAssembled, Validate, Finalize, Stage, Steps
  <1>5. CASE AppendPart(w)
    BY <1>5, CreationFrame DEF AppendPart, Steps
  <1> QED BY <1>1, <1>2, <1>3, <1>4, <1>5 DEF InSession

\* A commit ends the reservation of its handler and occupies the destination.
LEMMA CreationCommit ==
  ASSUME TypeOK, CreationInv, NEW w \in Workers,
         NEW s \in Steps \ {"reserved", "unreserve"}, Commits(w, s), Source(w) # None,
         \/ creations' = creations
         \/ dest = None /\ creations' = creations + 1
         \/ pc[w] = "reserved" /\ creations' = creations + 1
  PROVE  CreationInv'
  <1>1. dest' # None
    BY DEF Commits
  <1>2. \A v \in Workers : Reserving(v)' => v # w /\ Reserving(v)
    BY DEF Commits, End, Go, Reserving, TypeOK
  <1>3. CASE creations' = creations
    BY <1>1, <1>2, <1>3 DEF CreationInv
  <1>4. CASE dest = None /\ creations' = creations + 1
    BY <1>1, <1>2, <1>4 DEF CreationInv
  <1>5. CASE pc[w] = "reserved" /\ creations' = creations + 1
    BY <1>1, <1>2, <1>5 DEF CreationInv, Reserving
  <1> QED BY <1>3, <1>4, <1>5

LEMMA CreationInstall ==
  ASSUME TypeOK, CreationInv, NEW w \in Workers, Install(w)
  PROVE  CreationInv'
  <1>0. AfterCommit(w) \in Steps \ {"reserved", "unreserve"}
    BY DEF AfterCommit, Steps
  <1>1. CASE Copy(w)
    BY <1>1, CreationEnd DEF Copy, CreationInv, Reserving
  <1>2. CASE Replace(w)
    BY <1>0, <1>2, CreationCommit DEF Replace
  <1>3. CASE InstallFails(w)
    BY <1>3, CreationEnd DEF InstallFails
  <1>4. CASE Link(w)
    BY <1>4, CreationCommit DEF Link, Steps
  <1>5. CASE Reserve(w)
    <2>1. dest = None /\ dest' # None /\ creations' = creations
      BY <1>5, InodesAreNumbers DEF Reserve, None
    <2>2. \A v \in Workers : Reserving(v)' => v = w
      BY <1>5, <2>1 DEF Reserve, Go, CreationInv, Reserving, TypeOK
    <2> QED BY <2>1, <2>2 DEF CreationInv
  <1>6. CASE RenameOver(w)
    BY <1>0, <1>6, CreationCommit DEF RenameOver
  <1>7. CASE RenameFails(w)
    <2>1. CASE End(w)
      BY <1>7, <2>1, CreationEnd DEF RenameFails
    <2>2. CASE Go(w, "unreserve")
      BY <1>7, <2>2 DEF RenameFails, Go, CreationInv, Reserving, TypeOK
    <2> QED BY <1>7, <2>1, <2>2 DEF RenameFails
  <1>8. CASE Unreserve(w)
    <2>1. \A v \in Workers : ~ Reserving(v)'
      BY <1>8 DEF Unreserve, End, CreationInv, Reserving, TypeOK
    <2> QED BY <1>8, <2>1 DEF Unreserve, CreationInv, Reserving
  <1>9. CASE RemoveSource(w)
    BY <1>0, <1>9, CreationEnd, CreationFrame DEF RemoveSource
  <1>10. CASE Unlink(w)
    BY <1>10, CreationEnd, CreationFrame DEF Unlink, Steps
  <1>11. CASE Cleanup(w)
    <2>1. Go(w, "idle") /\ dest' = dest /\ creations' = creations
      BY <1>11 DEF Cleanup, Go
    <2> QED BY <2>1, CreationFrame DEF Steps
  <1> QED
    BY <1>1, <1>2, <1>3, <1>4, <1>5, <1>6, <1>7, <1>8, <1>9, <1>10, <1>11
    DEF Install

LEMMA CreationNext == TypeOK /\ CreationInv /\ [Next]_vars => CreationInv'
  <1> SUFFICES ASSUME TypeOK, CreationInv, [Next]_vars PROVE CreationInv'
    OBVIOUS
  <1>1. CASE Crash
    BY <1>1 DEF Crash, CreationInv, Reserving
  <1>2. CASE UNCHANGED vars
    BY <1>2 DEF vars, CreationInv, Reserving
  <1> QED
    BY <1>1, <1>2, CreationSession, CreationInstall DEF Next

\* Whatever the number of handlers, with hard links or with the placeholder, on
\* one volume or across two, and through crashes and failed renames: of the
\* uploads that may not overwrite at most one reaches the destination.
THEOREM OneCreationHolds == Spec => []OneCreation
  <1>1. CreationInv => OneCreation
    BY DEF CreationInv, OneCreation
  <1> QED
    BY <1>1, CreationInit, CreationNext, TypeCorrect, PTL DEF Spec
-----------------------------------------------------------------------------
(* What the destination holds.  DestinationVerified alone is not inductive:  *)
(* it takes what each handler holds until it commits, and that nobody else   *)
(* can write to it.                                                          *)

\* What a handler holds follows from where it is: a handle while it puts the
\* parts together, a file of its own while it installs one, a count from the
\* listing on, and a digest only with the content it stands for.
Placed(w) ==
  /\ job[w].fd # None <=> pc[w] \in {"assemble", "check"}
  /\ job[w].own # None => pc[w] \in {"install", "reserved", "unreserve", "linked"}
  /\ pc[w] \in {"complete", "list", "create"} => job[w].got = <<>>
  /\ pc[w] \in {"create", "assemble", "check", "final"} => Chunked(w)
  /\ pc[w] = "prepare" => job[w].got = Single /\ ~job[w].sha /\ ~Chunked(w)
  /\ pc[w] \in {"install", "reserved"} => Chunked(w) \/ job[w].own # None
  /\ pc[w] \in {"final", "install", "reserved"} /\ job[w].sha => job[w].got = Intended

\* A file of its own is nobody else's to write.
Private(w) ==
  job[w].own # None =>
    job[w].own # assembled /\ \A v \in Workers : job[v].fd # job[w].own

\* What was written is what was read, and its name, if it still has one, is
\* not the destination.
Assembling(w) ==
  pc[w] \in {"assemble", "check"} =>
    /\ file[job[w].fd] = job[w].got
    /\ job[w].fd # dest /\ assembled \in {None, job[w].fd}

\* What can be installed is what was accepted.
Ready(w) ==
  pc[w] \in {"final", "install", "reserved"} /\ Source(w) # None =>
    file[Source(w)] = job[w].got

Active(w) == Chunked(w) /\ pc[w] \in BeforeCommit
OneUser == \A v, w \in Workers : Active(v) /\ Active(w) => v = w

\* An inode nothing points to is empty, so that a new file is.
Emptied == \A i \in Inodes : i \notin Listed => file[i] = <<>>

ContentInv ==
  /\ \A w \in Workers : Placed(w) /\ Private(w)
  /\ Emptied
  /\ ~shared => OneUser /\ \A w \in Workers : Assembling(w) /\ Ready(w)
  /\ DestinationVerified

LEMMA ContentInit == Init => ContentInv
  <1> SUFFICES ASSUME Init PROVE ContentInv
    OBVIOUS
  <1>1. \A w \in Workers : pc[w] = "idle" /\ job[w].fd = None /\ job[w].own = None
    BY DEF Init, Blank
  <1>2. \A w \in Workers : Placed(w) /\ Private(w) /\ Assembling(w) /\ Ready(w) /\ ~Active(w)
    BY <1>1 DEF Placed, Private, Assembling, Ready, Active, BeforeCommit
  <1>3. Emptied /\ DestinationVerified
    BY DEF Init, Emptied, Listed, DestinationVerified, Old, Placeholder
  <1> QED BY <1>2, <1>3 DEF ContentInv, OneUser

\* A name is that of an inode, or none.
LEMMA NamesTyped ==
  ASSUME TypeOK
  PROVE  /\ None \notin Inodes
         /\ \A w \in Workers : /\ job[w].fd # None => job[w].fd \in Inodes
                               /\ job[w].own # None => job[w].own \in Inodes
                               /\ Source(w) # None => Source(w) \in Inodes
         /\ assembled # None => assembled \in Inodes
         /\ dest # None => dest \in Inodes
  BY InodesAreNumbers DEF TypeOK, Job, Name, None, Source

LEMMA StoreKeeps ==
  ASSUME NEW f \in [Inodes -> Content], Store(f)
  PROVE  \A i \in Inodes : /\ i \in Listed' => file'[i] = f[i]
                           /\ i \notin Listed' => file'[i] = <<>>
  BY DEF Store

LEMMA ListedNow ==
  /\ dest' \in Listed' /\ assembled' \in Listed'
  /\ \A w \in Workers : job'[w].fd \in Listed' /\ job'[w].own \in Listed'
                        /\ Source(w)' \in Listed'
  BY DEF Listed, Source

\* A handler that a step leaves where it is, with what it holds.
Steady(v) ==
  /\ pc'[v] = pc[v]
  /\ job'[v].fd = job[v].fd /\ job'[v].own = job[v].own /\ job'[v].got = job[v].got
  /\ job'[v].count = job[v].count /\ job'[v].sha = job[v].sha

\* A step that opens and writes no file, and only takes names away.
Quiet ==
  /\ dest' \in {dest, None} /\ assembled' \in {assembled, None}
  /\ shared' = shared /\ expect' = expect /\ promised' = promised
  /\ \A v \in Workers : /\ job'[v].fd \in {job[v].fd, None}
                        /\ job'[v].own \in {job[v].own, None}
  /\ Store(file) \/ (file' = file /\ Listed' = Listed)

LEMMA SteadyKeeps ==
  ASSUME NEW v \in Workers, Steady(v)
  PROVE  /\ Placed(v) => Placed(v)'
         /\ Active(v)' = Active(v)
  BY DEF Steady, Placed, Active, Chunked, BeforeCommit

LEMMA QuietStep ==
  ASSUME TypeOK, ContentInv, Quiet,
         \A v \in Workers :
           \/ Steady(v)
           \/ /\ Placed(v)' /\ (Active(v)' => Active(v))
              /\ ~shared => Assembling(v)' /\ Ready(v)'
  PROVE  ContentInv'
  <1>0. Emptied /\ DestinationVerified /\ \A w \in Workers : Placed(w) /\ Private(w)
    BY DEF ContentInv
  <1>1. \A i \in Inodes : /\ i \in Listed' => file'[i] = file[i]
                          /\ i \notin Listed' => file'[i] = <<>>
    <2>1. CASE Store(file)
      BY <2>1, StoreKeeps DEF TypeOK
    <2>2. CASE file' = file /\ Listed' = Listed
      BY <1>0, <2>2 DEF Emptied
    <2> QED BY <2>1, <2>2 DEF Quiet
  <1>2. \A v \in Workers : Placed(v)' /\ (Active(v)' => Active(v))
    BY <1>0, SteadyKeeps
  <1>3. ASSUME NEW v \in Workers PROVE Private(v)'
    <2>1. /\ assembled' \in {assembled, None} /\ job'[v].own \in {job[v].own, None}
          /\ \A u \in Workers : job'[u].fd \in {job[u].fd, None}
      BY DEF Quiet
    <2> QED BY <1>0, <2>1 DEF Private
  <1>4. Emptied'
    BY <1>1 DEF Emptied
  <1>5. ASSUME ~shared PROVE OneUser' /\ \A v \in Workers : Assembling(v)' /\ Ready(v)'
    <2>1. OneUser /\ \A v \in Workers : Assembling(v) /\ Ready(v)
      BY <1>5 DEF ContentInv
    <2>2. OneUser'
      BY <1>2, <2>1 DEF OneUser
    <2>3. ASSUME NEW v \in Workers, Steady(v) PROVE Assembling(v)'
      <3> SUFFICES ASSUME pc[v] \in {"assemble", "check"}
                   PROVE  /\ file'[job[v].fd] = job[v].got /\ job[v].fd # dest'
                          /\ assembled' \in {None, job[v].fd}
        BY <2>3 DEF Steady, Assembling
      <3>1. job[v].fd \in Inodes /\ job[v].fd # None /\ job'[v].fd = job[v].fd
        BY <1>0, <2>3, NamesTyped DEF Placed, Steady
      <3>2. file[job[v].fd] = job[v].got /\ job[v].fd # dest /\ assembled \in {None, job[v].fd}
        BY <2>1 DEF Assembling
      <3>3. job[v].fd \in Listed'
        BY <3>1, ListedNow
      <3> QED BY <1>1, <3>1, <3>2, <3>3 DEF Quiet
    <2>4. ASSUME NEW v \in Workers, Steady(v) PROVE Ready(v)'
      <3>1. Source(v)' # None => Source(v)' = Source(v)
        BY <2>4 DEF Source, Steady, Quiet
      <3>2. Source(v)' # None => file'[Source(v)'] = file[Source(v)]
        BY <1>1, <3>1, ListedNow, NamesTyped
      <3> QED BY <2>1, <2>4, <3>1, <3>2 DEF Ready, Steady
    <2> QED BY <1>5, <2>2, <2>3, <2>4
  <1>6. DestinationVerified'
    <2>1. dest' # None => dest' = dest /\ file'[dest'] = file[dest]
      BY <1>1, ListedNow, NamesTyped DEF Quiet
    <2> QED BY <1>0, <2>1 DEF DestinationVerified, Quiet
  <1> QED BY <1>2, <1>3, <1>4, <1>5, <1>6 DEF ContentInv, Quiet

\* A handler that ends, or whose fields but index and live stay.
LEMMA EndPlaced ==
  ASSUME TypeOK, NEW w \in Workers, End(w)
  PROVE  /\ Placed(w)' /\ ~Active(w)' /\ Assembling(w)' /\ Ready(w)'
         /\ job'[w].fd = None /\ job'[w].own = None
         /\ \A v \in Workers \ {w} : Steady(v)
  <1>1. pc'[w] = "idle" /\ job'[w] = Blank /\ Blank.fd = None /\ Blank.own = None
    BY DEF End, TypeOK, Blank
  <1>2. \A v \in Workers \ {w} : Steady(v)
    BY DEF End, TypeOK, Steady
  <1> QED BY <1>1, <1>2 DEF Placed, Active, BeforeCommit, Assembling, Ready

LEMMA EndStep ==
  ASSUME TypeOK, ContentInv, NEW w \in Workers, End(w),
         dest' \in {dest, None}, assembled' \in {assembled, None},
         shared' = shared, expect' = expect, promised' = promised, Store(file)
  PROVE  ContentInv'
  <1>1. Quiet
    BY EndPlaced DEF Quiet, Steady
  <1> QED BY <1>1, EndPlaced, QuietStep

\* A new file is nobody's.
LEMMA FreshApart ==
  ASSUME TypeOK, NEW i \in Inodes, Fresh(i)
  PROVE  /\ i \notin Listed /\ i # None /\ i # assembled /\ i # dest
         /\ \A v \in Workers : /\ job[v].fd # i /\ job[v].own # i /\ Source(v) # i
  BY InodesAreNumbers DEF Fresh, Listed, Source, None

\* A handler makes a file of its own and fills it.
LEMMA OwnStep ==
  ASSUME TypeOK, ContentInv, NEW w \in Workers, NEW i \in Inodes, Fresh(i), NEW c \in Content,
         \A v \in Workers \ {w} : Steady(v),
         pc'[w] = "install", job'[w].own = i, job'[w].fd = None, Placed(w)',
         Active(w)' => Active(w), ~shared => job'[w].got = c,
         dest' = dest, assembled' = assembled, shared' = shared, expect' = expect,
         promised' = promised, Store([file EXCEPT ![i] = c])
  PROVE  ContentInv'
  <1> DEFINE f == [file EXCEPT ![i] = c]
  <1>0. Emptied /\ DestinationVerified /\ \A v \in Workers : Placed(v) /\ Private(v)
    BY DEF ContentInv
  <1>1. \A j \in Inodes : /\ j \in Listed' => file'[j] = IF j = i THEN c ELSE file[j]
                          /\ j \notin Listed' => file'[j] = <<>>
    <2>1. f \in [Inodes -> Content] /\ \A j \in Inodes : f[j] = IF j = i THEN c ELSE file[j]
      BY DEF TypeOK
    <2> HIDE DEF f
    <2> QED BY <2>1, StoreKeeps DEF f
  <1> HIDE DEF f
  <1>2. \A v \in Workers : Placed(v)' /\ (Active(v)' => Active(v))
    BY <1>0, SteadyKeeps
  <1>3. ASSUME NEW v \in Workers PROVE Private(v)'
    <2>1. \A u \in Workers : job'[u].fd \in {job[u].fd, None}
      BY DEF Steady
    <2>2. CASE v = w
      BY <2>1, <2>2, FreshApart DEF Private
    <2>3. CASE v # w
      BY <1>0, <2>1, <2>3 DEF Private, Steady
    <2> QED BY <2>2, <2>3
  <1>4. Emptied'
    BY <1>1 DEF Emptied
  <1>5. ASSUME ~shared PROVE OneUser' /\ \A v \in Workers : Assembling(v)' /\ Ready(v)'
    <2>1. OneUser /\ \A v \in Workers : Assembling(v) /\ Ready(v)
      BY <1>5 DEF ContentInv
    <2>2. OneUser'
      BY <1>2, <2>1 DEF OneUser
    <2>3. Assembling(w)'
      BY DEF Assembling
    <2>4. Ready(w)'
      <3>1. Source(w)' = i /\ i \in Listed'
        BY FreshApart, ListedNow DEF Source
      <3> QED BY <1>1, <1>5, <3>1 DEF Ready
    <2>5. ASSUME NEW v \in Workers \ {w} PROVE Assembling(v)'
      <3> SUFFICES ASSUME pc[v] \in {"assemble", "check"}
                   PROVE  /\ file'[job[v].fd] = job[v].got /\ job[v].fd # dest'
                          /\ assembled' \in {None, job[v].fd}
        BY <2>5 DEF Steady, Assembling
      <3>1. job[v].fd \in Inodes /\ job[v].fd # i /\ job'[v].fd = job[v].fd
        BY <1>0, <2>5, NamesTyped, FreshApart DEF Placed, Steady
      <3>2. file[job[v].fd] = job[v].got /\ job[v].fd # dest /\ assembled \in {None, job[v].fd}
        BY <2>1 DEF Assembling
      <3>3. job[v].fd \in Listed'
        BY <3>1, ListedNow
      <3> QED BY <1>1, <3>1, <3>2, <3>3
    <2>6. ASSUME NEW v \in Workers \ {w} PROVE Ready(v)'
      <3>1. Source(v)' = Source(v) /\ Source(v) # i
        BY <2>6, FreshApart DEF Source, Steady
      <3>2. Source(v)' # None => file'[Source(v)'] = file[Source(v)]
        BY <1>1, <3>1, ListedNow, NamesTyped
      <3> QED BY <2>1, <2>6, <3>1, <3>2 DEF Ready, Steady
    <2> QED BY <2>2, <2>3, <2>4, <2>5, <2>6
  <1>6. DestinationVerified'
    <2>1. dest' # None => dest' = dest /\ file'[dest'] = file[dest]
      BY <1>1, ListedNow, NamesTyped, FreshApart
    <2> QED BY <1>0, <2>1 DEF DestinationVerified
  <1> QED BY <1>2, <1>3, <1>4, <1>5, <1>6 DEF ContentInv

\* The mark of a reserved destination is not what a handler has read.
LEMMA GotIsNoMark ==
  ASSUME TypeOK, NEW w \in Workers
  PROVE  job[w].got # Placeholder
  <1>1. job[w].got \in Seq(Bytes)
    BY DEF TypeOK, Job, Content
  <1>2. "placeholder" \notin Bytes
    BY MarkIsUnsent DEF Bytes, Hole, Index
  <1>3. CASE job[w].got = Placeholder
    <2>1. Placeholder \in Seq(Bytes) /\ Len(Placeholder) = 1
      BY <1>1, <1>3 DEF Placeholder
    <2>2. Placeholder[1] \in Bytes
      BY <2>1
    <2> QED BY <1>2, <2>2 DEF Placeholder
  <1> QED BY <1>3

\* A commit puts what was accepted where the destination is.
LEMMA CommitStep ==
  ASSUME TypeOK, ContentInv, NEW w \in Workers,
         NEW step \in {"idle", "linked", "unlink", "cleanup"},
         pc[w] \in {"install", "reserved"}, Source(w) # None, Commits(w, step),
         assembled' \in {assembled, None}, shared' = shared, Store(file)
  PROVE  ContentInv'
  <1>0. Emptied /\ DestinationVerified /\ \A v \in Workers : Placed(v) /\ Private(v)
    BY DEF ContentInv
  <1>1. \A i \in Inodes : /\ i \in Listed' => file'[i] = file[i]
                          /\ i \notin Listed' => file'[i] = <<>>
    BY StoreKeeps DEF TypeOK
  <1>2. /\ pc'[w] = step /\ \A v \in Workers \ {w} : Steady(v)
        /\ job'[w].fd = None /\ job'[w].own \in {job[w].own, None}
        /\ job'[w].own # None => step = "linked"
    <2>1. CASE step = "idle"
      BY <2>1, EndPlaced DEF Commits, End, TypeOK
    <2>2. CASE step # "idle"
      <3>1. job'[w] = [job[w] EXCEPT !.own = IF step = "linked" THEN job[w].own ELSE None]
            /\ pc'[w] = step /\ \A v \in Workers \ {w} : Steady(v)
        BY <2>2 DEF Commits, Go, TypeOK, Steady
      <3>2. job[w] \in Job /\ job[w].fd = None
        BY <1>0 DEF TypeOK, Placed
      <3>3. job'[w].fd = job[w].fd /\ job'[w].own = IF step = "linked" THEN job[w].own ELSE None
        BY <3>1, <3>2 DEF Job
      <3> QED BY <3>1, <3>2, <3>3
    <2> QED BY <2>1, <2>2
  <1>3. dest' = Source(w) /\ expect' = job[w].got /\ promised' = job[w].sha
    BY DEF Commits
  <1>4. \A v \in Workers : Placed(v)' /\ (Active(v)' => Active(v))
    <2>1. Placed(w)' /\ ~Active(w)'
      BY <1>2 DEF Placed, Active, BeforeCommit
    <2> QED BY <1>0, <1>2, <2>1, SteadyKeeps
  <1>5. ASSUME NEW v \in Workers PROVE Private(v)'
    <2>1. /\ job'[v].own \in {job[v].own, None}
          /\ \A u \in Workers : job'[u].fd \in {job[u].fd, None}
      BY <1>2 DEF Steady
    <2> QED BY <1>0, <2>1 DEF Private
  <1>6. Emptied'
    BY <1>1 DEF Emptied
  <1>7. ASSUME ~shared PROVE OneUser' /\ \A v \in Workers : Assembling(v)' /\ Ready(v)'
    <2>1. OneUser /\ \A v \in Workers : Assembling(v) /\ Ready(v)
      BY <1>7 DEF ContentInv
    <2>2. OneUser'
      BY <1>4, <2>1 DEF OneUser
    <2>3. Assembling(w)' /\ Ready(w)'
      BY <1>2 DEF Assembling, Ready
    <2>4. ASSUME NEW v \in Workers \ {w} PROVE Assembling(v)'
      <3> SUFFICES ASSUME pc[v] \in {"assemble", "check"}
                   PROVE  /\ file'[job[v].fd] = job[v].got /\ job[v].fd # dest'
                          /\ assembled' \in {None, job[v].fd}
        BY <1>2, <2>4 DEF Steady, Assembling
      <3>1. job[v].fd \in Inodes /\ job[v].fd # None /\ job'[v].fd = job[v].fd
        BY <1>0, <1>2, NamesTyped DEF Placed, Steady
      <3>2. file[job[v].fd] = job[v].got /\ assembled \in {None, job[v].fd}
        BY <2>1 DEF Assembling
      <3>3. job[v].fd \in Listed'
        BY <3>1, ListedNow
      <3>4. job[v].fd # dest'
        <4>1. CASE job[w].own # None
          BY <1>0, <1>3, <4>1 DEF Source, Private
        <4>2. CASE job[w].own = None
          <5>1. Active(w) /\ Active(v)
            BY <1>0, <4>2 DEF Placed, Active, BeforeCommit, Chunked
          <5> QED BY <2>1, <2>4, <5>1 DEF OneUser
        <4> QED BY <4>1, <4>2
      <3> QED BY <1>1, <3>1, <3>2, <3>3, <3>4
    <2>5. ASSUME NEW v \in Workers \ {w} PROVE Ready(v)'
      <3>1. Source(v)' # None => Source(v)' = Source(v)
        BY <1>2, <2>5 DEF Source, Steady
      <3>2. Source(v)' # None => file'[Source(v)'] = file[Source(v)]
        BY <1>1, <3>1, ListedNow, NamesTyped
      <3> QED BY <1>2, <2>1, <3>1, <3>2 DEF Ready, Steady
    <2> QED BY <2>2, <2>3, <2>4, <2>5
  <1>8. DestinationVerified'
    <2> SUFFICES ASSUME ~shared
                 PROVE  /\ file'[dest'] = job[w].got
                        /\ job[w].sha => job[w].got = Intended
      BY <1>3, GotIsNoMark DEF DestinationVerified
    <2>1. file[Source(w)] = job[w].got
      BY DEF ContentInv, Ready
    <2>2. file'[dest'] = file[Source(w)]
      BY <1>1, <1>3, ListedNow, NamesTyped
    <2>3. job[w].sha => job[w].got = Intended
      BY <1>0 DEF Placed
    <2> QED BY <2>1, <2>2, <2>3
  <1> QED BY <1>4, <1>5, <1>6, <1>7, <1>8 DEF ContentInv

\* A write at the end of a file appends.
LEMMA WrittenAtEnd ==
  ASSUME NEW content \in Content, NEW data \in Content
  PROVE  Written(content, Len(content), data) = content \o data
  <1> DEFINE n == Len(content)
             m == Len(data)
             new == Written(content, n, data)
  <1>1. content \in Seq(Bytes) /\ data \in Seq(Bytes) /\ n \in Nat /\ m \in Nat
    BY DEF Content
  <1>2. new = [k \in 1 .. (n + m) |->
                 IF k > n /\ k <= n + m THEN data[k - n]
                 ELSE IF k <= n THEN content[k] ELSE Hole]
    <2>1. (IF n > n + m THEN n ELSE n + m) = n + m
      BY <1>1
    <2> QED BY <2>1 DEF Written
  <1>3. new \in Seq(Bytes)
    BY <1>1, WrittenTyped DEF Content
  <1>4. content \o data \in Seq(Bytes) /\ Len(content \o data) = n + m
        /\ \A i \in 1 .. (n + m) : (content \o data)[i] = IF i <= n THEN content[i] ELSE data[i - n]
    BY <1>1, ConcatProperties
  <1> HIDE DEF n, m, new
  <1>5. Len(new) = n + m
    <2>1. DOMAIN new = 1 .. (n + m)
      BY <1>2
    <2>2. DOMAIN new = 1 .. Len(new) /\ Len(new) \in Nat
      BY <1>3, LenProperties
    <2> QED BY <1>1, <2>1, <2>2
  <1>6. ASSUME NEW i \in 1 .. (n + m) PROVE new[i] = (content \o data)[i]
    <2>1. CASE i <= n
      BY <1>1, <1>2, <1>4, <2>1
    <2>2. CASE ~(i <= n)
      BY <1>1, <1>2, <1>4, <2>2
    <2> QED BY <2>1, <2>2
  <1>7. new = content \o data
    BY <1>3, <1>4, <1>5, <1>6, SeqEqual
  <1> QED BY <1>7 DEF new, n

\* assembled.bin is opened with truncation, or made.
LEMMA CreateStep ==
  ASSUME TypeOK, ContentInv, NEW w \in Workers, NEW i \in Inodes,
         pc[w] = "create", Go(w, "assemble"), job' = [job EXCEPT ![w].fd = i],
         IF assembled = None THEN Fresh(i) ELSE i = assembled,
         assembled' = i, dest' = dest, expect' = expect, promised' = promised,
         shared' = (shared \/ Overlaps(w)), Store([file EXCEPT ![i] = <<>>])
  PROVE  ContentInv'
  <1> DEFINE f == [file EXCEPT ![i] = <<>>]
  <1>0. Emptied /\ DestinationVerified /\ \A v \in Workers : Placed(v) /\ Private(v)
    BY DEF ContentInv
  <1>1. \A j \in Inodes : /\ j \in Listed' => file'[j] = IF j = i THEN <<>> ELSE file[j]
                          /\ j \notin Listed' => file'[j] = <<>>
    <2>1. f \in [Inodes -> Content] /\ \A j \in Inodes : f[j] = IF j = i THEN <<>> ELSE file[j]
      BY SingleTyped DEF TypeOK
    <2> HIDE DEF f
    <2> QED BY <2>1, StoreKeeps DEF f
  <1> HIDE DEF f
  <1>2. /\ pc'[w] = "assemble" /\ job'[w].fd = i /\ job'[w].own = None /\ job'[w].got = <<>>
        /\ Chunked(w)' /\ \A v \in Workers \ {w} : Steady(v)
    <2>1. job[w] \in Job /\ job[w].own = None /\ job[w].got = <<>> /\ Chunked(w)
      BY <1>0 DEF TypeOK, Placed
    <2>2. pc'[w] = "assemble" /\ job'[w] = [job[w] EXCEPT !.fd = i]
          /\ \A v \in Workers \ {w} : Steady(v)
      BY DEF TypeOK, Go, Steady
    <2>3. /\ job'[w].fd = i /\ job'[w].own = job[w].own /\ job'[w].got = job[w].got
          /\ job'[w].count = job[w].count
      BY <2>1, <2>2 DEF Job
    <2> QED BY <2>1, <2>2, <2>3 DEF Chunked
  <1>3. \A v \in Workers : Placed(v)'
    <2>1. Placed(w)'
      BY <1>2, NamesTyped DEF Placed
    <2> QED BY <1>0, <1>2, <2>1, SteadyKeeps
  <1>4. i # None /\ \A v \in Workers : job[v].own # None => job[v].own # i
    BY <1>0, NamesTyped, FreshApart DEF Private
  <1>5. ASSUME NEW v \in Workers PROVE Private(v)'
    <2>1. job'[v].own # None => v # w /\ job'[v].own = job[v].own
      BY <1>2 DEF Steady
    <2>2. \A u \in Workers : job'[u].fd = job[u].fd \/ job'[u].fd = i
      BY <1>2 DEF Steady
    <2> QED BY <1>0, <1>4, <2>1, <2>2 DEF Private
  <1>6. Emptied'
    BY <1>1 DEF Emptied
  <1>7. ASSUME ~shared' PROVE OneUser' /\ \A v \in Workers : Assembling(v)' /\ Ready(v)'
    <2>1. \A v \in Workers : Assembling(v) /\ Ready(v)
      BY <1>7 DEF ContentInv
    <2>2. /\ ~(assembled # None /\ assembled = dest)
          /\ \A v \in Workers \ {w} : ~Active(v)
      BY <1>7 DEF Overlaps, Active
    <2>3. OneUser'
      BY <1>2, <2>2, SteadyKeeps DEF OneUser
    <2>4. Assembling(w)' /\ Ready(w)'
      <3>1. file'[i] = <<>>
        BY <1>1
      <3>2. i # dest
        BY <2>2, FreshApart
      <3> QED BY <1>2, <3>1, <3>2 DEF Assembling, Ready
    <2>5. ASSUME NEW v \in Workers \ {w} PROVE Assembling(v)'
      <3>1. pc[v] \notin {"assemble", "check"}
        BY <1>0, <2>2 DEF Placed, Active, BeforeCommit
      <3> QED BY <1>2, <3>1 DEF Assembling, Steady
    <2>6. ASSUME NEW v \in Workers \ {w} PROVE Ready(v)'
      <3> SUFFICES ASSUME pc[v] \in {"final", "install", "reserved"}
                   PROVE  Source(v)' # None => file'[Source(v)'] = job[v].got
        BY <1>2 DEF Ready, Steady
      <3>1. job[v].own # None
        BY <1>0, <2>2 DEF Placed, Active, BeforeCommit
      <3>2. Source(v)' = job[v].own /\ Source(v) = job[v].own
        BY <1>2, <3>1 DEF Source, Steady
      <3>3. file'[Source(v)'] = file[Source(v)]
        BY <1>1, <1>4, <3>1, <3>2, ListedNow, NamesTyped
      <3> QED BY <2>1, <3>1, <3>2, <3>3 DEF Ready
    <2> QED BY <2>3, <2>4, <2>5, <2>6
  <1>8. DestinationVerified'
    <2> SUFFICES ASSUME dest # None, ~shared' PROVE file'[dest] = file[dest] /\ ~shared
      BY <1>0 DEF DestinationVerified
    <2>1. dest # i
      BY FreshApart DEF Overlaps
    <2> QED BY <1>1, <2>1, ListedNow, NamesTyped
  <1> QED BY <1>3, <1>5, <1>6, <1>7, <1>8 DEF ContentInv

\* The bytes of a part go behind those the handler has written.
LEMMA AppendStep ==
  ASSUME TypeOK, ContentInv, NEW w \in Workers, AppendPart(w)
  PROVE  ContentInv'
  <1> DEFINE i == job[w].index + 1
             fd == job[w].fd
             c == Written(file[fd], Len(job[w].got), parts[i])
             f == [file EXCEPT ![fd] = c]
  <1>0. Emptied /\ DestinationVerified /\ \A v \in Workers : Placed(v) /\ Private(v)
    BY DEF ContentInv
  <1>a. /\ pc[w] = "assemble" /\ i \in DOMAIN parts
        /\ job' = [job EXCEPT ![w].index = i, ![w].got = @ \o parts[i]]
        /\ \E s \in {"check", "assemble"} : Go(w, s)
        /\ dest' = dest /\ assembled' = assembled /\ shared' = shared
        /\ expect' = expect /\ promised' = promised /\ Store(f)
    BY DEF AppendPart, SessionStep
  <1>b. fd \in Inodes /\ fd # None /\ file[fd] \in Content /\ job[w].got \in Content
        /\ parts[i] \in Content
    BY <1>0, <1>a, NamesTyped DEF TypeOK, Placed, Job
  <1>c. c \in Content
    BY <1>b, WrittenTyped DEF Content
  <1>1. \A j \in Inodes : /\ j \in Listed' => file'[j] = IF j = fd THEN c ELSE file[j]
                          /\ j \notin Listed' => file'[j] = <<>>
    <2>1. f \in [Inodes -> Content] /\ \A j \in Inodes : f[j] = IF j = fd THEN c ELSE file[j]
      <3> HIDE DEF c
      <3> QED BY <1>b, <1>c DEF TypeOK
    <2>2. Store(f)
      BY <1>a
    <2> HIDE DEF f
    <2> QED BY <2>1, <2>2, StoreKeeps
  <1>2. /\ pc'[w] \in {"check", "assemble"} /\ job'[w].fd = fd /\ job'[w].own = None
        /\ job'[w].got = job[w].got \o parts[i]
        /\ Chunked(w)' /\ \A v \in Workers \ {w} : Steady(v)
    <2>1. job[w] \in Job /\ job[w].own = None /\ Chunked(w)
      BY <1>0, <1>a DEF TypeOK, Placed
    <2>2. /\ pc'[w] \in {"check", "assemble"}
          /\ job'[w] = [job[w] EXCEPT !.index = i, !.got = job[w].got \o parts[i]]
          /\ \A v \in Workers \ {w} : Steady(v)
      BY <1>a, <2>1 DEF TypeOK, Go, Steady, Job
    <2>3. /\ job'[w].fd = job[w].fd /\ job'[w].own = job[w].own
          /\ job'[w].got = job[w].got \o parts[i] /\ job'[w].count = job[w].count
      BY <2>1, <2>2 DEF Job
    <2> QED BY <2>1, <2>2, <2>3 DEF Chunked
  <1> HIDE DEF c, f
  <1>3. \A v \in Workers : Placed(v)' /\ (Active(v)' => Active(v))
    <2>1. Placed(w)' /\ Active(w)
      BY <1>0, <1>2, <1>a, <1>b DEF Placed, Active, BeforeCommit
    <2> QED BY <1>0, <1>2, <2>1, SteadyKeeps
  <1>4. ASSUME NEW v \in Workers PROVE Private(v)'
    <2>1. job'[v].own = job[v].own \/ job'[v].own = None
      BY <1>2 DEF Steady
    <2>2. \A u \in Workers : job'[u].fd = job[u].fd
      BY <1>2 DEF Steady
    <2> QED BY <1>0, <1>a, <2>1, <2>2 DEF Private
  <1>5. Emptied'
    BY <1>1 DEF Emptied
  <1>6. Active(w)
    BY <1>0, <1>a DEF Placed, Active, BeforeCommit
  <1>7. ASSUME ~shared PROVE OneUser' /\ \A v \in Workers : Assembling(v)' /\ Ready(v)'
    <2>1. OneUser /\ \A v \in Workers : Assembling(v) /\ Ready(v)
      BY <1>7 DEF ContentInv
    <2>2. OneUser'
      BY <1>3, <2>1 DEF OneUser
    <2>3. Assembling(w)' /\ Ready(w)'
      <3>1. file[fd] = job[w].got /\ fd # dest /\ assembled \in {None, fd}
        BY <1>a, <2>1 DEF Assembling
      <3>2. file'[fd] = c
        BY <1>1, <1>2, <1>b, ListedNow
      <3>3. c = job[w].got \o parts[i]
        BY <1>b, <3>1, WrittenAtEnd DEF c
      <3> QED BY <1>2, <1>a, <3>1, <3>2, <3>3 DEF Assembling, Ready
    <2>4. ASSUME NEW v \in Workers \ {w} PROVE Assembling(v)'
      <3>1. pc[v] \notin {"assemble", "check"}
        BY <1>0, <1>6, <2>1 DEF Placed, Active, BeforeCommit, OneUser
      <3> QED BY <1>2, <3>1 DEF Assembling, Steady
    <2>5. ASSUME NEW v \in Workers \ {w} PROVE Ready(v)'
      <3> SUFFICES ASSUME pc[v] \in {"final", "install", "reserved"}
                   PROVE  Source(v)' # None => file'[Source(v)'] = job[v].got
        BY <1>2 DEF Ready, Steady
      <3>1. job[v].own # None
        <4>1. ~Active(v)
          BY <1>6, <2>1 DEF OneUser
        <4> QED BY <1>0, <4>1 DEF Placed, Active, BeforeCommit
      <3>2. Source(v)' = job[v].own /\ Source(v) = job[v].own /\ job[v].own # fd
        BY <1>0, <1>2, <3>1 DEF Source, Steady, Private
      <3>3. file'[Source(v)'] = file[Source(v)]
        BY <1>1, <3>1, <3>2, ListedNow, NamesTyped
      <3> QED BY <2>1, <3>1, <3>2, <3>3 DEF Ready
    <2> QED BY <2>2, <2>3, <2>4, <2>5
  <1>8. DestinationVerified'
    <2> SUFFICES ASSUME dest # None, ~shared PROVE file'[dest] = file[dest]
      BY <1>0, <1>a DEF DestinationVerified
    <2>1. dest # fd
      BY <1>a DEF ContentInv, Assembling
    <2> QED BY <1>1, <1>a, <2>1, ListedNow, NamesTyped
  <1> QED BY <1>3, <1>4, <1>5, <1>7, <1>8, <1>a DEF ContentInv

\* A placeholder is a new file at the destination.
LEMMA ReserveStep ==
  ASSUME TypeOK, ContentInv, NEW w \in Workers, Reserve(w)
  PROVE  ContentInv'
  <1>0. Emptied /\ DestinationVerified /\ \A v \in Workers : Placed(v) /\ Private(v)
    BY DEF ContentInv
  <1>a. PICK i \in Inodes : /\ Fresh(i) /\ dest' = i /\ job' = [job EXCEPT ![w].mark = i]
                            /\ Store(file)
    BY DEF Reserve
  <1>b. /\ pc[w] = "install" /\ Go(w, "reserved") /\ assembled' = assembled /\ shared' = shared
        /\ expect' = Placeholder /\ promised' = FALSE
    BY DEF Reserve, InstallStep
  <1>1. \A j \in Inodes : /\ j \in Listed' => file'[j] = file[j]
                          /\ j \notin Listed' => file'[j] = <<>>
    BY <1>a, StoreKeeps DEF TypeOK
  <1>2. /\ pc'[w] = "reserved" /\ \A v \in Workers \ {w} : Steady(v)
        /\ job'[w].fd = job[w].fd /\ job'[w].own = job[w].own /\ job'[w].got = job[w].got
        /\ job'[w].count = job[w].count /\ job'[w].sha = job[w].sha
    <2>1. pc'[w] = "reserved" /\ job'[w] = [job[w] EXCEPT !.mark = i] /\ job[w] \in Job
          /\ \A v \in Workers \ {w} : Steady(v)
      BY <1>a, <1>b DEF TypeOK, Go, Steady
    <2> QED BY <2>1 DEF Job
  <1>3. \A v \in Workers : Placed(v)' /\ (Active(v)' => Active(v))
    <2>1. Placed(w)' /\ (Active(w)' => Active(w))
      BY <1>0, <1>2, <1>b DEF Placed, Active, Chunked, BeforeCommit
    <2> QED BY <1>0, <1>2, <2>1, SteadyKeeps
  <1>4. \A v \in Workers : job'[v].fd = job[v].fd /\ job'[v].own = job[v].own
    BY <1>2 DEF Steady
  <1>5. \A v \in Workers : Private(v)'
    BY <1>0, <1>4, <1>b DEF Private
  <1>6. Emptied'
    BY <1>1 DEF Emptied
  <1>7. ASSUME ~shared PROVE OneUser' /\ \A v \in Workers : Assembling(v)' /\ Ready(v)'
    <2>1. OneUser /\ \A v \in Workers : Assembling(v) /\ Ready(v)
      BY <1>7 DEF ContentInv
    <2>2. OneUser'
      BY <1>3, <2>1 DEF OneUser
    <2>3. ASSUME NEW v \in Workers PROVE Assembling(v)'
      <3> SUFFICES ASSUME v # w, pc[v] \in {"assemble", "check"}
                   PROVE  /\ file'[job[v].fd] = job[v].got /\ job[v].fd # dest'
                          /\ assembled' \in {None, job[v].fd}
        BY <1>2 DEF Steady, Assembling
      <3>1. job[v].fd \in Inodes /\ job'[v].fd = job[v].fd /\ job[v].fd # i
        BY <1>0, <1>4, <1>a, NamesTyped, FreshApart DEF Placed
      <3>2. file[job[v].fd] = job[v].got /\ assembled \in {None, job[v].fd}
        BY <2>1 DEF Assembling
      <3>3. job[v].fd \in Listed'
        BY <3>1, ListedNow
      <3> QED BY <1>1, <1>a, <1>b, <3>1, <3>2, <3>3
    <2>4. ASSUME NEW v \in Workers PROVE Ready(v)'
      <3>1. Source(v)' = Source(v) /\ job'[v].got = job[v].got
        BY <1>2, <1>4, <1>b DEF Source, Steady
      <3>2. Source(v)' # None => file'[Source(v)'] = file[Source(v)]
        BY <1>1, <3>1, ListedNow, NamesTyped
      <3>3. pc'[v] \in {"final", "install", "reserved"} => pc[v] \in {"final", "install", "reserved"}
        BY <1>2, <1>b DEF Steady
      <3> QED BY <2>1, <3>1, <3>2, <3>3 DEF Ready
    <2> QED BY <2>2, <2>3, <2>4
  <1>8. DestinationVerified'
    <2>1. file[i] = <<>>
      BY <1>0, <1>a, FreshApart DEF Emptied
    <2>2. file'[i] = <<>>
      BY <1>1, <1>a, <2>1, ListedNow
    <2> QED BY <1>a, <1>b, <2>2 DEF DestinationVerified
  <1> QED BY <1>3, <1>5, <1>6, <1>7, <1>8, <1>b DEF ContentInv

LEMMA ListedSame ==
  ASSUME \A v \in Workers : job'[v].fd = job[v].fd /\ job'[v].own = job[v].own,
         assembled' = assembled, dest' = dest
  PROVE  Listed' = Listed
  BY DEF Listed

\* One handler moves on, and gives at most something up.
LEMMA MoveStep ==
  ASSUME TypeOK, ContentInv, NEW w \in Workers, \A v \in Workers \ {w} : Steady(v),
         \/ /\ job'[w].fd = job[w].fd /\ job'[w].own = job[w].own
            /\ assembled' = assembled /\ file' = file
         \/ /\ job'[w].fd \in {job[w].fd, None} /\ job'[w].own \in {job[w].own, None}
            /\ assembled' \in {assembled, None} /\ Store(file),
         dest' = dest, shared' = shared, expect' = expect, promised' = promised,
         Placed(w)', Active(w)' => Active(w), ~shared => Assembling(w)' /\ Ready(w)'
  PROVE  ContentInv'
  <1>1. Quiet
    <2>1. \A v \in Workers \ {w} : job'[v].fd = job[v].fd /\ job'[v].own = job[v].own
      BY DEF Steady
    <2>2. CASE job'[w].fd = job[w].fd /\ job'[w].own = job[w].own
               /\ assembled' = assembled /\ file' = file
      <3>1. Listed' = Listed
        BY <2>1, <2>2, ListedSame
      <3> QED BY <2>1, <2>2, <3>1 DEF Quiet
    <2>3. CASE job'[w].fd \in {job[w].fd, None} /\ job'[w].own \in {job[w].own, None}
               /\ assembled' \in {assembled, None} /\ Store(file)
      BY <2>1, <2>3 DEF Quiet
    <2> QED BY <2>2, <2>3
  <1> QED BY <1>1, QuietStep

\* The steps at which a handler has nothing to install.
Passive == {"idle", "init", "meta", "chunk", "truncate", "write", "complete", "list", "create",
            "prepare", "unlink", "cleanup", "unreserve"}

LEMMA PassiveNow ==
  ASSUME NEW w \in Workers, pc'[w] \in Passive
  PROVE  ~Active(w)' /\ Assembling(w)' /\ Ready(w)'
  BY DEF Passive, Active, BeforeCommit, Assembling, Ready

LEMMA ContentRequest ==
  ASSUME TypeOK, ContentInv, NEW w \in Workers, Request(w)
  PROVE  ContentInv'
  <1>0. Placed(w)
    BY DEF ContentInv
  <1>1. ASSUME NEW step \in {"init", "chunk", "complete", "prepare"}, NEW j \in Job,
               Begin(w, step, j), j.fd = None, j.own = None,
               step = "complete" => j.got = <<>>,
               step = "prepare" => j.got = Single /\ ~j.sha /\ j.count = 0
        PROVE  ContentInv'
    <2>1. /\ pc[w] = "idle" /\ pc'[w] = step /\ job'[w] = j
          /\ \A v \in Workers \ {w} : Steady(v)
      BY <1>1 DEF Begin, Go, TypeOK, Steady
    <2>2. job'[w].fd = job[w].fd /\ job'[w].own = job[w].own
      BY <1>0, <1>1, <2>1 DEF Placed
    <2>3. Placed(w)'
      BY <1>1, <2>1 DEF Placed, Chunked
    <2>4. pc'[w] \in Passive
      BY <2>1 DEF Passive
    <2> QED BY <1>1, <2>1, <2>2, <2>3, <2>4, PassiveNow, MoveStep DEF Begin
  <1>2. CASE UploadInit(w)
    <2>1. PICK o \in BOOLEAN, n \in Sizes :
            Begin(w, "init", [Blank EXCEPT !.overwrite = o, !.size = n])
      BY <1>2 DEF UploadInit
    <2> DEFINE j == [Blank EXCEPT !.overwrite = o, !.size = n]
    <2>2. j \in Job /\ j.fd = None /\ j.own = None
      BY BlankTyped, CountsAreNumbers DEF Job, Blank
    <2> HIDE DEF j
    <2> QED BY <1>1, <2>1, <2>2 DEF j
  <1>3. CASE UploadChunk(w)
    <2>1. PICK i \in Index : \E d \in Sent[i] :
            Begin(w, "chunk", [Blank EXCEPT !.index = i, !.got = <<d>>])
      BY <1>3 DEF UploadChunk
    <2>2. PICK d \in Sent[i] :
            Begin(w, "chunk", [Blank EXCEPT !.index = i, !.got = <<d>>])
      BY <2>1
    <2> DEFINE j == [Blank EXCEPT !.index = i, !.got = <<d>>]
    <2>3. i \in Nat /\ <<d>> \in Content
      BY SentTyped, CountsAreNumbers DEF Index
    <2>4. j \in Job /\ j.fd = None /\ j.own = None
      BY BlankTyped, <2>3 DEF Job, Blank
    <2> HIDE DEF j
    <2> QED BY <1>1, <2>2, <2>4 DEF j
  <1>4. CASE UploadComplete(w)
    <2>1. PICK h \in BOOLEAN : Begin(w, "complete", [Blank EXCEPT !.sha = h])
      BY <1>4 DEF UploadComplete
    <2> DEFINE j == [Blank EXCEPT !.sha = h]
    <2>2. j \in Job /\ j.fd = None /\ j.own = None /\ j.got = <<>>
      BY BlankTyped DEF Job, Blank
    <2> HIDE DEF j
    <2> QED BY <1>1, <2>1, <2>2 DEF j
  <1>5. CASE UploadFile(w)
    <2>1. PICK o \in BOOLEAN :
            Begin(w, "prepare", [Blank EXCEPT !.overwrite = o, !.got = Single])
      BY <1>5 DEF UploadFile
    <2> DEFINE j == [Blank EXCEPT !.overwrite = o, !.got = Single]
    <2>2. j \in Job /\ j.fd = None /\ j.own = None /\ j.got = Single /\ ~j.sha /\ j.count = 0
      BY BlankTyped, SingleTyped DEF Job, Blank
    <2> HIDE DEF j
    <2> QED BY <1>1, <2>1, <2>2 DEF j
  <1> QED BY <1>2, <1>3, <1>4, <1>5 DEF Request

LEMMA ContentSession ==
  ASSUME TypeOK, ContentInv, NEW w \in Workers, InSession(w)
  PROVE  ContentInv'
  <1>0. Placed(w) /\ job[w] \in Job
    BY DEF ContentInv, TypeOK
  <1>1. CASE End(w) /\ SessionStep /\ assembled' = assembled /\ shared' = shared /\ Store(file)
    BY <1>1, EndStep DEF SessionStep
  <1>2. CASE Refused(w) \/ WriteMeta(w) \/ Unknown(w) \/ WritePart(w) \/ AssemblyFails(w)
    BY <1>1, <1>2 DEF Refused, WriteMeta, Unknown, WritePart, AssemblyFails
  <1>3. ASSUME NEW step \in Passive, NEW j \in Job, Go(w, step), job' = [job EXCEPT ![w] = j],
               j.fd = job[w].fd, j.own = job[w].own, j.got = job[w].got, j.sha = job[w].sha,
               SessionStep, assembled' = assembled, shared' = shared, file' = file \/ Store(file),
               pc[w] \in Passive \ {"unreserve"}, step # "prepare", step = "create" => j.count > 0,
               step \in {"complete", "list", "create"} => pc[w] \in {"complete", "list", "create"}
        PROVE  ContentInv'
    <2>1. pc'[w] = step /\ job'[w] = j /\ \A v \in Workers \ {w} : Steady(v)
      BY <1>3 DEF Go, TypeOK, Steady
    <2>2. job[w].fd = None /\ job[w].own = None
      BY <1>0, <1>3 DEF Placed, Passive
    <2>3. Placed(w)'
      BY <1>0, <1>3, <2>1, <2>2 DEF Placed, Passive, Chunked
    <2> QED BY <1>3, <2>1, <2>3, PassiveNow, MoveStep DEF SessionStep
  <1>4. CASE Checked(w) \/ Known(w)
    <2>1. job' = [job EXCEPT ![w] = job[w]]
      BY <1>4 DEF Checked, Known, TypeOK
    <2> QED BY <1>0, <1>3, <1>4, <2>1 DEF Checked, Known, Passive
  <1>5. CASE TruncatePart(w)
    <2> DEFINE j == [job[w] EXCEPT !.live = TRUE]
    <2>1. /\ j \in Job /\ j.fd = job[w].fd /\ j.own = job[w].own /\ j.got = job[w].got
          /\ j.sha = job[w].sha
      BY <1>0 DEF Job
    <2>2. job' = [job EXCEPT ![w] = j]
      BY <1>5 DEF TruncatePart
    <2> HIDE DEF j
    <2> QED BY <1>3, <1>5, <2>1, <2>2 DEF TruncatePart, Passive
  <1>6. CASE ReadMeta(w)
    <2> DEFINE j == [job[w] EXCEPT !.overwrite = meta.overwrite, !.size = meta.size]
    <2>1. /\ j \in Job /\ j.fd = job[w].fd /\ j.own = job[w].own /\ j.got = job[w].got
          /\ j.sha = job[w].sha
      BY <1>0 DEF Job, TypeOK
    <2>2. job' = [job EXCEPT ![w] = j]
      BY <1>6 DEF ReadMeta, TypeOK, Job
    <2> HIDE DEF j
    <2> QED BY <1>3, <1>6, <2>1, <2>2 DEF ReadMeta, Passive
  <1>7. CASE ListParts(w)
    <2>1. CASE End(w)
      BY <1>1, <1>7, <2>1 DEF ListParts, session
    <2>2. ASSUME NEW n \in Index, job' = [job EXCEPT ![w].count = n], Go(w, "create")
          PROVE  ContentInv'
      <3> DEFINE j == [job[w] EXCEPT !.count = n]
      <3>1. /\ j \in Job /\ j.fd = job[w].fd /\ j.own = job[w].own /\ j.got = job[w].got
            /\ j.sha = job[w].sha /\ j.count > 0
        BY <1>0, CountsAreNumbers DEF Job, Index
      <3>2. job' = [job EXCEPT ![w] = j]
        BY <2>2
      <3> HIDE DEF j
      <3> QED BY <1>3, <1>7, <2>2, <3>1, <3>2 DEF ListParts, Passive
    <2> QED BY <1>7, <2>1, <2>2 DEF ListParts
  <1>8. CASE CreateAssembled(w)
    <2>1. CASE End(w) /\ UNCHANGED <<assembled, dest, shared>> /\ Store(file)
      BY <1>1, <1>8, <2>1 DEF CreateAssembled
    <2>2. ASSUME NEW i \in Inodes, IF assembled = None THEN Fresh(i) ELSE i = assembled,
                 assembled' = i, job' = [job EXCEPT ![w].fd = i],
                 Store([file EXCEPT ![i] = <<>>]), shared' = (shared \/ Overlaps(w)),
                 Go(w, "assemble")
          PROVE  ContentInv'
      BY <1>8, <2>2, CreateStep DEF CreateAssembled, SessionStep
    <2> QED BY <1>8, <2>1, <2>2 DEF CreateAssembled
  <1>9. CASE AppendPart(w)
    BY <1>9, AppendStep
  <1>10. CASE Validate(w)
    <2>1. CASE End(w)
      BY <1>1, <1>10, <2>1 DEF Validate
    <2>2. CASE Accepted(w) /\ job' = [job EXCEPT ![w].fd = None] /\ Go(w, "final")
      <3>0. /\ pc[w] = "check" /\ assembled' = assembled /\ shared' = shared /\ dest' = dest
            /\ expect' = expect /\ promised' = promised /\ Store(file)
        BY <1>10 DEF Validate, SessionStep
      <3>1. /\ pc'[w] = "final" /\ \A v \in Workers \ {w} : Steady(v)
            /\ job'[w].fd = None /\ job'[w].own = job[w].own /\ job'[w].got = job[w].got
            /\ job'[w].count = job[w].count /\ job'[w].sha = job[w].sha
        <4>1. pc'[w] = "final" /\ job'[w] = [job[w] EXCEPT !.fd = None]
              /\ \A v \in Workers \ {w} : Steady(v)
          BY <2>2 DEF Go, TypeOK, Steady
        <4> QED BY <1>0, <4>1 DEF Job
      <3>2. job[w].sha => job[w].got = Intended
        BY <2>2 DEF Accepted
      <3>3. Placed(w)' /\ Active(w)
        BY <1>0, <3>0, <3>1, <3>2 DEF Placed, Active, BeforeCommit, Chunked
      <3>4. Assembling(w)'
        BY <3>1 DEF Assembling
      <3>5. ~shared => Ready(w)'
        <4> SUFFICES ASSUME ~shared, assembled # None PROVE file'[assembled] = job[w].got
          BY <1>0, <3>0, <3>1 DEF Ready, Source, Placed
        <4>1. file[assembled] = job[w].got
          BY <3>0 DEF ContentInv, Assembling
        <4>2. file'[assembled] = file[assembled]
          BY <3>0, StoreKeeps, ListedNow, NamesTyped DEF TypeOK
        <4> QED BY <4>1, <4>2
      <3> QED BY <3>0, <3>1, <3>3, <3>4, <3>5, MoveStep
    <2> QED BY <1>10, <2>1, <2>2 DEF Validate
  <1>11. CASE Finalize(w)
    <2>1. CASE End(w)
      BY <1>1, <1>11, <2>1 DEF Finalize
    <2>2. CASE Go(w, "install") /\ job' = job
      <3>0. /\ pc[w] = "final" /\ assembled' = assembled /\ shared' = shared /\ dest' = dest
            /\ expect' = expect /\ promised' = promised /\ Store(file)
        BY <1>11 DEF Finalize, SessionStep
      <3>1. pc'[w] = "install" /\ \A v \in Workers \ {w} : Steady(v)
        BY <2>2 DEF Go, TypeOK, Steady
      <3>2. Placed(w)' /\ Active(w) /\ Assembling(w)'
        BY <1>0, <2>2, <3>0, <3>1 DEF Placed, Active, BeforeCommit, Chunked, Assembling
      <3>3. ~shared => Ready(w)'
        <4> SUFFICES ASSUME ~shared, Source(w) # None PROVE file'[Source(w)] = job[w].got
          BY <2>2, <3>0 DEF Ready, Source
        <4>1. file[Source(w)] = job[w].got
          BY <3>0 DEF ContentInv, Ready
        <4>2. Source(w) = Source(w)'
          BY <2>2, <3>0 DEF Source
        <4>3. file'[Source(w)] = file[Source(w)]
          BY <3>0, <4>2, StoreKeeps, ListedNow, NamesTyped DEF TypeOK
        <4> QED BY <4>1, <4>3
      <3> QED BY <2>2, <3>0, <3>1, <3>2, <3>3, MoveStep
    <2> QED BY <1>11, <2>1, <2>2 DEF Finalize
  <1>12. CASE Stage(w)
    <2>1. CASE End(w) /\ Store(file)
      BY <1>1, <1>12, <2>1 DEF Stage
    <2>2. ASSUME NEW i \in Inodes, Fresh(i), job' = [job EXCEPT ![w].own = i],
                 Store([file EXCEPT ![i] = Single]), Go(w, "install")
          PROVE  ContentInv'
      <3>1. /\ pc[w] = "prepare" /\ pc'[w] = "install" /\ \A v \in Workers \ {w} : Steady(v)
            /\ job'[w].fd = job[w].fd /\ job'[w].own = i /\ job'[w].got = job[w].got
            /\ job'[w].count = job[w].count /\ job'[w].sha = job[w].sha
        <4>1. pc'[w] = "install" /\ job'[w] = [job[w] EXCEPT !.own = i]
              /\ \A v \in Workers \ {w} : Steady(v)
          BY <2>2 DEF Go, TypeOK, Steady
        <4> QED BY <1>0, <1>12, <4>1 DEF Job, Stage
      <3>2. job'[w].fd = None /\ Placed(w)' /\ ~Active(w)' /\ job'[w].got = Single
        BY <1>0, <2>2, <3>1, FreshApart DEF Placed, Active, Chunked
      <3> QED BY <1>12, <2>2, <3>1, <3>2, SingleTyped, OwnStep DEF Stage, SessionStep
    <2> QED BY <1>12, <2>1, <2>2 DEF Stage
  <1> QED
    BY <1>2, <1>4, <1>5, <1>6, <1>7, <1>8, <1>9, <1>10, <1>11, <1>12 DEF InSession

LEMMA ContentInstall ==
  ASSUME TypeOK, ContentInv, NEW w \in Workers, Install(w)
  PROVE  ContentInv'
  <1> USE DEF InstallStep
  <1>0. Placed(w) /\ job[w] \in Job
    BY DEF ContentInv, TypeOK
  <1>a. AfterCommit(w) \in {"idle", "unlink", "cleanup"} /\ Moved(w) \in {assembled, None}
    BY DEF AfterCommit, Moved
  <1>b. ASSUME NEW step \in {"unlink", "cleanup", "unreserve"}, Go(w, step), NEW j,
               job'[w] = j, \A v \in Workers \ {w} : job'[v] = job[v],
               j.fd = None, j.own \in {job[w].own, None}, step # "unreserve" => j.own = None,
               dest' = dest, assembled' \in {assembled, None}, shared' = shared,
               expect' = expect, promised' = promised, Store(file)
        PROVE  ContentInv'
    <2>1. pc'[w] = step /\ \A v \in Workers \ {w} : Steady(v)
      BY <1>b DEF Go, TypeOK, Steady
    <2>2. Placed(w)' /\ pc'[w] \in Passive
      BY <1>b, <2>1 DEF Placed, Passive
    <2> QED BY <1>b, <2>1, <2>2, PassiveNow, MoveStep
  <1>1. CASE Copy(w)
    <2>1. CASE End(w) /\ Store(file)
      BY <1>1, <2>1, EndStep DEF Copy
    <2>2. ASSUME NEW i \in Inodes, Fresh(i), UNCHANGED pc,
                 job' = [job EXCEPT ![w].own = i, ![w].copied = TRUE],
                 Store([file EXCEPT ![i] = file[Source(w)]])
          PROVE  ContentInv'
      <3>0. /\ pc[w] = "install" /\ Source(w) # None /\ dest' = dest /\ assembled' = assembled
            /\ shared' = shared /\ expect' = expect /\ promised' = promised
        BY <1>1 DEF Copy
      <3>1. /\ \A v \in Workers \ {w} : Steady(v)
            /\ job'[w].fd = job[w].fd /\ job'[w].own = i /\ job'[w].got = job[w].got
            /\ job'[w].count = job[w].count /\ job'[w].sha = job[w].sha
        <4>1. job'[w] = [job[w] EXCEPT !.own = i, !.copied = TRUE]
              /\ \A v \in Workers \ {w} : Steady(v)
          BY <2>2 DEF TypeOK, Steady
        <4> QED BY <1>0, <4>1 DEF Job
      <3>2. job'[w].fd = None /\ Placed(w)' /\ (Active(w)' => Active(w))
        BY <1>0, <2>2, <3>0, <3>1, FreshApart DEF Placed, Active, Chunked
      <3>3. file[Source(w)] \in Content
        BY <3>0, NamesTyped DEF TypeOK
      <3>4. ~shared => job'[w].got = file[Source(w)]
        BY <3>0, <3>1 DEF ContentInv, Ready
      <3> QED BY <2>2, <3>0, <3>1, <3>2, <3>3, <3>4, OwnStep
    <2> QED BY <1>1, <2>1, <2>2 DEF Copy
  <1>2. CASE Replace(w)
    BY <1>a, <1>2, CommitStep DEF Replace
  <1>3. CASE InstallFails(w)
    BY <1>3, EndStep DEF InstallFails
  <1>4. CASE Link(w)
    BY <1>4, CommitStep DEF Link
  <1>5. CASE Reserve(w)
    BY <1>5, ReserveStep
  <1>6. CASE RenameOver(w)
    BY <1>a, <1>6, CommitStep DEF RenameOver
  <1>7. CASE RenameFails(w)
    <2>1. CASE End(w)
      BY <1>7, <2>1, EndStep DEF RenameFails
    <2>2. CASE Go(w, "unreserve") /\ UNCHANGED job
      BY <1>0, <1>7, <1>b, <2>2 DEF RenameFails, Placed
    <2> QED BY <1>7, <2>1, <2>2 DEF RenameFails
  <1>8. CASE Unreserve(w)
    BY <1>8, EndStep DEF Unreserve
  <1>9. CASE RemoveSource(w)
    <2>0. /\ pc[w] = "linked" /\ dest' = dest /\ assembled' \in {assembled, None}
          /\ shared' = shared /\ expect' = expect /\ promised' = promised /\ Store(file)
      BY <1>9 DEF RemoveSource
    <2>1. CASE AfterCommit(w) = "idle"
      BY <1>9, <2>0, <2>1, EndStep DEF RemoveSource
    <2>2. CASE AfterCommit(w) # "idle"
      <3>1. Go(w, AfterCommit(w)) /\ job' = [job EXCEPT ![w].own = None]
        BY <1>9, <2>2 DEF RemoveSource
      <3>2. job'[w] = [job[w] EXCEPT !.own = None] /\ \A v \in Workers \ {w} : job'[v] = job[v]
        BY <3>1 DEF TypeOK
      <3>3. job'[w].fd = None /\ job'[w].own = None
        BY <1>0, <2>0, <3>2 DEF Job, Placed
      <3>4. AfterCommit(w) \in {"unlink", "cleanup"}
        BY <1>a, <2>2
      <3> QED BY <1>b, <2>0, <3>1, <3>2, <3>3, <3>4
    <2> QED BY <2>1, <2>2
  <1>10. CASE Unlink(w)
    <2>0. /\ pc[w] = "unlink" /\ dest' = dest /\ assembled' \in {assembled, None}
          /\ shared' = shared /\ expect' = expect /\ promised' = promised /\ Store(file)
      BY <1>10 DEF Unlink
    <2>1. CASE End(w)
      BY <2>0, <2>1, EndStep
    <2>2. CASE Go(w, "cleanup") /\ UNCHANGED job
      BY <1>0, <1>b, <2>0, <2>2 DEF Placed
    <2> QED BY <1>10, <2>1, <2>2 DEF Unlink
  <1>11. CASE Cleanup(w)
    <2>0. /\ pc[w] = "cleanup" /\ dest' = dest /\ assembled' \in {assembled, None}
          /\ shared' = shared /\ expect' = expect /\ promised' = promised /\ Store(file)
          /\ pc' = [pc EXCEPT ![w] = "idle"]
      BY <1>11 DEF Cleanup
    <2>1. job'[w] = Blank /\ Blank.fd = None /\ Blank.own = None
      BY <1>11 DEF Cleanup, Blank
    <2>2. ASSUME NEW v \in Workers \ {w} PROVE Steady(v)
      <3>1. job'[v] = [job[v] EXCEPT !.live = job[v].live /\ job[v].index \in DOMAIN parts']
            /\ job[v] \in Job /\ pc'[v] = pc[v]
        BY <1>11, <2>0 DEF Cleanup, TypeOK
      <3> QED BY <3>1 DEF Job, Steady
    <2>3. Placed(w)' /\ pc'[w] \in Passive
      BY <2>0, <2>1 DEF TypeOK, Placed, Passive
    <2> QED BY <2>0, <2>1, <2>2, <2>3, PassiveNow, MoveStep
  <1> QED
    BY <1>1, <1>2, <1>3, <1>4, <1>5, <1>6, <1>7, <1>8, <1>9, <1>10, <1>11 DEF Install

LEMMA ContentNext == TypeOK /\ ContentInv /\ [Next]_vars => ContentInv'
  <1> SUFFICES ASSUME TypeOK, ContentInv, [Next]_vars PROVE ContentInv'
    OBVIOUS
  <1>1. CASE Crash
    <2>0. /\ dest' = dest /\ assembled' = assembled /\ shared' = shared
          /\ expect' = expect /\ promised' = promised /\ Store(file)
      BY <1>1 DEF Crash
    <2>1. \A w \in Workers : /\ pc'[w] = "idle" /\ job'[w].fd = None /\ job'[w].own = None
      BY <1>1 DEF Crash, Blank
    <2>2. \A w \in Workers : Placed(w)' /\ pc'[w] \in Passive
      BY <2>1 DEF Placed, Passive
    <2>3. Quiet
      BY <2>0, <2>1 DEF Quiet
    <2> QED BY <2>2, <2>3, PassiveNow, QuietStep
  <1>2. CASE UNCHANGED vars
    BY <1>2
    DEF vars, ContentInv, Placed, Private, Assembling, Ready, Active, OneUser, Emptied, Listed,
        Source, Chunked, DestinationVerified
  <1> QED
    BY <1>1, <1>2, ContentRequest, ContentSession, ContentInstall DEF Next

\* Whatever handlers interleave, fail half-way or die with the agent: as long
\* as assembled.bin had one user at a time, the destination holds the content
\* that the handler which put it there had accepted, and never anything that
\* was written afterwards or only in part.
THEOREM DestinationVerifiedHolds == Spec => []DestinationVerified
  <1>1. ContentInv => DestinationVerified
    BY DEF ContentInv
  <1> QED
    BY <1>1, ContentInit, ContentNext, TypeInit, TypeNext, PTL DEF Spec
=============================================================================
