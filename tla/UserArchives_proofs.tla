------------------------- MODULE UserArchives_proofs -------------------------
(***************************************************************************)
(* For any number of overlapping runs, any styles and any retentions, the  *)
(* archives that were written are kept, and so are those that were sent,   *)
(* until enough newer ones of their style were; and none of them is half   *)
(* an archive.                                                             *)
(*                                                                         *)
(* What a prune has listed stays superseded while it deletes, because the  *)
(* histories only grow: this is why no lock is needed between the listing  *)
(* and the deletions.                                                      *)
(***************************************************************************)
EXTENDS UserArchives, FiniteSetTheorems, TLAPS

\* What is there was written, or sent; the histories are finite.
Recorded ==
  /\ In(dir) \subseteq written /\ IsFiniteSet(written)
  /\ In(bucket) \subseteq sent /\ IsFiniteSet(sent)

\* Only a finished file is renamed, and what is sent is a finished archive.
Finished ==
  \A r \in Runs :
    /\ step[r] = "rename" => partial[r] = "whole"
    /\ body[r] # None => body[r].whole
    /\ step[r] = "s3_put" => body[r] # None

\* A prune deletes only what is superseded.
Doomed ==
  \A r \in Runs :
    /\ step[r] \in {"list_bucket", "prune_bucket", "list_dir", "prune_dir"} => r \in Scheduled
    /\ step[r] = "prune_dir" => \A n \in todo[r] : Superseded(n, written)
    /\ step[r] = "prune_bucket" => \A n \in todo[r] : Superseded(n, sent)

IInv == TypeOK /\ Recorded /\ Finished /\ Doomed /\ ListedAreWhole /\ DirKeeps /\ BucketKeeps

-----------------------------------------------------------------------------
(* Retention. *)

\* More archives never save one from a retention.
LEMMA SupersededGrows ==
  ASSUME NEW S, NEW T, S \subseteq T, IsFiniteSet(T), NEW n, Superseded(n, S)
  PROVE  Superseded(n, T)
  <1>1. PICK r \in Scheduled : /\ Style[r] = n.style /\ Style[r] \notin Repeating
                               /\ Cardinality(Newer(n, S)) >= Keep[r]
    BY DEF Superseded
  <1>2. Newer(n, S) \subseteq Newer(n, T) /\ Newer(n, T) \subseteq T
    BY DEF Newer
  <1>3. IsFiniteSet(Newer(n, T)) /\ IsFiniteSet(Newer(n, S))
    BY <1>2, FS_Subset
  <1>4. /\ Cardinality(Newer(n, S)) \in Nat /\ Cardinality(Newer(n, T)) \in Nat
        /\ Cardinality(Newer(n, S)) <= Cardinality(Newer(n, T))
    BY <1>2, <1>3, FS_CardinalityType, FS_Subset
  <1>5. Keep[r] \in Nat
    BY ConstantsAssumption
  <1>6. QED
    BY <1>1, <1>4, <1>5 DEF Superseded

\* What is past a schedule's retention is superseded.
LEMMA PastIsSuperseded ==
  ASSUME NEW S, NEW r \in Scheduled, NEW n \in Past(S, Style[r], Keep[r])
  PROVE  n \in S /\ Superseded(n, S)
  BY DEF Past, Superseded

-----------------------------------------------------------------------------
(* Types. *)

LEMMA NameAtType ==
  ASSUME TypeOK, NEW r \in Runs
  PROVE  NameAt(Style[r], now) \in Names
  <1>1. now \in Nat /\ now <= MaxTime /\ Style[r] \in Styles
    BY ConstantsAssumption DEF TypeOK
  <1>2. now \div Day \in Nat /\ now \div Day <= now
    BY <1>1, ConstantsAssumption
  <1>3. (now \div Day) % Week \in Nat /\ (now \div Day) % Week <= now \div Day
    BY <1>2, ConstantsAssumption
  <1>4. NameAt(Style[r], now).at \in 0..MaxTime
    BY <1>1, <1>2, <1>3, ConstantsAssumption DEF NameAt, Styles
  <1>5. QED
    BY <1>1, <1>4 DEF NameAt, Names

LEMMA TypeStep == TypeOK /\ [Next]_vars => TypeOK'
  <1> SUFFICES ASSUME TypeOK, [Next]_vars PROVE TypeOK'
    OBVIOUS
  <1> USE DEF Goto, places, history
  <1>1. CASE Tick
    BY <1>1, ConstantsAssumption DEF Tick, TypeOK
  <1>2. ASSUME NEW r \in Runs, Build(r) PROVE TypeOK'
    <2>1. CASE Begin(r)
      BY <2>1, NameAtType DEF Begin, TypeOK, Steps
    <2>2. CASE Collect(r) \/ Write(r) \/ BuildFails(r)
      BY <2>2 DEF Collect, Write, BuildFails, TypeOK, Steps
    <2>3. CASE Rename(r)
      <3>1. name[r] \in Names /\ [of |-> r, whole |-> partial[r] = "whole"] \in Archive
        BY DEF TypeOK, Archive
      <3>2. AfterSftp(r) \in {"over"} \cup Steps
        BY DEF AfterSftp, Steps
      <3>3. QED
        BY <2>3, <3>1, <3>2 DEF Rename, TypeOK, Steps
    <2>4. QED
      BY <1>2, <2>1, <2>2, <2>3 DEF Build
  <1>3. ASSUME NEW r \in Runs, Send(r) PROVE TypeOK'
    <2>1. AfterSftp(r) \in {"over"} \cup Steps
      BY DEF AfterSftp, Steps
    <2>2. CASE SendBySftp(r)
      BY <2>1, <2>2 DEF SendBySftp, TypeOK
    <2>3. CASE OpenForS3(r)
      BY <2>3 DEF OpenForS3, TypeOK, Steps
    <2>4. CASE PutToS3(r) \/ SendFails(r)
      BY <2>4 DEF PutToS3, SendFails, TypeOK, Steps
    <2>5. QED
      BY <1>3, <2>2, <2>3, <2>4 DEF Send
  <1>4. ASSUME NEW r \in Runs, Prune(r) PROVE TypeOK'
    <2>1. Past(In(bucket), Style[r], Keep[r]) \subseteq Names
          /\ Past(In(dir), Style[r], Keep[r]) \subseteq Names
      BY DEF Past, In
    <2>2. CASE List(r, "list_bucket", bucket, "prune_bucket") \/ List(r, "list_dir", dir, "prune_dir")
      BY <2>1, <2>2 DEF List, TypeOK, Steps
    <2>3. CASE DeleteKey(r) \/ DeleteFile(r)
      BY <2>3 DEF DeleteKey, DeleteFile, Newest, TypeOK
    <2>4. CASE EndBucket(r) \/ EndDir(r)
      BY <2>4 DEF EndBucket, EndDir, TypeOK, Steps
    <2>5. QED
      BY <1>4, <2>2, <2>3, <2>4 DEF Prune
  <1>5. ASSUME NEW r \in Runs, Die(r) PROVE TypeOK'
    BY <1>5 DEF Die, TypeOK
  <1>6. ASSUME NEW n \in Names, Remove(n) PROVE TypeOK'
    BY <1>6 DEF Remove, TypeOK
  <1>7. CASE UNCHANGED vars
    BY <1>7 DEF vars, TypeOK
  <1>8. QED
    BY <1>1, <1>2, <1>3, <1>4, <1>5, <1>6, <1>7 DEF Next

-----------------------------------------------------------------------------
(* What each action changes of what the invariant speaks about. *)

LEMMA FinishedStep ==
  ASSUME TypeOK, Finished, ListedAreWhole, [Next]_vars
  PROVE  Finished' /\ ListedAreWhole'
  <1> DEFINE Goal == Finished' /\ ListedAreWhole'
  <1> USE DEF Goto, places, history
  <1>1. CASE Tick
    BY <1>1 DEF Tick, Finished, ListedAreWhole
  <1>2. ASSUME NEW r \in Runs, Build(r) PROVE Goal
    <2>1. CASE Begin(r) \/ Collect(r) \/ Write(r) \/ BuildFails(r)
      BY <2>1 DEF Begin, Collect, Write, BuildFails, Finished, ListedAreWhole, TypeOK
    <2>2. CASE Rename(r)
      <3>1. /\ \A n \in Names : dir'[n] = IF n = name[r] THEN [of |-> r, whole |-> TRUE] ELSE dir[n]
            /\ bucket' = bucket
        BY <2>2 DEF Rename, Finished, TypeOK
      <3>2. ListedAreWhole'
        BY <3>1 DEF ListedAreWhole
      <3>3. AfterSftp(r) # "rename" /\ AfterSftp(r) # "s3_put"
        BY DEF AfterSftp
      <3>4. Finished'
        BY <2>2, <3>3 DEF Rename, Finished, TypeOK
      <3>5. QED
        BY <3>2, <3>4
    <2>3. QED
      BY <1>2, <2>1, <2>2 DEF Build
  <1>3. ASSUME NEW r \in Runs, Send(r) PROVE Goal
    <2>0. AfterSftp(r) # "rename" /\ AfterSftp(r) # "s3_put"
      BY DEF AfterSftp
    <2>1. CASE OpenForS3(r)
      <3>1. dir[name[r]] # None /\ dir[name[r]].whole
        BY <2>1 DEF OpenForS3, ListedAreWhole, TypeOK
      <3>2. QED
        BY <2>1, <3>1 DEF OpenForS3, Finished, ListedAreWhole, TypeOK
    <2>2. CASE SendBySftp(r) \/ SendFails(r)
      BY <2>0, <2>2 DEF SendBySftp, SendFails, Finished, ListedAreWhole, TypeOK
    <2>3. CASE PutToS3(r)
      BY <2>3 DEF PutToS3, Finished, ListedAreWhole, TypeOK
    <2>4. QED
      BY <1>3, <2>1, <2>2, <2>3 DEF Send
  <1>4. ASSUME NEW r \in Runs, Prune(r) PROVE Goal
    BY <1>4 DEF Prune, List, DeleteKey, DeleteFile, EndBucket, EndDir, Newest, Finished,
                ListedAreWhole, TypeOK
  <1>5. ASSUME NEW r \in Runs, Die(r) PROVE Goal
    BY <1>5 DEF Die, Finished, ListedAreWhole, TypeOK
  <1>6. ASSUME NEW n \in Names, Remove(n) PROVE Goal
    BY <1>6 DEF Remove, Finished, ListedAreWhole, TypeOK
  <1>7. CASE UNCHANGED vars
    BY <1>7 DEF vars, Finished, ListedAreWhole
  <1>8. QED
    BY <1>1, <1>2, <1>3, <1>4, <1>5, <1>6, <1>7 DEF Next

\* The histories record what the places gain, and never lose a name.
LEMMA RecordedStep ==
  ASSUME TypeOK, Recorded, [Next]_vars
  PROVE  Recorded' /\ written \subseteq written' /\ sent \subseteq sent'
  <1> DEFINE Goal == Recorded' /\ written \subseteq written' /\ sent \subseteq sent'
  <1> USE DEF Goto, places, history
  <1>1. ASSUME NEW r \in Runs, Rename(r) PROVE Goal
    <2>1. In(dir)' \subseteq In(dir) \cup {name[r]} /\ In(bucket)' = In(bucket)
      BY <1>1 DEF Rename, In, TypeOK
    <2>2. IsFiniteSet(written \cup {name[r]})
      BY FS_AddElement DEF Recorded
    <2>3. QED
      BY <1>1, <2>1, <2>2 DEF Rename, Recorded
  <1>2. ASSUME NEW r \in Runs, PutToS3(r) PROVE Goal
    <2>1. In(bucket)' \subseteq In(bucket) \cup {name[r]} /\ In(dir)' = In(dir)
      BY <1>2 DEF PutToS3, In, TypeOK
    <2>2. IsFiniteSet(sent \cup {name[r]})
      BY FS_AddElement DEF Recorded
    <2>3. QED
      BY <1>2, <2>1, <2>2 DEF PutToS3, Recorded
  <1>3. CASE In(dir)' \subseteq In(dir) /\ In(bucket)' \subseteq In(bucket)
             /\ UNCHANGED <<written, sent>>
    BY <1>3 DEF Recorded
  <1>4. ASSUME NEW r \in Runs, DeleteKey(r) \/ DeleteFile(r)
        PROVE  Goal
    <2>1. In(dir)' \subseteq In(dir) /\ In(bucket)' \subseteq In(bucket)
      BY <1>4 DEF DeleteKey, DeleteFile, In, TypeOK
    <2>2. QED
      BY <1>3, <1>4, <2>1 DEF DeleteKey, DeleteFile
  <1>5. ASSUME NEW n \in Names, Remove(n) PROVE Goal
    <2>1. In(dir)' \subseteq In(dir) /\ In(bucket)' = In(bucket)
      BY <1>5 DEF Remove, In, TypeOK
    <2>2. QED
      BY <1>3, <1>5, <2>1 DEF Remove
  <1>6. ASSUME UNCHANGED <<dir, bucket, written, sent>> PROVE Goal
    BY <1>3, <1>6 DEF In
  <1>7. QED
    BY <1>1, <1>2, <1>4, <1>5, <1>6
       DEF Next, Tick, Build, Begin, Collect, Write, BuildFails, Send, SendBySftp, OpenForS3,
           SendFails, Prune, List, EndBucket, EndDir, Die, vars

\* What a run is to delete was past a retention when it listed the place, and
\* stays superseded.
LEMMA DoomedStep ==
  ASSUME TypeOK, Recorded, Doomed, [Next]_vars
  PROVE  Doomed'
  <1> USE DEF Goto, places, history
  <1>0. /\ \A n : Superseded(n, written) => Superseded(n, written')
        /\ \A n : Superseded(n, sent) => Superseded(n, sent')
    BY RecordedStep, SupersededGrows DEF Recorded
  <1>1. CASE Tick \/ UNCHANGED vars \/ \E n \in Names : Remove(n)
    <2>1. UNCHANGED <<step, todo, written, sent>>
      BY <1>1 DEF Tick, vars, Remove
    <2>2. QED
      BY <2>1 DEF Doomed, Superseded
  <1>2. ASSUME NEW r \in Runs, Build(r) \/ Send(r) PROVE Doomed'
    <2>1. /\ todo' = todo
          /\ \A q \in Runs : q # r => step'[q] = step[q]
          /\ step'[r] \in {"prune_dir", "prune_bucket"} => step'[r] = step[r]
          /\ step'[r] \in {"list_bucket", "list_dir"} => r \in Scheduled
      BY <1>2 DEF Build, Begin, Collect, Write, BuildFails, Rename, Send, SendBySftp, OpenForS3,
                  PutToS3, SendFails, AfterSftp, TypeOK
    <2>2. QED
      BY <1>0, <2>1 DEF Doomed
  <1>3. ASSUME NEW r \in Runs, Prune(r) PROVE Doomed'
    <2>1. CASE List(r, "list_bucket", bucket, "prune_bucket")
      <3>1. r \in Scheduled
        BY <2>1 DEF List, Doomed
      <3>2. \A n \in Past(In(bucket), Style[r], Keep[r]) : Superseded(n, sent)
        BY <3>1, PastIsSuperseded, SupersededGrows DEF Recorded
      <3>3. QED
        BY <1>0, <2>1, <3>1, <3>2 DEF List, Doomed, TypeOK
    <2>2. CASE List(r, "list_dir", dir, "prune_dir")
      <3>1. r \in Scheduled
        BY <2>2 DEF List, Doomed
      <3>2. \A n \in Past(In(dir), Style[r], Keep[r]) : Superseded(n, written)
        BY <3>1, PastIsSuperseded, SupersededGrows DEF Recorded
      <3>3. QED
        BY <1>0, <2>2, <3>1, <3>2 DEF List, Doomed, TypeOK
    <2>3. CASE DeleteKey(r) \/ DeleteFile(r)
      <3>1. /\ UNCHANGED <<step, written, sent>>
            /\ \A q \in Runs : todo'[q] \subseteq todo[q]
        BY <2>3 DEF DeleteKey, DeleteFile, TypeOK
      <3>2. QED
        BY <1>0, <3>1 DEF Doomed
    <2>4. CASE EndBucket(r) \/ EndDir(r)
      BY <1>0, <2>4 DEF EndBucket, EndDir, Doomed, TypeOK
    <2>5. QED
      BY <1>3, <2>1, <2>2, <2>3, <2>4 DEF Prune
  <1>4. ASSUME NEW r \in Runs, Die(r) PROVE Doomed'
    BY <1>0, <1>4 DEF Die, Doomed, TypeOK
  <1>5. QED
    BY <1>1, <1>2, <1>3, <1>4 DEF Next

LEMMA DirKeepsStep ==
  ASSUME TypeOK, Recorded, Doomed, DirKeeps, [Next]_vars
  PROVE  DirKeeps'
  <1> USE DEF Goto, places, history
  <1>0. \A n : Superseded(n, written) => Superseded(n, written')
    BY RecordedStep, SupersededGrows DEF Recorded
  <1>1. ASSUME NEW r \in Runs, Rename(r) PROVE DirKeeps'
    <2>1. \A n \in Names : dir'[n] = None => dir[n] = None /\ n # name[r]
      <3>1. [of |-> r, whole |-> partial[r] = "whole"] \in Archive
        BY DEF Archive
      <3>2. [of |-> r, whole |-> partial[r] = "whole"] # None
        BY <3>1, ConstantsAssumption
      <3>3. QED
        BY <1>1, <3>2 DEF Rename, TypeOK
    <2>2. QED
      BY <1>0, <1>1, <2>1 DEF Rename, DirKeeps, In, TypeOK
  <1>2. ASSUME NEW r \in Runs, DeleteFile(r) PROVE DirKeeps'
    <2>1. PICK n \in Newest(r) : dir' = [dir EXCEPT ![n] = None] \/ UNCHANGED dir
      BY <1>2 DEF DeleteFile
    <2>2. Superseded(n, written)
      BY <1>2, <2>1 DEF DeleteFile, Doomed, Newest
    <2>3. UNCHANGED <<written, removed>>
      BY <1>2 DEF DeleteFile
    <2>4. QED
      BY <2>1, <2>2, <2>3 DEF DirKeeps, In, TypeOK
  <1>3. ASSUME NEW n \in Names, Remove(n) PROVE DirKeeps'
    BY <1>3 DEF Remove, DirKeeps, In, TypeOK
  <1>4. ASSUME UNCHANGED <<dir, written, removed>> PROVE DirKeeps'
    BY <1>4 DEF DirKeeps, In
  <1>5. QED
    BY <1>1, <1>2, <1>3, <1>4
       DEF Next, Tick, Build, Begin, Collect, Write, BuildFails, Send, SendBySftp, OpenForS3,
           PutToS3, SendFails, Prune, List, DeleteKey, EndBucket, EndDir, Die, vars

LEMMA BucketKeepsStep ==
  ASSUME TypeOK, Recorded, Finished, Doomed, BucketKeeps, [Next]_vars
  PROVE  BucketKeeps'
  <1> USE DEF Goto, places, history
  <1>0. \A n : Superseded(n, sent) => Superseded(n, sent')
    BY RecordedStep, SupersededGrows DEF Recorded
  <1>1. ASSUME NEW r \in Runs, PutToS3(r) PROVE BucketKeeps'
    <2>1. body[r] # None
      BY <1>1 DEF PutToS3, Finished
    <2>2. \A n \in Names : bucket'[n] = None => bucket[n] = None /\ n # name[r]
      BY <1>1, <2>1 DEF PutToS3, TypeOK
    <2>3. QED
      BY <1>0, <1>1, <2>2 DEF PutToS3, BucketKeeps, In, TypeOK
  <1>2. ASSUME NEW r \in Runs, DeleteKey(r) PROVE BucketKeeps'
    <2>1. PICK n \in Newest(r) : bucket' = [bucket EXCEPT ![n] = None]
      BY <1>2 DEF DeleteKey
    <2>2. Superseded(n, sent)
      BY <1>2, <2>1 DEF DeleteKey, Doomed, Newest
    <2>3. sent' = sent
      BY <1>2 DEF DeleteKey
    <2>4. QED
      BY <2>1, <2>2, <2>3 DEF BucketKeeps, In, TypeOK
  <1>3. ASSUME UNCHANGED <<bucket, sent>> PROVE BucketKeeps'
    BY <1>3 DEF BucketKeeps, In
  <1>4. QED
    BY <1>1, <1>2, <1>3
       DEF Next, Tick, Build, Begin, Collect, Write, BuildFails, Rename, Send, SendBySftp, OpenForS3,
           SendFails, Prune, List, DeleteFile, EndBucket, EndDir, Remove, Die, vars

-----------------------------------------------------------------------------
LEMMA InitInv == Init => IInv
  <1> SUFFICES ASSUME Init PROVE IInv
    OBVIOUS
  <1>1. NoName \in Names
    BY ConstantsAssumption DEF NoName, Names, Styles
  <1>2. TypeOK
    BY <1>1, ConstantsAssumption DEF Init, TypeOK
  <1>3. In(dir) = {} /\ In(bucket) = {}
    BY DEF Init, In
  <1>4. Recorded
    BY <1>3, FS_EmptySet DEF Init, Recorded
  <1>5. Finished /\ Doomed /\ ListedAreWhole /\ DirKeeps /\ BucketKeeps
    BY DEF Init, Finished, Doomed, ListedAreWhole, DirKeeps, BucketKeeps
  <1>6. QED
    BY <1>2, <1>4, <1>5 DEF IInv

LEMMA StepInv == IInv /\ [Next]_vars => IInv'
  BY TypeStep, RecordedStep, FinishedStep, DoomedStep, DirKeepsStep, BucketKeepsStep DEF IInv

LEMMA Invariance == Spec => []IInv
  BY InitInv, StepInv, PTL DEF Spec

\* Every variable keeps its type.
THEOREM TypeCorrect == Spec => []TypeOK
  <1>1. IInv => TypeOK
    BY DEF IInv
  <1>2. QED
    BY Invariance, <1>1, PTL

\* No name in the directory or in the bucket is half an archive, wherever a run
\* fails or dies (`write_user_backup`).
THEOREM Whole == Spec => []ListedAreWhole
  <1>1. IInv => ListedAreWhole
    BY DEF IInv
  <1>2. QED
    BY Invariance, <1>1, PTL

\* The directory loses an archive to a prune only when a schedule of its style
\* has so many newer ones (`prune_user_backups`).
THEOREM DirKept == Spec => []DirKeeps
  <1>1. IInv => DirKeeps
    BY DEF IInv
  <1>2. QED
    BY Invariance, <1>1, PTL

\* And so does the bucket (`prune_archives`).
THEOREM BucketKept == Spec => []BucketKeeps
  <1>1. IInv => BucketKeeps
    BY DEF IInv
  <1>2. QED
    BY Invariance, <1>1, PTL
=============================================================================
