---------------------------- MODULE UserArchives ----------------------------
(***************************************************************************)
(* The backup archives of one account: what runs of schedules, and backups *)
(* made by hand, write, send away and prune (backups.rs and                *)
(* routes/maintenance.rs).  Runs overlap: the scheduler's process, the     *)
(* panel's jobs and schedules that are run by hand know nothing of each    *)
(* other, and meet in the account's directory and in the bucket.           *)
(***************************************************************************)
EXTENDS Naturals, FiniteSets

CONSTANTS
  Runs,       \* runs that build an archive of the account
  Scheduled,  \* those of a schedule: only they prune
  Style,      \* how each names its archive
  Keep,       \* the schedule's retention, at least 1 (`keep.max(1)`)
  ToSftp,     \* the runs that send their archive to an SFTP server
  ToS3,       \* the runs that send it to the bucket
  None,
  Day,        \* seconds in a day
  Week,       \* days in a week
  MaxTime     \* bound: seconds

Styles    == {"timestamp", "none", "weekday", "date"}
Repeating == {"none", "weekday"}

Archive == [of : Runs, whole : BOOLEAN]

ASSUME ConstantsAssumption ==
  /\ IsFiniteSet(Runs) /\ None \notin Archive /\ Scheduled \subseteq Runs
  /\ Style \in [Runs -> Styles] /\ Keep \in [Runs -> Nat \ {0}]
  /\ \A r \in Runs \ Scheduled : Style[r] = "timestamp"
  /\ ToSftp \subseteq Runs /\ ToS3 \subseteq Runs
  /\ Day \in Nat \ {0} /\ Week \in Nat \ {0} /\ MaxTime \in Nat

VARIABLES
  now,       \* the second
  step,      \* each run's next step
  name,      \* the name of its archive
  partial,   \* its file beside that name: "none", "half", "whole"
  dir,       \* the account's directory: what each name holds
  bucket,    \* the objects in the bucket, likewise
  body,      \* what a run is sending
  todo,      \* what it has still to delete
  written,   \* history: the names that were ever in the directory
  sent,      \* history: those that were ever in the bucket
  removed    \* history: those that somebody has deleted from the directory

places == <<dir, bucket>>
history == <<written, sent, removed>>
vars == <<now, step, name, partial, places, body, todo, history>>

Names   == [style : Styles, at : 0..MaxTime]
Steps   == {"collect", "write", "rename", "sftp", "s3", "s3_put",
            "list_bucket", "prune_bucket", "list_dir", "prune_dir"}

NoName == [style |-> "none", at |-> 0]

In(place) == {n \in Names : place[n] # None}

Init ==
  /\ now = 0
  /\ step = [r \in Runs |-> "new"]
  /\ name = [r \in Runs |-> NoName]
  /\ partial = [r \in Runs |-> "none"]
  /\ dir = [n \in Names |-> None]
  /\ bucket = [n \in Names |-> None]
  /\ body = [r \in Runs |-> None]
  /\ todo = [r \in Runs |-> {}]
  /\ written = {} /\ sent = {} /\ removed = {}

Tick ==
  /\ now < MaxTime
  /\ now' = now + 1
  /\ UNCHANGED <<step, name, partial, places, body, todo, history>>

Goto(r, s) == step' = [step EXCEPT ![r] = s]

-----------------------------------------------------------------------------
(* `build_user_backup`, `write_user_backup`. *)

\* `archive_name`, when the run starts.
NameAt(style, second) ==
  [style |-> style,
   at |-> CASE style = "timestamp" -> second
            [] style = "date"      -> second \div Day
            [] style = "weekday"   -> (second \div Day) % Week
            [] style = "none"      -> 0]

Begin(r) ==
  /\ step[r] = "new"
  /\ name' = [name EXCEPT ![r] = NameAt(Style[r], now)]
  /\ Goto(r, "collect")
  /\ UNCHANGED <<now, partial, places, body, todo, history>>

\* The sites, databases and applications are collected; the file is created.
Collect(r) ==
  /\ step[r] = "collect"
  /\ partial' = [partial EXCEPT ![r] = "half"]
  /\ Goto(r, "write")
  /\ UNCHANGED <<now, name, places, body, todo, history>>

\* `write_archive`.
Write(r) ==
  /\ step[r] = "write"
  /\ partial' = [partial EXCEPT ![r] = "whole"]
  /\ Goto(r, "rename")
  /\ UNCHANGED <<now, name, places, body, todo, history>>

\* Slip: a file that could not be finished is renamed all the same.
SlipBuildFails(r) ==
  /\ step[r] \in {"collect", "write"}
  /\ Goto(r, IF step[r] = "write" THEN "rename" ELSE "over")
  /\ UNCHANGED <<now, name, partial, places, body, todo, history>>

\* Nothing is left of a build that fails.
BuildFails(r) ==
  /\ step[r] \in {"collect", "write", "rename"}
  /\ partial' = [partial EXCEPT ![r] = "none"]
  /\ Goto(r, "over")
  /\ UNCHANGED <<now, name, places, body, todo, history>>

\* Where a run goes when it has sent what it had to.
AfterSftp(r) ==
  IF r \in ToS3 THEN "s3" ELSE IF r \in Scheduled THEN "list_dir" ELSE "over"

Rename(r) ==
  /\ step[r] = "rename"
  /\ dir' = [dir EXCEPT ![name[r]] = [of |-> r, whole |-> partial[r] = "whole"]]
  /\ partial' = [partial EXCEPT ![r] = "none"]
  /\ written' = written \cup {name[r]}
  /\ removed' = removed \ {name[r]}
  /\ Goto(r, IF r \in ToSftp THEN "sftp" ELSE AfterSftp(r))
  /\ UNCHANGED <<now, name, bucket, body, todo, sent>>

-----------------------------------------------------------------------------
(* Sending. *)

\* `sftp::upload` opens whatever is under the name by now.
SendBySftp(r) ==
  /\ step[r] = "sftp"
  /\ dir[name[r]] # None
  /\ Goto(r, AfterSftp(r))
  /\ UNCHANGED <<now, name, partial, places, body, todo, history>>

\* `s3::upload` does the same, and then sends what it has opened.
OpenForS3(r) ==
  /\ step[r] = "s3"
  /\ dir[name[r]] # None
  /\ body' = [body EXCEPT ![r] = dir[name[r]]]
  /\ Goto(r, "s3_put")
  /\ UNCHANGED <<now, name, partial, places, todo, history>>

\* An object appears as a whole, in one part or in several.  The run may fail
\* all the same: when the answer is lost, the retry of what completed a
\* multipart upload is refused.
PutToS3(r) ==
  /\ step[r] = "s3_put"
  /\ bucket' = [bucket EXCEPT ![name[r]] = body[r]]
  /\ sent' = sent \cup {name[r]}
  /\ body' = [body EXCEPT ![r] = None]
  /\ \E next \in {"over", IF r \in Scheduled THEN "list_bucket" ELSE "over"} : Goto(r, next)
  /\ UNCHANGED <<now, name, partial, dir, todo, written, removed>>

\* A run that cannot send its archive ends there: nothing is pruned.
SendFails(r) ==
  /\ step[r] \in {"sftp", "s3", "s3_put"}
  /\ body' = [body EXCEPT ![r] = None]
  /\ Goto(r, "over")
  /\ UNCHANGED <<now, name, partial, places, todo, history>>

-----------------------------------------------------------------------------
(* Pruning: first the bucket, then the directory. *)

\* `in_family`, and the order of the names.
Newer(n, names) == {m \in names : m.style = n.style /\ m.at > n.at}

\* Slip: every archive is counted, not only the style's own.
SlipPast(names, style, keep) ==
  IF style \in Repeating THEN {}
  ELSE {n \in names : Cardinality({m \in names : m.at > n.at}) >= keep}

\* Slip: the newest go.
SlipPastNewest(names, style, keep) ==
  IF style \in Repeating THEN {}
  ELSE {n \in names : n.style = style
                      /\ Cardinality({m \in names : m.style = style /\ m.at < n.at}) >= keep}

\* `past_retention`, and what `prune_user_backups` skips to.
Past(names, style, keep) ==
  IF style \in Repeating THEN {}
  ELSE {n \in names : n.style = style /\ Cardinality(Newer(n, names)) >= keep}

List(r, from, place, to) ==
  /\ step[r] = from
  /\ todo' = [todo EXCEPT ![r] = Past(In(place), Style[r], Keep[r])]
  /\ Goto(r, to)
  /\ UNCHANGED <<now, name, partial, places, body, history>>

\* The newest of what is to go, goes first.
Newest(r) == {n \in todo[r] : Newer(n, todo[r]) = {}}

DeleteKey(r) ==
  /\ step[r] = "prune_bucket"
  /\ \E n \in Newest(r) :
       /\ bucket' = [bucket EXCEPT ![n] = None]
       /\ todo' = [todo EXCEPT ![r] = @ \ {n}]
  /\ UNCHANGED <<now, step, name, partial, dir, body, history>>

\* All are deleted, or the listing or a deletion failed: the error is logged.
EndBucket(r) ==
  /\ step[r] \in {"list_bucket", "prune_bucket"}
  /\ todo' = [todo EXCEPT ![r] = {}]
  /\ Goto(r, "list_dir")
  /\ UNCHANGED <<now, name, partial, places, body, history>>

\* A file that is gone, or cannot be deleted, is passed over.
DeleteFile(r) ==
  /\ step[r] = "prune_dir"
  /\ \E n \in Newest(r) :
       /\ dir' = [dir EXCEPT ![n] = None] \/ UNCHANGED dir
       /\ todo' = [todo EXCEPT ![r] = @ \ {n}]
  /\ UNCHANGED <<now, step, name, partial, bucket, body, history>>

EndDir(r) ==
  /\ step[r] = "prune_dir" /\ todo[r] = {}
  /\ Goto(r, "over")
  /\ UNCHANGED <<now, name, partial, places, body, todo, history>>

-----------------------------------------------------------------------------
\* `delete_user_backup`, by whoever may.
Remove(n) ==
  /\ dir[n] # None
  /\ dir' = [dir EXCEPT ![n] = None]
  /\ removed' = removed \cup {n}
  /\ UNCHANGED <<now, step, name, partial, bucket, body, todo, written, sent>>

\* A run's process ends: what it was writing stays behind.
Die(r) ==
  /\ step[r] \in Steps
  /\ Goto(r, "over")
  /\ body' = [body EXCEPT ![r] = None]
  /\ todo' = [todo EXCEPT ![r] = {}]
  /\ UNCHANGED <<now, name, partial, places, history>>

Build(r) == Begin(r) \/ Collect(r) \/ Write(r) \/ BuildFails(r) \/ Rename(r)

Send(r) == SendBySftp(r) \/ OpenForS3(r) \/ PutToS3(r) \/ SendFails(r)

Prune(r) ==
  \/ List(r, "list_bucket", bucket, "prune_bucket") \/ DeleteKey(r) \/ EndBucket(r)
  \/ List(r, "list_dir", dir, "prune_dir") \/ DeleteFile(r) \/ EndDir(r)

Next ==
  \/ Tick
  \/ \E r \in Runs : Build(r) \/ Send(r) \/ Prune(r) \/ Die(r)
  \/ \E n \in Names : Remove(n)

Spec == Init /\ [][Next]_vars

-----------------------------------------------------------------------------
(* Properties *)

TypeOK ==
  /\ now \in 0..MaxTime
  /\ step \in [Runs -> {"new", "over"} \cup Steps]
  /\ name \in [Runs -> Names]
  /\ partial \in [Runs -> {"none", "half", "whole"}]
  /\ dir \in [Names -> Archive \cup {None}]
  /\ bucket \in [Names -> Archive \cup {None}]
  /\ body \in [Runs -> Archive \cup {None}]
  /\ todo \in [Runs -> SUBSET Names]
  /\ written \subseteq Names /\ sent \subseteq Names /\ removed \subseteq Names

\* "no name is ever an archive that stopped halfway" (`write_user_backup`): not
\* in the directory, and so not in the bucket, whose objects come from there.
ListedAreWhole ==
  \A n \in Names :
    /\ dir[n] # None => dir[n].whole
    /\ bucket[n] # None => bucket[n].whole

\* A schedule of that style keeps so few that n goes.
Superseded(n, names) ==
  \E r \in Scheduled : Style[r] = n.style /\ Style[r] \notin Repeating
                       /\ Cardinality(Newer(n, names)) >= Keep[r]

\* An archive that was written is still there, unless somebody has deleted it
\* or enough newer ones of its style were written, however runs overlap and
\* wherever they fail (`prune_user_backups`, `in_family`).
DirKeeps ==
  \A n \in written : n \in In(dir) \cup removed \/ Superseded(n, written)

\* The bucket keeps what was sent in the same way (`prune_archives`): neither
\* an archive that never arrived nor one of another style makes one go.
BucketKeeps == \A n \in sent : n \in In(bucket) \/ Superseded(n, sent)
=============================================================================
