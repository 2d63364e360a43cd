---------------------------- MODULE VideoService --------------------------
(***************************************************************************)
(* The life of a video: uploaded (receivefilecontrol.cpp), announced to    *)
(* the publisher's followers through the table VideoPush, fetched from     *)
(* there by each follower (sendinfocontrol.cpp) and deleted again          *)
(* (modifyinfocontrol.cpp).                                                *)
(*                                                                         *)
(* Handlers run on several threads and share the database.  None of them   *)
(* opens a transaction, so one SQL statement, or one operation on a file,  *)
(* is one step, and the steps of two handlers interleave freely.  Results  *)
(* are not checked: a handler whose statement fails goes on, except that a *)
(* failed query ends an upload or a fetch.  No table has a key: a table    *)
(* that may hold a row twice is a function from rows to counts.            *)
(*                                                                         *)
(* The statements on Video name the id without quotes, so that the rows    *)
(* they find are those whose id is the same double: the video's own and    *)
(* those of its twins, in an order that is left open.                      *)
(***************************************************************************)
EXTENDS Doubles, FiniteSets

CONSTANTS
  Publishers,        \* users who upload
  Followers,         \* users who follow them
  Videos,            \* the ids that nextId gives out
  Handlers,          \* threads that serve requests
  Failing,           \* the statements and the operations on files that may fail
  NoOne,             \* a publisherId that was never set, a row that is not there
  MaxRows,           \* bound on the copies of a row of Follow
  MaxVideos,         \* bound on the ids given out
  MaxDeletions,      \* bound on the deletions that differ in the video or in the row found
  MaxFailures        \* bound on the failures

\* Named by the steps they belong to; find is the query of a deletion.
Statements ==
  {"write", "insert", "followers", "push", "find", "unlink", "drop", "lookup", "clear"}

ASSUME VideoAssumption ==
  /\ IsFiniteSet(Publishers) /\ IsFiniteSet(Followers)
  /\ IsFiniteSet(Videos) /\ Videos \subseteq Nat
  /\ Failing \subseteq Statements
  /\ NoOne \notin Publishers \cup Videos
  /\ MaxRows \in Nat \ {0} /\ MaxVideos \in Nat
  /\ MaxDeletions \in Nat /\ MaxFailures \in Nat

VARIABLES
  publisher,   \* who uploaded the video with this id; NoOne: id not given out
  files,       \* videos whose file is in VIDEO_URL
  Video,       \* rows of the table Video
  Follow,      \* number of rows <<userId, followerId>>
  VideoPush,   \* number of rows <<userId, videoId>>
  req,         \* the request each handler works on
  owed, taken, \* history: pushes that uploads owe, and that fetches have removed
  shown,       \* history: <<user, video, publisherId>> that fetches have sent
  late,        \* history: pushes inserted while a fetch of that user was running
  deletions,   \* history: <<video, row found>> of the deletions that were asked for
  deleted,     \* history: videos whose own row a deletion has found and dropped
  failed       \* history: <<statement, video or user>> of what has failed

tables  == <<publisher, files, Video, Follow, VideoPush>>
history == <<owed, taken, shown, late, deletions, deleted, failed>>
vars    == <<tables, req, history>>

Push     == Followers \X Videos
NoPush   == [p \in Push |-> 0]
Named    == Publishers \cup {NoOne}

\* What a handler does next: idle; write, insert, followers and push are steps of
\* an upload, unlink and drop of a deletion, lookup and clear of a fetch.
Steps == {"idle", "write", "insert", "followers", "push", "unlink", "drop", "lookup", "clear"}

\* The handler's local variables: row is the row from which a deletion has the
\* suffix, rows counts the rows of a result still to be visited, publisherId is
\* the field of the one json object that a fetch uses for all its videos, and
\* videos the list it sends.
Requests ==
  [at : Steps, user : Publishers \cup Followers \cup {NoOne}, video : Videos \cup {NoOne},
   row : Videos \cup {NoOne}, rows : [Followers \cup Videos -> Nat], publisherId : Named,
   videos : SUBSET (Videos \X Named)]

NoRows == [x \in Followers \cup Videos |-> 0]

Idle == [at |-> "idle", user |-> NoOne, video |-> NoOne, row |-> NoOne,
         rows |-> NoRows, publisherId |-> NoOne, videos |-> {}]

TypeOK ==
  /\ publisher \in [Videos -> Named]
  /\ files \subseteq Videos /\ Video \subseteq Videos
  /\ Follow \in [Publishers \X Followers -> 0..MaxRows]
  /\ VideoPush \in [Push -> Nat]
  /\ req \in [Handlers -> Requests]
  /\ owed \in [Push -> Nat] /\ taken \in [Push -> Nat]
  /\ shown \subseteq Followers \X Videos \X Named
  /\ late \subseteq Push
  /\ deletions \subseteq Videos \X (Videos \cup {NoOne}) /\ deleted \subseteq Videos
  /\ failed \subseteq Statements \X (Videos \cup Followers)

Init ==
  /\ publisher = [v \in Videos |-> NoOne]
  /\ files = {} /\ Video = {}
  /\ Follow = [r \in Publishers \X Followers |-> 0]
  /\ VideoPush = NoPush
  /\ req = [h \in Handlers |-> Idle]
  /\ owed = NoPush /\ taken = NoPush
  /\ shown = {} /\ late = {} /\ deletions = {} /\ deleted = {} /\ failed = {}

\* The statement fails, for video or user x.
Fails(kind, x) ==
  /\ kind \in Failing /\ Cardinality(failed) < MaxFailures
  /\ failed' = failed \cup {<<kind, x>>}

At(h, step) == req[h].at = step

Goto(h, step) == req' = [req EXCEPT ![h].at = step]

Finish(h) == req' = [req EXCEPT ![h] = Idle]

(***************************************************************************)
(* Follow and unfollow: one statement each.                                *)
(***************************************************************************)
FollowUser(u, f) ==
  /\ Follow[<<u, f>>] < MaxRows
  /\ Follow' = [Follow EXCEPT ![<<u, f>>] = @ + 1]
  /\ UNCHANGED <<publisher, files, Video, VideoPush, req, history>>

Unfollow(u, f) ==
  /\ Follow' = [Follow EXCEPT ![<<u, f>>] = 0]
  /\ UNCHANGED <<publisher, files, Video, VideoPush, req, history>>

(***************************************************************************)
(* Upload.  The id goes to the client first, so that the client may name   *)
(* the video in other requests before there is anything to be found.       *)
(***************************************************************************)
\* nextId gives out an id once.
Fresh(v) == publisher[v] = NoOne

Upload(h, u, v) ==
  /\ At(h, "idle") /\ Fresh(v)
  /\ Cardinality({w \in Videos : ~Fresh(w)}) < MaxVideos
  /\ publisher' = [publisher EXCEPT ![v] = u]
  /\ req' = [req EXCEPT ![h] = [Idle EXCEPT !.at = "write", !.user = u, !.video = v]]
  /\ UNCHANGED <<files, Video, Follow, VideoPush, history>>

MutWriteFile(h) ==
  /\ At(h, "write")
  /\ Goto(h, "insert")
  /\ UNCHANGED <<tables, history>>

\* The stream's state is not looked at.
WriteFile(h) ==
  /\ At(h, "write")
  /\ \/ files' = files \cup {req[h].video} /\ UNCHANGED failed
     \/ Fails("write", req[h].video) /\ UNCHANGED files
  /\ Goto(h, "insert")
  /\ UNCHANGED <<publisher, Video, Follow, VideoPush, owed, taken, shown, late, deletions, deleted>>

InsertVideo(h) ==
  /\ At(h, "insert")
  /\ \/ Video' = Video \cup {req[h].video} /\ UNCHANGED failed
     \/ Fails("insert", req[h].video) /\ UNCHANGED Video
  /\ Goto(h, "followers")
  /\ UNCHANGED <<publisher, files, Follow, VideoPush, owed, taken, shown, late, deletions, deleted>>

MutFollowerRows(u) ==
  [x \in Followers \cup Videos |-> IF x \in Followers /\ Follow[<<u, x>>] > 0 THEN 1 ELSE 0]

\* select followerId from Follow where userId = u.
FollowerRows(u) ==
  [x \in Followers \cup Videos |-> IF x \in Followers THEN Follow[<<u, x>>] ELSE 0]

SelectFollowers(h) ==
  /\ At(h, "followers")
  /\ \/ /\ req' = [req EXCEPT ![h].at = "push", ![h].rows = FollowerRows(req[h].user)]
        /\ owed' = [p \in Push |-> IF p[2] = req[h].video
                                   THEN owed[p] + Follow[<<req[h].user, p[1]>>] ELSE owed[p]]
        /\ UNCHANGED failed
     \/ /\ Fails("followers", req[h].video)
        /\ Finish(h)
        /\ UNCHANGED owed
  /\ UNCHANGED <<tables, taken, shown, late, deletions, deleted>>

\* The result that handler h walks through has a row x left.
HasRow(h, x) == req[h].rows[x] > 0

\* A fetch of f has read the table and has not yet emptied it.
FetchRunning(f) == \E g \in Handlers : req[g].at \in {"lookup", "clear"} /\ req[g].user = f

InsertPush(h, f) ==
  /\ At(h, "push") /\ HasRow(h, f)
  /\ req' = [req EXCEPT ![h].rows[f] = @ - 1]
  /\ LET p == <<f, req[h].video>> IN
       \/ /\ VideoPush' = [VideoPush EXCEPT ![p] = @ + 1]
          /\ late' = IF FetchRunning(f) THEN late \cup {p} ELSE late
          /\ UNCHANGED failed
       \/ /\ Fails("push", req[h].video)
          /\ UNCHANGED <<VideoPush, late>>
  /\ UNCHANGED <<publisher, files, Video, Follow, owed, taken, shown, deletions, deleted>>

UploadEnd(h) ==
  /\ At(h, "push") /\ req[h].rows = NoRows
  /\ Finish(h)
  /\ UNCHANGED <<tables, history>>

(***************************************************************************)
(* Deletion, of any video whose id the client knows.  The name of the file *)
(* needs the suffix, which is in the row.  The last statement, on the      *)
(* table VideoLike, concerns nothing that is modelled here.                *)
(***************************************************************************)
MutRowsOf(v) == {w \in Video : Milli(w) = Milli(v)}

\* The rows "where id = v".
RowsOf(v) == {w \in Video : SameNumber(w, v)}

Delete(h, v) ==
  /\ At(h, "idle") /\ ~Fresh(v)
  /\ \E row \in RowsOf(v) \cup {NoOne} :
       /\ \/ (row = NoOne) = (RowsOf(v) = {}) /\ UNCHANGED failed
          \/ row = NoOne /\ Fails("find", v)
       /\ req' = [req EXCEPT ![h] = [Idle EXCEPT !.at = "unlink", !.video = v, !.row = row]]
       /\ deletions' = deletions \cup {<<v, row>>}
       /\ Cardinality(deletions') <= MaxDeletions
  /\ UNCHANGED <<tables, owed, taken, shown, late, deleted>>

MutUnlinked(h) == {{}}

\* The files that remove() may take away.  Without a suffix it gets a name that does
\* not exist; with the suffix of a twin's row the name may be that of a file or not.
Unlinked(h) ==
  LET v == req[h].video IN
  CASE req[h].row = v     -> {{v}}
    [] req[h].row = NoOne -> {{}}
    [] OTHER              -> {{}, {v}}

RemoveFile(h) ==
  /\ At(h, "unlink")
  /\ \/ (\E gone \in Unlinked(h) : files' = files \ gone) /\ UNCHANGED failed
     \/ Fails("unlink", req[h].video) /\ UNCHANGED files
  /\ Goto(h, "drop")
  /\ UNCHANGED <<publisher, Video, Follow, VideoPush, owed, taken, shown, late, deletions, deleted>>

DeleteVideo(h) ==
  /\ At(h, "drop")
  /\ \/ /\ Video' = Video \ RowsOf(req[h].video)
        /\ deleted' = deleted \cup ({req[h].video} \cap {req[h].row})
        /\ UNCHANGED failed
     \/ /\ Fails("drop", req[h].video)
        /\ UNCHANGED <<Video, deleted>>
  /\ Finish(h)
  /\ UNCHANGED <<publisher, files, Follow, VideoPush, owed, taken, shown, late, deletions>>

(***************************************************************************)
(* Fetching the pushes of a user: read, look each publisher up, send,      *)
(* delete.  If there are none, or the query fails, nothing changes.        *)
(***************************************************************************)
PushRows(f) ==
  [x \in Followers \cup Videos |-> IF x \in Videos THEN VideoPush[<<f, x>>] ELSE 0]

Fetch(h, f) ==
  /\ At(h, "idle") /\ PushRows(f) # NoRows
  /\ req' = [req EXCEPT ![h] =
               [Idle EXCEPT !.at = "lookup", !.user = f, !.rows = PushRows(f)]]
  /\ UNCHANGED <<tables, history>>

MutLookedUp(h, v) == {req[h].publisherId}

\* The publisher in the first row found.  The field keeps the publisher of the video
\* before if there is no row.
LookedUp(h, v) ==
  IF RowsOf(v) = {} THEN {req[h].publisherId} ELSE {publisher[w] : w \in RowsOf(v)}

LookupPublisher(h, v) ==
  /\ At(h, "lookup") /\ HasRow(h, v)
  /\ \E p \in Named :
       /\ \/ p \in LookedUp(h, v) /\ UNCHANGED failed
          \/ p = req[h].publisherId /\ Fails("lookup", v)
       /\ req' = [req EXCEPT ![h].rows[v] = @ - 1, ![h].publisherId = p,
                            ![h].videos = @ \cup {<<v, p>>}]
  /\ UNCHANGED <<tables, owed, taken, shown, late, deletions, deleted>>

SendPushes(h) ==
  /\ At(h, "lookup") /\ req[h].rows = NoRows
  /\ shown' = shown \cup {<<req[h].user, x[1], x[2]>> : x \in req[h].videos}
  /\ Goto(h, "clear")
  /\ UNCHANGED <<tables, owed, taken, late, deletions, deleted, failed>>

MutClears(h, p) == TRUE

\* delete from VideoPush where userId = the user.
Clears(h, p) == p[1] = req[h].user

ClearPushes(h) ==
  /\ At(h, "clear")
  /\ \/ /\ VideoPush' = [p \in Push |-> IF Clears(h, p) THEN 0 ELSE VideoPush[p]]
        /\ taken' = [p \in Push |-> IF Clears(h, p) THEN taken[p] + VideoPush[p] ELSE taken[p]]
        /\ UNCHANGED failed
     \/ /\ Fails("clear", req[h].user)
        /\ UNCHANGED <<VideoPush, taken>>
  /\ Finish(h)
  /\ UNCHANGED <<publisher, files, Video, Follow, owed, shown, late, deletions, deleted>>

---------------------------------------------------------------------------
Next ==
  \/ \E u \in Publishers, f \in Followers : FollowUser(u, f) \/ Unfollow(u, f)
  \/ \E h \in Handlers :
       \/ \E u \in Publishers, v \in Videos : Upload(h, u, v)
       \/ WriteFile(h) \/ InsertVideo(h) \/ SelectFollowers(h) \/ UploadEnd(h)
       \/ \E f \in Followers : InsertPush(h, f) \/ Fetch(h, f)
       \/ \E v \in Videos : Delete(h, v) \/ LookupPublisher(h, v)
       \/ RemoveFile(h) \/ DeleteVideo(h)
       \/ SendPushes(h) \/ ClearPushes(h)

Spec == Init /\ [][Next]_vars

---------------------------------------------------------------------------
Failed(kind, x) == <<kind, x>> \in failed

\* Somebody has asked to delete v; the deletion took the suffix from a twin's row.
Asked(v)  == \E d \in deletions : d[1] = v
Misled(v) == \E d \in deletions : d[1] = v /\ d[2] \notin {v, NoOne}

\* Somebody has asked to delete v or a twin of it, which drops the rows of both.
AskedNumber(v) == \E d \in deletions : SameNumber(d[1], v)

\* A video in the list has its file, unless a deletion that has removed the file is
\* about to delete the row.  The exceptions are what failed on the way, and a deletion
\* that came between writing the file and inserting the row and found a twin's row.
RowHasFile ==
  \A v \in Video :
    \/ v \in files
    \/ \E h \in Handlers : At(h, "drop") /\ req[h].video = v
    \/ Failed("write", v) \/ Failed("drop", v) \/ Misled(v)

\* A follower who is told of a video can watch it, until somebody deletes it, and
\* finds it in the list, until somebody deletes it or a twin of it.
PushedVideoThere ==
  \A p \in Push : VideoPush[p] > 0 =>
    /\ p[2] \in files \/ Asked(p[2]) \/ Failed("write", p[2])
    /\ p[2] \in Video \/ AskedNumber(p[2]) \/ Failed("insert", p[2])

\* Sum over the handlers of the pushes of p that are still to be inserted: there is
\* at most one upload of a video.
Pending(p) ==
  IF \E h \in Handlers : At(h, "push") /\ req[h].video = p[2]
  THEN req[CHOOSE h \in Handlers : At(h, "push") /\ req[h].video = p[2]].rows[p[1]]
  ELSE 0

\* Failing insertions lose pushes of v, and nothing invents one.
Balanced(owes, have, v) == owes = have \/ (owes > have /\ Failed("push", v))

\* Every row of Follow that an upload has read becomes one push: it is still to be
\* inserted, or in the table, or has been removed by a fetch, or its insertion failed.
PushAccounting ==
  \A p \in Push : Balanced(owed[p], Pending(p) + VideoPush[p] + taken[p], p[2])

\* Once a deletion has found the row of a video itself and dropped it, neither row
\* nor file ever comes back, and a file is left only if remove() failed.
DeletedForGood ==
  \A v \in deleted : v \notin Video /\ (v \in files => Failed("unlink", v))

Shown(p) == \E x \in shown : x[1] = p[1] /\ x[2] = p[2]

\* A push that was removed without having been sent was inserted while a fetch of
\* that user was running.
LostOnlyIfLate == \A p \in Push : taken[p] > 0 /\ ~Shown(p) => p \in late

\* The name of the publisher of v, or of a twin of v.
RightName(v, b) ==
  \/ AskedNumber(v) \/ Failed("insert", v) \/ Failed("lookup", v)
  \/ \E w \in Videos : SameNumber(w, v) /\ ~Fresh(w) /\ b = publisher[w]

\* A fetch names, for every video that nobody deletes, its publisher or that of a twin:
\* the right one for a video whose number no other video has, and never the one left
\* in the json object from the video before.
PublisherNamed == \A x \in shown : RightName(x[2], x[3])
===========================================================================
