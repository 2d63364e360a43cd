----------------------------- MODULE Reactions ----------------------------
(***************************************************************************)
(* What viewers do with the videos: likes (modifyinfocontrol.cpp), the     *)
(* like count and the paged list of videos (sendinfocontrol.cpp), and the  *)
(* part of a deletion that concerns the tables Video and VideoLike.  One   *)
(* SQL statement is one step and may fail, which nobody looks at; requests *)
(* of several handlers interleave between the statements of a deletion,    *)
(* and may name any id.                                                    *)
(*                                                                         *)
(* Ids are numbers here, as SnowflakeIdWorker composes them, and compared  *)
(* as the database does it (Doubles).                                      *)
(***************************************************************************)
EXTENDS Integers, Sequences, FiniteSets, Functions, Doubles

CONSTANTS
  Ids,         \* ids that uploads give out
  Users,
  Handlers,    \* threads that serve requests
  None,        \* no id
  MilliIds,    \* 2^12: ids that a millisecond can have (sequence numbers, node 0)
  MaxRows,     \* bound on the rows of VideoLike
  PageSize     \* num of a VodList request

ASSUME ReactionsAssumption ==
  /\ Ids \subseteq Nat /\ None \notin Ids
  /\ MilliSize \in Nat /\ MilliIds \in Nat /\ MaxRows \in Nat \ {0} /\ PageSize \in Nat \ {0}
  /\ Ulp \in Nat \ {0}
  /\ MilliIds + Ulp < MilliSize
  /\ \A v \in Ids : v % MilliSize < MilliIds

VARIABLES
  Video,        \* rows of the table Video, in the order of insertion
  VideoLike,    \* rows <<videoId, userId, n>>: n tells the rows of one like apart
  del,          \* the video whose likes a handler is about to delete, or None
  offset,       \* where the viewer who pages through the list has got to
  seen,         \* the videos of the pages so far
  lostRows,     \* history: rows before offset that were deleted since the first page
  wish,         \* history: <<video, user>> whose last request was a like (for videos
                \* that are the only ones of their millisecond)
  again,        \* history: likes sent again while they stood, or may have stood
  failed,       \* history: likes that the last statement should have changed, but failed
  inserted      \* history: videos that were inserted

tables  == <<Video, VideoLike>>
viewer  == <<offset, seen, lostRows>>
history == <<wish, again, failed, inserted>>
vars    == <<tables, del, viewer, history>>

Likes == Ids \X Users

\* The types of the variables.
TypeOK ==
  /\ Video \in Seq(Ids)
  /\ VideoLike \subseteq Ids \X Users \X (1..MaxRows)
  /\ del \in [Handlers -> Ids \cup {None}]
  /\ offset \in Nat /\ seen \subseteq Ids /\ lostRows \in Nat
  /\ wish \subseteq Likes /\ again \subseteq wish /\ failed \subseteq Likes
  /\ inserted \subseteq Ids

Init ==
  /\ Video = <<>>
  /\ VideoLike = {}
  /\ del = [h \in Handlers |-> None]
  /\ offset = 0 /\ seen = {} /\ lostRows = 0
  /\ wish = {} /\ again = {} /\ failed = {} /\ inserted = {}

Rows == {Video[i] : i \in DOMAIN Video}

\* v is the only video of its millisecond.
Alone(v) == \A w \in Ids : Milli(w) = Milli(v) => w = v

Followed == {l \in Likes : Alone(l[1])}

(***************************************************************************)
(* The requests.                                                           *)
(***************************************************************************)
\* The insertion at the end of an upload.
InsertVideo(v) ==
  /\ v \notin inserted
  /\ Video' = Append(Video, v)
  /\ inserted' = inserted \cup {v}
  /\ UNCHANGED <<VideoLike, del, viewer, wish, again, failed>>

\* A like is one more row.
Like(v, u) ==
  /\ Cardinality(VideoLike) < MaxRows
  /\ \E n \in 1..MaxRows :
       /\ <<v, u, n>> \notin VideoLike /\ \A m \in 1..(n - 1) : <<v, u, m>> \in VideoLike
       /\ VideoLike' = VideoLike \cup {<<v, u, n>>}
  /\ wish' = wish \cup ({<<v, u>>} \cap Followed)
  /\ again' = again \cup ({<<v, u>>} \cap (wish \cup failed) \cap Followed)
  /\ failed' = failed \ {<<v, u>>}
  /\ UNCHANGED <<Video, del, viewer, inserted>>

LikeFails(v, u) ==
  /\ wish' = wish \cup ({<<v, u>>} \cap Followed)
  /\ failed' = failed \cup ({<<v, u>>} \cap Followed)
  /\ UNCHANGED <<tables, del, viewer, again, inserted>>

\* The rows that are left when u takes back his like.
Unliked(v, u) == {r \in VideoLike : ~(SameNumber(r[1], v) /\ r[2] = u)}

Unlike(v, u) ==
  /\ VideoLike' = Unliked(v, u)
  /\ wish' = wish \ {<<v, u>>}
  /\ again' = again \ {<<v, u>>}
  /\ failed' = failed \ {<<v, u>>}
  /\ UNCHANGED <<Video, del, viewer, inserted>>

UnlikeFails(v, u) ==
  /\ wish' = wish \ {<<v, u>>}
  /\ again' = again \ {<<v, u>>}
  /\ failed' = failed \cup ({<<v, u>>} \cap Followed)
  /\ UNCHANGED <<tables, del, viewer, inserted>>

MutKept(v) == {i \in DOMAIN Video : Video[i] > v /\ ~SameNumber(v, Video[i])}

\* The positions of the rows that a deletion of v leaves.
Kept(v) == {i \in DOMAIN Video : ~SameNumber(v, Video[i])}

\* The numbers in K in their order.
Enumerations(K) ==
  {f \in Bijection(1..Cardinality(K), K) : \A i, j \in DOMAIN f : i < j => f[i] < f[j]}

\* A deletion: the row first.
DeleteVideo(h, v) ==
  /\ del[h] = None
  /\ \E f \in Enumerations(Kept(v)) : Video' = [i \in DOMAIN f |-> Video[f[i]]]
  /\ lostRows' = lostRows + Cardinality({i \in DOMAIN Video : i <= offset /\ SameNumber(v, Video[i])})
  /\ del' = [del EXCEPT ![h] = v]
  /\ UNCHANGED <<VideoLike, offset, seen, history>>

\* The handler goes on to the likes all the same.
DeleteVideoFails(h, v) ==
  /\ del[h] = None
  /\ del' = [del EXCEPT ![h] = v]
  /\ UNCHANGED <<tables, viewer, history>>

MutKeepLikes(v) == VideoLike

LikesLeft(v) == {r \in VideoLike : ~SameNumber(r[1], v)}

\* Then its likes.
DeleteLikes(h) ==
  /\ del[h] # None
  /\ VideoLike' = LikesLeft(del[h])
  /\ wish' = {l \in wish : l[1] # del[h]}
  /\ again' = {l \in again : l[1] # del[h]}
  /\ failed' = {l \in failed : l[1] # del[h]}
  /\ del' = [del EXCEPT ![h] = None]
  /\ UNCHANGED <<Video, viewer, inserted>>

DeleteLikesFails(h) ==
  /\ del[h] # None
  /\ wish' = {l \in wish : l[1] # del[h]}
  /\ again' = {l \in again : l[1] # del[h]}
  /\ failed' = failed \cup {l \in wish : l[1] = del[h]}
  /\ del' = [del EXCEPT ![h] = None]
  /\ UNCHANGED <<tables, viewer, inserted>>

Smaller(a, b) == IF a <= b THEN a ELSE b

MutPageSkips(from) == SubSeq(Video, from + 2, Smaller(from + 1 + PageSize, Len(Video)))

\* "limit offset, num": rows are counted from 0.
Page(from) == SubSeq(Video, from + 1, Smaller(from + PageSize, Len(Video)))

\* The viewer asks for the next page.
NextPage ==
  /\ offset < Len(Video)
  /\ seen' = seen \cup {Page(offset)[i] : i \in DOMAIN Page(offset)}
  /\ offset' = offset + Len(Page(offset))
  /\ UNCHANGED <<tables, del, lostRows, history>>

\* The answer to a query: count(distinct userId), and whether there is one row.
LikeInfo(v, u) ==
  LET here == {r \in VideoLike : SameNumber(r[1], v)} IN
  [likeCount |-> Cardinality({r[2] : r \in here}),
   ifLike |-> Cardinality({r \in here : r[2] = u}) = 1]

---------------------------------------------------------------------------
Next ==
  \/ \E v \in Ids : InsertVideo(v)
  \/ \E v \in Ids, u \in Users : Like(v, u) \/ LikeFails(v, u) \/ Unlike(v, u) \/ UnlikeFails(v, u)
  \/ \E h \in Handlers :
       \/ DeleteLikes(h) \/ DeleteLikesFails(h)
       \/ \E v \in Ids : DeleteVideo(h, v) \/ DeleteVideoFails(h, v)
  \/ NextPage

Spec == Init /\ [][Next]_vars

---------------------------------------------------------------------------
\* Whatever is liked twice or taken back, the answer about a video, unless another one
\* was uploaded in the same millisecond, says that the user likes it only if he asked
\* for that last, and does say so, except (SendInfoControl counts rows) if his like was
\* sent twice or the statement failed; and it counts the users who like it now, unless
\* the last statement about the like of one of them failed.
LikeInfoRight ==
  \A v \in Ids : Alone(v) =>
    /\ (\A u \in Users : <<v, u>> \notin failed) =>
         \A u \in Users : LikeInfo(v, u).likeCount = Cardinality({w \in Users : <<v, w>> \in wish})
    /\ \A u \in Users : <<v, u>> \notin failed =>
         /\ LikeInfo(v, u).ifLike => <<v, u>> \in wish
         /\ <<v, u>> \in wish \ again => LikeInfo(v, u).ifLike

\* Deleting a video removes no video but those of the same millisecond, in spite of
\* ids that are compared with less precision than they have.
DeletionStaysInMilli ==
  [][\A h \in Handlers, v \in Ids :
       DeleteVideo(h, v) => \A w \in Rows : Milli(w) # Milli(v) => \E i \in DOMAIN Video' : Video'[i] = w]_vars

\* The viewer has missed at most as many of the videos before his offset as videos
\* were deleted there while he was reading.
MissedOnlyByDeletion ==
  Cardinality({i \in DOMAIN Video : i <= offset /\ Video[i] \notin seen}) <= lostRows
===========================================================================
