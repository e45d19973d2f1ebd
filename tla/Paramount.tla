------------------------------ MODULE Paramount ------------------------------
(***************************************************************************)
(* One fetch of the Paramount collector (collectors/paramount.py): page by *)
(* page through a WordPress listing, newest post first, that changes       *)
(* between two requests.  WordPress is external: it answers a page with    *)
(* the posts of that page and their number of pages, and refuses a page    *)
(* past the last one.                                                      *)
(*                                                                         *)
(* Performances are ticks after the start of the fetch.                    *)
(***************************************************************************)
EXTENDS Integers, Sequences, FiniteSets, SequencesExt, FiniteSetsExt

CONSTANTS
    Post,           \* ids of posts
    PostAbout,      \* PostAbout[i]: [performances, tags], a set of ticks and a sequence
    PerPage,        \* PAGE_SIZE
    PageLimit,      \* max_pages
    Grace,          \* PAST_GRACE
    MaxBoardEdits,  \* bound: edits of the listing
    Absent

ASSUME ParamountAssumption ==
    /\ {PerPage, PageLimit} \subseteq Nat \ {0}
    /\ Grace \in Nat /\ MaxBoardEdits \in Nat
    /\ IsFiniteSet(Post) /\ \A i \in Post : PostAbout[i].tags \in Seq(STRING)

VARIABLES
    board,          \* the listing, newest first
    pmState,        \* "idle", "ask", or how the last fetch ended: "done", "failed", "drift"
    pmPage,         \* the page in progress
    totalPages,     \* total_pages
    taken,          \* taken[i]: what was collected of post i, or Absent
    returned,       \* posts that the API returned so far
    \* observer variables
    boardAsRead,    \* the listing when its first page was read
    posted,         \* how many posts were added since
    unposted,       \* which posts were removed since
    removals,       \* how many were
    boardEdits      \* bound

progress == <<pmState, pmPage, totalPages, taken, returned>>
pmVars == <<board, progress, boardAsRead, posted, unposted, removals, boardEdits>>

\* The sale state of _from_tags: a tag is effective if it is the first that says something
\* or "sold-out", and the last effective one stands.
TagStatus(tags) ==
    LET says == [tag \in {"on-sale-now", "on-sale-fri", "sold-out"} |->
                    CASE tag = "on-sale-now" -> "on_sale"
                      [] tag = "on-sale-fri" -> "coming_soon"
                      [] tag = "sold-out"    -> "sold_out"]
        telling == {k \in DOMAIN tags : tags[k] \in DOMAIN says}
        effective == {k \in telling : tags[k] = "sold-out" \/ \A j \in telling : k <= j}
    IN IF telling = {} THEN "unknown" ELSE says[tags[Max(effective)]]

\* _map_event: a post without performances, or over for longer than Grace, is left out.
MapPost(i) ==
    LET times == PostAbout[i].performances
    IN IF times = {} \/ \A t \in times : t < -Grace THEN Absent
       ELSE [starts_at |-> Min(times),
             ends_at |-> IF Cardinality(times) > 1 THEN Max(times) ELSE Absent,
             status |-> TagStatus(PostAbout[i].tags)]

PagesOf(posts) == (Len(posts) + PerPage - 1) \div PerPage

PostsOf(posts, p) ==
    {posts[k] : k \in {k \in DOMAIN posts : (p - 1) * PerPage < k /\ k <= p * PerPage}}

PmInit ==
    /\ board = SetToSeq(Post)
    /\ pmState = "idle" /\ pmPage = 1 /\ totalPages = 1
    /\ taken = [i \in Post |-> Absent] /\ returned = 0
    /\ boardAsRead = << >> /\ posted = 0 /\ unposted = {} /\ removals = 0 /\ boardEdits = 0

PmFetch ==
    /\ pmState # "ask"
    /\ pmState' = "ask" /\ pmPage' = 1 /\ totalPages' = 1
    /\ taken' = [i \in Post |-> Absent] /\ returned' = 0
    /\ boardAsRead' = << >> /\ posted' = 0 /\ unposted' = {} /\ removals' = 0
    /\ UNCHANGED <<board, boardEdits>>

\* Mutant: the last page is left out.
FollowsBefore(p, total) == p + 1 < Min({total, PageLimit})

Follows(p, total) == p + 1 <= Min({total, PageLimit})

\* A page arrives.  Only the first one says how many there are.
PmReceive ==
    LET items == PostsOf(board, pmPage)
    IN /\ pmState = "ask"
       /\ pmPage > 1 => pmPage <= PagesOf(board)
       /\ totalPages' = IF pmPage = 1 THEN PagesOf(board) ELSE totalPages
       /\ returned' = returned + Cardinality(items)
       /\ taken' = [i \in Post |-> IF i \in items /\ MapPost(i) # Absent
                                   THEN MapPost(i) ELSE taken[i]]
       /\ IF Follows(pmPage, totalPages') THEN pmPage' = pmPage + 1 /\ UNCHANGED pmState
          ELSE /\ UNCHANGED pmPage
               /\ pmState' = IF returned' = 0 THEN "drift" ELSE "done"
       /\ IF pmPage = 1
          THEN boardAsRead' = board /\ posted' = 0 /\ unposted' = {} /\ removals' = 0
          ELSE UNCHANGED <<boardAsRead, posted, unposted, removals>>
       /\ UNCHANGED <<board, boardEdits>>

\* The answer is an error (a page past the last one always is), or no list of posts.
PmFails(how) ==
    /\ pmState = "ask"
    /\ pmState' = how
    /\ UNCHANGED <<board, pmPage, totalPages, taken, returned, boardAsRead, posted, unposted,
                   removals, boardEdits>>

PmRequest == PmReceive \/ \E how \in {"failed", "drift"} : PmFails(how)

\* The theatre adds or removes a post.
PmEdit ==
    /\ boardEdits < MaxBoardEdits /\ boardEdits' = boardEdits + 1
    /\ \/ \E i \in Post \ ToSet(board) :
             board' = <<i>> \o board /\ posted' = posted + 1 /\ UNCHANGED <<unposted, removals>>
       \/ \E k \in DOMAIN board :
             /\ board' = RemoveAt(board, k)
             /\ unposted' = unposted \cup {board[k]} /\ removals' = removals + 1
             /\ UNCHANGED posted
    /\ UNCHANGED <<progress, boardAsRead>>

PmNext == PmFetch \/ PmRequest \/ PmEdit

-----------------------------------------------------------------------------
\* A fetch that ends well has every post that was listed throughout and that the pages
\* reach, also after those added meanwhile have pushed it down; each removal meanwhile
\* makes it skip one other post at most (paramount.py:206-235).  What is sold out is collected as
\* sold out, whatever the order of its tags (paramount.py:110).
PagesAreComplete ==
    pmState = "done" =>
        LET reach == Min({totalPages, PageLimit}) * PerPage
            due == {k \in DOMAIN boardAsRead :
                        /\ boardAsRead[k] \notin unposted
                        /\ MapPost(boardAsRead[k]) # Absent
                        /\ k + posted <= reach}
            skipped == {k \in due : taken[boardAsRead[k]] = Absent}
        IN /\ Cardinality(skipped) <= removals
           /\ \A i \in Post : taken[i] # Absent /\ "sold-out" \in ToSet(PostAbout[i].tags)
                => taken[i].status = "sold_out"
=============================================================================
