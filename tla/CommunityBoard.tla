---------------------------- MODULE CommunityBoard ----------------------------
(***************************************************************************)
(* The community board: the list of posts with its category filter, the    *)
(* form of a new post with its screenshots, the page of one post with the  *)
(* form of a reply, and the API behind them, which stores a reply and then *)
(* counts it in two statements of their own.  No answer of a list or of a  *)
(* post is checked against the filter or the post that is on screen.       *)
(***************************************************************************)
EXTENDS Browser

CONSTANTS
    BatchSize,  \* files of one choice that are uploaded (4 in the code)
    MaxImages,  \* images a post may have (6 in the code and in the API)
    MaxPosts    \* bound: posts, and replies of one post

ASSUME BoardAssumption ==
    /\ BatchSize \in Nat /\ MaxImages \in Nat /\ MaxPosts \in Nat
    /\ None \notin {"sent", "stored"}

VARIABLES
    board,      \* the API: posts, replies, and replies stored but not yet counted
    forum,      \* the state of CommunityPage
    draft,      \* the state of NewPostForm
    thread      \* the state of CommunityPostPage

boardVars == <<board, forum, draft, thread>>

Categories == {"question", "showcase"}

-----------------------------------------------------------------------------
(* The API. *)

list_posts(filter) == {p \in board.posts : filter = "all" \/ p.category = filter}

PostIds == {p.id : p \in board.posts}

\* create_post: the category was checked, the images are cut to the bound.
create_post(category, images) ==
    [board EXCEPT !.posts = @ \cup
       {[id |-> Cardinality(@) + 1, category |-> category, shown |-> images,
         images |-> IF images < MaxImages THEN images ELSE MaxImages]}]

\* Mutant: the reply is counted before it is stored.
CountsFirst(id) == [board EXCEPT !.counts[id] = @ + 1, !.uncounted[id] = @ + 1]

\* create_reply: INSERT of the reply.
InsertReply(id) == [board EXCEPT !.replies[id] = @ + 1, !.uncounted[id] = @ + 1]

\* create_reply: UPDATE of reply_count, in a transaction of its own.
CountReply(id) == [board EXCEPT !.counts[id] = @ + 1, !.uncounted[id] = @ - 1]

\* Replies of other people that are stored and not counted.
OthersUncounted(id) ==
    board.uncounted[id] - (IF thread.id = id /\ thread.reply = "stored" THEN 1 ELSE 0)

\* A worker of the API ends between the two statements.
ReplyNeverCounted(id) ==
    /\ Acts
    /\ OthersUncounted(id) > 0
    /\ board' = [board EXCEPT !.uncounted[id] = @ - 1]
    /\ UNCHANGED <<forum, draft, thread>>

\* Other people post and reply.
PostedElsewhere(category) ==
    /\ Acts
    /\ Cardinality(board.posts) < MaxPosts
    /\ board' = create_post(category, 0)
    /\ UNCHANGED <<forum, draft, thread>>

RepliedElsewhere(id) ==
    /\ Acts
    /\ id \in PostIds /\ board.replies[id] < MaxPosts
    /\ board' = InsertReply(id)
    /\ UNCHANGED <<forum, draft, thread>>

ReplyCounted(id) ==
    /\ Quiet
    /\ OthersUncounted(id) > 0
    /\ board' = CountReply(id)
    /\ UNCHANGED <<forum, draft, thread>>

-----------------------------------------------------------------------------
(* CommunityPage. *)

\* Calls outlive the form that made them; "own" ones are of the form on screen.
Orphan(calls) == {[c EXCEPT !.own = FALSE] : c \in calls}

NewDraft == [images |-> 0, uploading |-> FALSE, batches |-> {}, category |-> "question",
             ready |-> FALSE, submitting |-> FALSE, posts |-> {}]

NewThread(id) == [id |-> id, post |-> None, loading |-> id # None, error |-> FALSE,
                  text |-> FALSE, submitting |-> FALSE, loads |-> {}, reply |-> None]

\* load for the filter of its closure.
loadPosts(f) == [f EXCEPT !.loading = TRUE, !.error = FALSE, !.loads = Put(@, f.filter)]

\* Another form, or none; what the form before had in flight goes on.
Replaced == [NewDraft EXCEPT !.posts = Orphan(draft.posts), !.batches = Orphan(draft.batches)]

CommunityPage ==
    /\ IF forum.at = "closed" THEN Quiet ELSE Acts
    /\ forum.at # "list"
    /\ forum' = loadPosts([forum EXCEPT !.at = "list", !.filter = "all", !.form = FALSE,
                                        !.posts = {}, !.loads = {}])
    /\ draft' = Replaced
    /\ thread' = NewThread(None)
    /\ UNCHANGED board

setFilter(filter) ==
    /\ Acts
    /\ forum.at = "list" /\ filter # forum.filter
    /\ forum' = loadPosts([forum EXCEPT !.filter = filter])
    /\ UNCHANGED <<board, draft, thread>>

\* The posts of an answer replace the list, whatever filter it was for.
PostsListed(filter, ok) ==
    /\ IF ok THEN Quiet ELSE Acts
    /\ filter \in forum.loads
    /\ forum' = [forum EXCEPT !.loads = Drop(@, filter), !.loading = FALSE,
                   !.error = @ \/ ~ok, !.posts = IF ok THEN list_posts(filter) ELSE @]
    /\ UNCHANGED <<board, draft, thread>>

\* "+ New post" and "Cancel": the form is mounted anew each time.
ToggleNewPost ==
    /\ Acts
    /\ forum.at = "list"
    /\ forum' = [forum EXCEPT !.form = ~@]
    /\ draft' = Replaced
    /\ UNCHANGED <<board, thread>>

-----------------------------------------------------------------------------
(* NewPostForm. *)

\* The form, its images, each with a button that takes it out, and its fields;
\* Publish is enabled once they are filled in, unless a post is being sent.
NewPostForm ==
    [open |-> forum.at = "list" /\ forum.form,
     images |-> IF forum.at = "list" /\ forum.form THEN draft.images ELSE 0,
     publish |-> forum.at = "list" /\ forum.form /\ draft.ready /\ ~draft.submitting]

\* onFile: the files of one choice go up one after another; a second choice
\* can be made meanwhile ("no" tells two choices apart).
onFile(files) ==
    /\ Acts
    /\ NewPostForm.open
    /\ Cardinality(draft.batches) < MaxFlights
    /\ draft' = [draft EXCEPT !.uploading = TRUE,
                   !.batches = Put(@, [no |-> acts, own |-> TRUE,
                       files |-> IF files < BatchSize THEN files ELSE BatchSize])]
    /\ forum' = [forum EXCEPT !.error = FALSE]
    /\ UNCHANGED <<board, thread>>

\* Mutant: the images of a choice are added without the bound.
AddAllImages(n, files) == n + files

\* setImages: the images so far and the new ones, cut to the bound.
AddImages(n, files) == IF n + files < MaxImages THEN n + files ELSE MaxImages

\* All files of a choice are up, or one failed: then none of them is kept,
\* although the API has stored some.
BatchUploaded(b, ok) ==
    /\ IF ok THEN Quiet ELSE Acts
    /\ draft' = LET d == [draft EXCEPT !.batches = Drop(@, b)]
                IN  IF b.own
                    THEN [d EXCEPT !.uploading = FALSE,
                                   !.images = IF ok THEN AddImages(@, b.files) ELSE @]
                    ELSE d
    /\ forum' = [forum EXCEPT !.error = @ \/ ~ok]
    /\ UNCHANGED <<board, thread>>

removeImage ==
    /\ Acts
    /\ NewPostForm.images > 0
    /\ draft' = [draft EXCEPT !.images = @ - 1]
    /\ UNCHANGED <<board, forum, thread>>

\* The text fields, taken together, and the category.
writePost(category) ==
    /\ Quiet
    /\ NewPostForm.open /\ ~draft.ready
    /\ draft' = [draft EXCEPT !.ready = TRUE, !.category = category]
    /\ UNCHANGED <<board, forum, thread>>

\* submit: the images on screen, also while an upload is running.
submitPost ==
    /\ Acts
    /\ NewPostForm.publish
    /\ draft' = [draft EXCEPT !.submitting = TRUE,
                   !.posts = Put(@, [category |-> draft.category, images |-> draft.images,
                                     own |-> TRUE])]
    /\ forum' = [forum EXCEPT !.error = FALSE]
    /\ UNCHANGED <<board, thread>>

\* onPosted: the list is loaded again and left at once for the new post, also
\* if the form was cancelled meanwhile.
PostCreated(p) ==
    /\ Quiet
    /\ Cardinality(board.posts) < MaxPosts
    /\ board' = create_post(p.category, p.images)
    /\ draft' = NewDraft
    /\ forum' = [forum EXCEPT !.at = "post", !.form = FALSE, !.loads = {}, !.loading = FALSE]
    /\ LET id == Cardinality(board.posts) + 1
       IN  thread' = [NewThread(id) EXCEPT !.loads = {id}]

\* Refused (the rate limit, a field too long) or lost.
PostFails(p) ==
    /\ IF Cardinality(board.posts) < MaxPosts THEN Acts ELSE Quiet
    /\ draft' = [draft EXCEPT !.posts = Drop(@, p), !.submitting = @ /\ ~p.own]
    /\ forum' = [forum EXCEPT !.error = TRUE]
    /\ UNCHANGED <<board, thread>>

-----------------------------------------------------------------------------
(* CommunityPostPage. *)

\* The cards of the list, each a link to its post.
PostCards ==
    IF forum.at = "list" /\ ~forum.loading THEN {p.id : p \in forum.posts} ELSE {}

CommunityPostPage(id) ==
    /\ Acts
    /\ id \in PostCards
    /\ forum' = [forum EXCEPT !.at = "post", !.loads = {}, !.form = FALSE]
    /\ draft' = Replaced
    /\ thread' = [NewThread(id) EXCEPT !.loads = {id}]
    /\ UNCHANGED board

\* get_post: the post with its replies; the reader's text is not touched.
PostLoaded(id, ok) ==
    /\ IF ok THEN Quiet ELSE Acts
    /\ id \in thread.loads
    /\ thread' = [thread EXCEPT !.loads = Drop(@, id), !.loading = FALSE, !.error = @ \/ ~ok,
                    !.post = IF ok THEN board.replies[id] ELSE @]
    /\ UNCHANGED <<board, forum, draft>>

\* The form under the post; Reply is enabled once there is text, unless one is
\* being sent.
ReplyForm ==
    [open |-> thread.post # None,
     reply |-> thread.post # None /\ thread.text /\ ~thread.submitting]

writeReply ==
    /\ Quiet
    /\ ReplyForm.open /\ ~thread.text
    /\ thread' = [thread EXCEPT !.text = TRUE]
    /\ UNCHANGED <<board, forum, draft>>

submitReply ==
    /\ Acts
    /\ ReplyForm.reply
    /\ thread' = [thread EXCEPT !.submitting = TRUE, !.error = FALSE,
                                !.reply = "sent"]
    /\ UNCHANGED <<board, forum, draft>>

ReplyStored ==
    /\ Quiet
    /\ thread.reply = "sent" /\ board.replies[thread.id] < MaxPosts
    /\ board' = InsertReply(thread.id)
    /\ thread' = [thread EXCEPT !.reply = "stored"]
    /\ UNCHANGED <<forum, draft>>

\* The answer: the field is emptied, with whatever was typed since, and the post
\* is loaded again.
ReplyAnswered ==
    /\ Quiet
    /\ thread.reply = "stored"
    /\ board' = CountReply(thread.id)
    /\ thread' = [thread EXCEPT !.reply = None, !.submitting = FALSE, !.text = FALSE,
                                !.loading = TRUE, !.loads = Put(@, thread.id)]
    /\ UNCHANGED <<forum, draft>>

\* Refused or lost; or the worker ends after it has stored the reply.
ReplyFails ==
    /\ thread.reply # None
    /\ IF board.replies[thread.id] < MaxPosts \/ thread.reply = "stored" THEN Acts ELSE Quiet
    /\ board' = IF thread.reply = "stored"
                THEN [board EXCEPT !.uncounted[thread.id] = @ - 1]
                ELSE board
    /\ thread' = [thread EXCEPT !.reply = None, !.submitting = FALSE, !.error = TRUE]
    /\ UNCHANGED <<forum, draft>>

-----------------------------------------------------------------------------
BoardInit ==
    /\ board = [posts |-> {}, replies |-> [id \in 1 .. MaxPosts |-> 0],
                counts |-> [id \in 1 .. MaxPosts |-> 0],
                uncounted |-> [id \in 1 .. MaxPosts |-> 0]]
    /\ forum = [at |-> "closed", filter |-> "all", posts |-> {}, loading |-> FALSE,
                error |-> FALSE, form |-> FALSE, loads |-> {}]
    /\ draft = NewDraft
    /\ thread = NewThread(None)

BoardAnswers ==
    \/ \E filter \in forum.loads : PostsListed(filter, TRUE)
    \/ \E b \in draft.batches : BatchUploaded(b, TRUE)
    \/ \E p \in draft.posts : PostCreated(p)
    \/ \E p \in draft.posts : Cardinality(board.posts) = MaxPosts /\ PostFails(p)
    \/ \E id \in thread.loads : PostLoaded(id, TRUE)
    \/ ReplyStored
    \/ ReplyAnswered
    \/ thread.reply = "sent" /\ board.replies[thread.id] = MaxPosts /\ ReplyFails
    \/ \E id \in 1 .. MaxPosts : ReplyCounted(id)

BoardNext ==
    \/ BoardAnswers
    \/ CommunityPage
    \/ \E filter \in Categories \cup {"all"} : setFilter(filter)
    \/ \E filter \in forum.loads : PostsListed(filter, FALSE)
    \/ ToggleNewPost
    \/ \E files \in {1, BatchSize + 1} : onFile(files)
    \/ \E b \in draft.batches : BatchUploaded(b, FALSE)
    \/ removeImage
    \/ \E category \in Categories : writePost(category)
    \/ submitPost
    \/ \E p \in draft.posts : PostFails(p)
    \/ \E id \in PostIds : CommunityPostPage(id)
    \/ \E id \in thread.loads : PostLoaded(id, FALSE)
    \/ writeReply
    \/ submitReply
    \/ ReplyFails
    \/ \E category \in Categories : PostedElsewhere(category)
    \/ \E id \in PostIds : RepliedElsewhere(id)
    \/ \E id \in 1 .. MaxPosts : ReplyNeverCounted(id)

-----------------------------------------------------------------------------
(* Properties. *)

\* A post is published with the images that its form showed: however many
\* uploads overlap, the form never shows more than the API keeps
\* (app/community/page.tsx:316, core/api/community.py create_post).
PostsKeepTheirImages == \A p \in board.posts : p.images = p.shown

\* The reply count of a post, stored apart from the replies, never promises a
\* reply that is not there, also when a worker of the API ends between the two
\* statements of create_reply.
CountedRepliesExist ==
    \A id \in 1 .. MaxPosts : board.counts[id] <= board.replies[id]
=============================================================================
