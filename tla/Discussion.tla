----------------------------- MODULE Discussion -----------------------------
(***************************************************************************)
(* Comments on documents and the notifications they cause: pkg/comment and *)
(* pkg/notification.  A comment is stored first; then, one by one, the     *)
(* notifications of the author replied to and of the users mentioned, with *)
(* errors only logged.                                                     *)
(*                                                                         *)
(* Nothing but reading ever happens to a notification: no statement of the *)
(* program deletes one, and notifications refers to comments and documents *)
(* without ON DELETE.                                                      *)
(***************************************************************************)
EXTENDS TenantRequests

CONSTANTS
  Admins,      \* users with the role admin
  InsertsFail  \* whether the insert of a notification may fail for reasons of its own

ASSUME PeopleAssumption == Admins \subseteq Users /\ InsertsFail \in BOOLEAN

\* Replies are to comments that are no replies themselves, and only these are resolved.
Threaded(t) ==
  \A k \in DOMAIN t.comments : t.comments[k].parent # None =>
    /\ t.comments[t.comments[k].parent].parent = None
    /\ ~t.comments[k].resolved

\* Each word behind an @.  Of @bob@example.org that is bob, and example.org.
ExtractMentions(body) == UNION {Range(said) : said \in body}

\* notifyMentions: who is told of a text because of what it says behind @.
Mentioned(body) == GetUsersByEmails(ExtractMentions(body))

\* Mutant: those who mention themselves are notified of it.
RecipientsWithAuthor(t, k) ==
  LET r == t.comments[k]
      answered == IF r.parent = None THEN {} ELSE {t.comments[r.parent].author}
  IN {<<u, "comment_reply">> : u \in answered \ {r.author}}
       \cup {<<u, "comment_mention">> : u \in Mentioned(r.posted)}

\* Who is to be notified of the new comment k, and why.
Recipients(t, k) ==
  LET r == t.comments[k]
      answered == IF r.parent = None THEN {} ELSE {t.comments[r.parent].author}
  IN {<<u, "comment_reply">> : u \in answered \ {r.author}}
       \cup {<<u, "comment_mention">> : u \in Mentioned(r.posted) \ {r.author}}

-----------------------------------------------------------------------------
(* Posting *)

\* The comment is there; c goes on with the notifications.
Post(c, stored) ==
  LET k == db.next.comments IN
  Execute(c, stored,
    [kind |-> "post", comment |-> k, due |-> Recipients(stored, k), failed |-> FALSE, news |-> {}], Idle)

CreateOn(c) ==
  /\ MayBegin(c, "comments") /\ Spend("comments")
  /\ \E d \in DOMAIN db.documents, author \in Users, body \in SUBSET Mentions :
       Post(c, CreateComment(db, d, None, author, body))

\* Mutant: replies to replies are accepted.
ReplyToAny(c) ==
  \E d \in DOMAIN db.documents, k \in DOMAIN db.comments, author \in Users, body \in SUBSET Mentions :
    Begin(c, "comments", [kind |-> "reply", doc |-> d, parent |-> k, author |-> author, body |-> body,
                          news |-> {}])

\* GetByID of the comment replied to, which is no reply itself; it may be of another document
\* than the one in the url, deleted or resolved.
Reply(c) ==
  \E d \in DOMAIN db.documents, k \in DOMAIN db.comments, author \in Users, body \in SUBSET Mentions :
    /\ db.comments[k].parent = None
    /\ Begin(c, "comments", [kind |-> "reply", doc |-> d, parent |-> k, author |-> author, body |-> body,
                             news |-> {}])

\* The reply is stored, whatever has become of that comment; when it is gone the foreign key
\* refuses it.  Its author, who is told, never changes.
ReplyStore(c) ==
  LET r == requests[c] IN
  /\ r.kind = "reply"
  /\ Post(c, CreateComment(db, r.doc, r.parent, r.author, r.body))
  /\ UNCHANGED quota

\* Mutant: only the first is notified.
NotifyFirstOnly(c) ==
  LET r == requests[c] IN
  /\ r.kind = "post"
  /\ \E p \in r.due :
       LET notice == [user |-> p[1], kind |-> p[2], document |-> db.comments[r.comment].document,
                      comment |-> r.comment, actor |-> db.comments[r.comment].author, read |-> FALSE]
           next == [r EXCEPT !.due = {}]
       IN IF r.comment \in DOMAIN db.comments
            THEN Execute(c, CreateNotification(db, notice), next, next)
            ELSE Go(c, next)
  /\ UNCHANGED quota

\* The next notification: that of the author replied to, then those of the mentioned.  When
\* the comment is gone with its document the foreign keys refuse it.
Notify(c) ==
  LET r == requests[c] IN
  /\ r.kind = "post"
  /\ \E p \in r.due :
       LET notice == [user |-> p[1], kind |-> p[2], document |-> db.comments[r.comment].document,
                      comment |-> r.comment, actor |-> db.comments[r.comment].author, read |-> FALSE]
           next == [r EXCEPT !.due = @ \ {p}]
       IN /\ p[2] = "comment_reply" \/ \A q \in r.due : q[2] # "comment_reply"
          /\ IF r.comment \in DOMAIN db.comments
               THEN Execute(c, CreateNotification(db, notice), next, next)
               ELSE Go(c, next)
  /\ UNCHANGED quota

\* An insert fails, or the lookup of the mentioned users, which takes all of them along.
NotifyFails(c) ==
  LET r == requests[c] IN
  /\ InsertsFail
  /\ r.kind = "post"
  /\ \E lost \in {{p} : p \in r.due} \cup {{p \in r.due : p[2] = "comment_mention"}} :
       /\ lost # {}
       /\ Go(c, [r EXCEPT !.due = @ \ lost, !.failed = TRUE])
  /\ UNCHANGED quota

-----------------------------------------------------------------------------
(* What is done to comments, and to notifications *)

CommentRequest(statement) == Request("moderation", statement)

\* By the author within 15 minutes, or by an admin.  That it is deleted is not asked.
UpdateComment(k, u) ==
  /\ u = db.comments[k].author \/ u \in Admins
  /\ ~db.comments[k].aged \/ u \in Admins
  /\ \E body \in SUBSET Mentions : CommentRequest(UpdateCommentBody(db, k, body))

SoftDelete(k, u) ==
  /\ u = db.comments[k].author \/ u \in Admins
  /\ CommentRequest(SoftDeleteComment(db, k))

\* By anybody, of comments that are no replies.
Resolve(k) == db.comments[k].parent = None /\ CommentRequest(ResolveComment(db, k))
Unresolve(k) == db.comments[k].parent = None /\ CommentRequest(UnresolveComment(db, k))

Age(k) ==
  /\ ~db.comments[k].aged
  /\ db' = [db EXCEPT !.comments[k].aged = TRUE]
  /\ UNCHANGED <<requests, quota>>

NoticeRequest(statement) == Request("moderation", statement)

MarkRead(u) == \E n \in DOMAIN db.notices : NoticeRequest(MarkNotificationRead(db, n, u))
MarkAllRead(u) == NoticeRequest(MarkAllNotificationsRead(db, u))

NotificationStep == \E u \in Users : MarkRead(u) \/ MarkAllRead(u)

CommentStep ==
  \/ \E c \in Clients :
       \/ CreateOn(c) \/ Reply(c) \/ ReplyStore(c)
       \/ Notify(c) \/ NotifyFails(c)
  \/ \E k \in DOMAIN db.comments :
       \/ \E u \in Users : UpdateComment(k, u) \/ SoftDelete(k, u)
       \/ Resolve(k) \/ Unresolve(k) \/ Age(k)

DiscussionStep == CommentStep \/ NotificationStep

-----------------------------------------------------------------------------
(* Properties *)

\* Behind every notification of t is a comment of which its user had to be told, once.
Earned(t) ==
  \A n \in DOMAIN t.notices :
    LET notice == t.notices[n]
        k == t.comments[notice.comment]
    IN /\ notice.document = k.document /\ notice.actor = k.author /\ notice.user # k.author
       /\ IF notice.kind = "comment_reply"
            THEN k.parent # None /\ notice.user = t.comments[k.parent].author
            ELSE notice.user \in Mentioned(k.posted)
       /\ \A m \in DOMAIN t.notices :
            t.notices[m].comment = notice.comment /\ t.notices[m].user = notice.user
              /\ t.notices[m].kind = notice.kind => m = n

\* "When a user is @mentioned in a comment, or when someone replies to their comment, a
\* notification is created" (docs/14-comments.md:224): behind every notification is a comment
\* of the document it names, by its actor, that replies to its user or mentioned him when it
\* was posted, whatever has been edited, deleted or cut short since.  Nobody is told of what
\* he wrote himself, or told twice for the same reason.
NoticesAreEarned == Earned(db)

\* Once the posting of a comment is through without an error, everyone else has a notification
\* of it whose whole e-mail address is a word behind an @ in it (notifyMentions, which goes on
\* after an error), and so has the author it replies to.  That does not say that a mention by
\* an address with an @ of its own finds anybody: no word is such an address.
PostsNotifyAll ==
  \A c \in Clients : requests[c].kind = "post" /\ requests[c].due = {} /\ ~requests[c].failed =>
    LET k == requests[c].comment
        Notified(u, kind) == \E n \in ListNotifications(db, u) :
          db.notices[n].comment = k /\ db.notices[n].kind = kind
    IN k \in DOMAIN db.comments =>
         /\ \A u \in Users \ {db.comments[k].author} :
              (\E said \in db.comments[k].posted : \E i \in DOMAIN said : Email[u] = <<said[i]>>)
                => Notified(u, "comment_mention")
         /\ db.comments[k].parent # None =>
              LET u == db.comments[db.comments[k].parent].author
              IN u = db.comments[k].author \/ Notified(u, "comment_reply")

\* Service.List shows a document's top-level comments and under each its replies.  Together
\* the lists of all documents have every comment, and only top-level ones are resolved.
EveryCommentIsListed ==
  \A k \in DOMAIN db.comments :
    LET top == IF db.comments[k].parent = None THEN k ELSE db.comments[k].parent IN
    /\ \E d \in DOMAIN db.documents : top \in ListCommentsByDocument(db, d)
    /\ k = top \/ (k \in ListCommentReplies(db, top) /\ ~db.comments[k].resolved)
=============================================================================
