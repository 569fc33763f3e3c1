------------------------------ MODULE Notices ------------------------------
(* Notifications and the changes of login e-mail that send them, in one     *)
(* server process that may end at any step. An event and its deliveries are *)
(* created PENDING in one transaction; each delivery is then settled by the *)
(* same task, after the network call where there is one.                    *)
EXTENDS Sentinel, Naturals, FiniteSets

CONSTANTS
    Addressee,     \* accounts, and those of them that are staff
    OnStaff,
    Address,       \* e-mail addresses
    Task,          \* requests and background jobs under way at a time
    MaxNotices,    \* bound: notifications created
    MaxExits,      \* bound: ends of the server process
    MaxFailures    \* bound: deliveries a statement of which fails

Channel == {"EMAIL", "SMS", "IN_APP"}
ChannelsOf == [EMAIL_CHANGED |-> {"EMAIL"}, CREDENTIALS_ISSUED |-> {"EMAIL"},
               FEE_REMINDER |-> {"SMS", "EMAIL"}]
Kind == DOMAIN ChannelsOf

ASSUME NoticesAssumption ==
    /\ MaxNotices \in Nat \ {0} /\ MaxExits \in Nat /\ MaxFailures \in Nat
    /\ OnStaff \subseteq Addressee
    /\ \A S \in {Addressee, Address, Task, Kind} : Null \notin S

VARIABLES
    mailbox,   \* User.email
    loginOf,   \* User.loginId, but for staff, whose number it is
    event,     \* NotificationEvent rows in order of creation
    delivery,  \* NotificationDelivery per event and channel
    unread,    \* events with no readAt
    server,    \* whether the process takes requests, and how often it ended
    cut,       \* history: events whose task an exit cut off
    failed,    \* history: deliveries a statement of which failed
    mixed,     \* history: accounts two changes of e-mail of which overlapped
    task       \* tasks in progress

noticeVars == <<mailbox, loginOf, event, delivery, unread, server, cut, failed, mixed, task>>

Id == 1 .. MaxNotices
Settled == {"DELIVERED", "SENT", "FAILED"}
Dispatching == {"send", "rest"}   \* "rest": the channels left when one has failed

NoTask == [op |-> "idle", kind |-> Null, user |-> Null, new |-> Null, queue |-> {}, id |-> 0,
           todo |-> {}, out |-> {}, to |-> Null]

NoticesTypeOK ==
    /\ mailbox \in [Addressee -> Address \cup {Null}] /\ loginOf \in [Addressee -> Address \cup {Null}]
    /\ event \in [Id -> [kind : Kind, user : Addressee] \cup {Null}]
    /\ delivery \in [Id \X Channel -> {Null, "PENDING"} \cup Settled]
    /\ unread \subseteq Id /\ cut \subseteq Id /\ failed \subseteq Id \X Channel /\ mixed \subseteq Addressee
    /\ server \in [open : BOOLEAN, exits : 0 .. MaxExits]
    /\ task \in [Task -> [op : {"idle", "post", "send", "rest", "update"}, kind : Kind \cup {Null},
                          user : Addressee \cup {Null}, new : Address \cup {Null},
                          queue : SUBSET Addressee, id : 0 .. MaxNotices, todo : SUBSET Channel,
                          out : SUBSET Channel, to : Address \cup {Null}]]

(* Accounts of `held` exist with the address given; the rest do not yet.    *)
NoticesStart(held) ==
    /\ mailbox = [u \in Addressee |-> IF u \in DOMAIN held THEN held[u] ELSE Null]
    /\ loginOf = [u \in Addressee |-> IF u \in OnStaff THEN Null ELSE mailbox[u]]
    /\ event = [n \in Id |-> Null] /\ delivery = [x \in Id \X Channel |-> Null]
    /\ unread = {} /\ cut = {} /\ failed = {} /\ mixed = {}
    /\ server = [open |-> TRUE, exits |-> 0]
    /\ task = [m \in Task |-> NoTask]

-----------------------------------------------------------------------------
(* Where tasks come from *)

Posted == {n \in Id : event[n] # Null}
Start(m, t) ==
    /\ server.open /\ task[m] = NoTask
    /\ Cardinality(Posted) < MaxNotices   \* bound
    /\ task' = [task EXCEPT ![m] = t]
Taken(x, but) == \E u \in Addressee \ {but} : x \in {mailbox[u], loginOf[u]}
Holders == {u \in Addressee : mailbox[u] # Null}

(* createUser and createParent: the account, then its credentials in the    *)
(* background. Two creations for one address end in the unique index.       *)
CreateAccount(m, u, x) ==
    /\ mailbox[u] = Null /\ u \notin OnStaff /\ ~Taken(x, u)
    /\ mailbox' = [mailbox EXCEPT ![u] = x] /\ loginOf' = [loginOf EXCEPT ![u] = x]
    /\ Start(m, [NoTask EXCEPT !.op = "post", !.kind = "CREDENTIALS_ISSUED", !.user = u])
    /\ UNCHANGED <<event, delivery, unread, server, cut, failed, mixed>>

(* triggerFeeReminders and notifyPaymentConfirmed: the families are read    *)
(* once and told one after another.                                         *)
RemindFamilies(m, U) ==
    /\ U # {} /\ U \subseteq Holders
    /\ \E u \in U : Start(m, [NoTask EXCEPT !.op = "post", !.kind = "FEE_REMINDER", !.user = u,
                                           !.queue = U \ {u}])
    /\ UNCHANGED <<mailbox, loginOf, event, delivery, unread, server, cut, failed, mixed>>

(* updateUserEmail up to its notice: the address is nobody else's.          *)
Changing(m, u) == task[m].user = u /\ task[m].new # Null
ChangeEmail(m, u, x) ==
    /\ u \in Holders /\ ~Taken(x, u)
    /\ Start(m, [NoTask EXCEPT !.op = "post", !.kind = "EMAIL_CHANGED", !.user = u, !.new = x])
    /\ mixed' = IF \E other \in Task : Changing(other, u) THEN mixed \cup {u} ELSE mixed
    /\ UNCHANGED <<mailbox, loginOf, event, delivery, unread, server, cut, failed>>

-----------------------------------------------------------------------------
(* createNotification *)

(* The event and a PENDING delivery for each channel and for IN_APP.        *)
Post(m) ==
    LET t == task[m]  n == Cardinality(Posted) + 1  channels == ChannelsOf[t.kind] \cup {"IN_APP"} IN
    /\ t.op = "post" /\ n \in Id
    /\ event' = [event EXCEPT ![n] = [kind |-> t.kind, user |-> t.user]]
    /\ delivery' = [x \in DOMAIN delivery |-> IF x[1] = n /\ x[2] \in channels THEN "PENDING"
                                              ELSE delivery[x]]
    /\ unread' = unread \cup {n}
    /\ task' = [task EXCEPT ![m].op = "send", ![m].id = n, ![m].todo = channels]
    /\ UNCHANGED <<mailbox, loginOf, server, cut, failed, mixed>>

(* No handler writes User.phone, so an SMS has nowhere to go.               *)
ResolveRecipientAddress(u, c) == IF c = "EMAIL" THEN mailbox[u] ELSE Null

(* A channel without a network call is settled at once.                     *)
Unsent(u, c) ==
    IF c = "IN_APP" THEN "DELIVERED"
    ELSE IF ResolveRecipientAddress(u, c) = Null THEN "FAILED" ELSE "PENDING"
Dispatch(m, c) ==
    LET t == task[m]  s == Unsent(t.user, c) IN
    /\ t.op \in Dispatching /\ c \in t.todo
    /\ delivery' = [delivery EXCEPT ![<<t.id, c>>] = s]
    /\ task' = [task EXCEPT ![m].todo = @ \ {c},
                            ![m].out = IF s = "PENDING" THEN @ \cup {c} ELSE @,
                            ![m].to = IF c = "EMAIL" THEN mailbox[t.user] ELSE @]
    /\ UNCHANGED <<mailbox, loginOf, event, unread, server, cut, failed, mixed>>

RecordedIfSent(verdict) == IF verdict = "SENT" THEN "SENT" ELSE "PENDING"

(* The provider answers, and the row takes its verdict. Between the two the *)
(* task alone knows the answer; that the update fails is DeliveryFails.     *)
Recorded(verdict) == verdict

ProviderAnswers(m, c, verdict) ==
    LET t == task[m] IN
    /\ c \in t.out
    /\ delivery' = [delivery EXCEPT ![<<t.id, c>>] = Recorded(verdict)]
    /\ task' = [task EXCEPT ![m].out = @ \ {c}]
    /\ UNCHANGED <<mailbox, loginOf, event, unread, server, cut, failed, mixed>>

NoneAwaited(t) == t.op = "send"

(* What follows once every delivery is settled: the next family, the change *)
(* of address, or nothing; nothing, too, when one of them has failed.       *)
AllAwaited(t) == t.todo = {} /\ t.out = {}

Continue(m) ==
    LET t == task[m] IN
    /\ t.op \in Dispatching /\ AllAwaited(t)
    /\ IF t.kind = "EMAIL_CHANGED" THEN task' = [task EXCEPT ![m].op = "update"]
       ELSE IF t.queue = {} THEN task' = [task EXCEPT ![m] = NoTask]
       ELSE \E u \in t.queue :
               task' = [task EXCEPT ![m].op = "post", ![m].user = u, ![m].queue = @ \ {u}]
    /\ UNCHANGED <<mailbox, loginOf, event, delivery, unread, server, cut, failed, mixed>>

(* The update, then reissueCredentialsForUser, whose notice goes to the new *)
(* address. An address taken meanwhile fails the unique index.              *)
UpdateEmail(m) ==
    LET t == task[m]  u == t.user IN
    /\ t.op = "update"
    /\ IF Taken(t.new, u) THEN task' = [task EXCEPT ![m] = NoTask] /\ UNCHANGED <<mailbox, loginOf>>
       ELSE /\ mailbox' = [mailbox EXCEPT ![u] = t.new]
            /\ loginOf' = IF u \in OnStaff THEN loginOf ELSE [loginOf EXCEPT ![u] = t.new]
            /\ task' = [task EXCEPT ![m] = [NoTask EXCEPT !.op = "post", !.user = u,
                                               !.kind = "CREDENTIALS_ISSUED"]]
    /\ UNCHANGED <<event, delivery, unread, server, cut, failed, mixed>>

(* A statement fails: the lookup of the address, the call, or the update of *)
(* a delivery, whose row stays as it was. Promise.all rejects, and whoever  *)
(* awaits it goes no further: no family more is told, no address replaced.  *)
(* The other channels run on by themselves.                                 *)
DeliveryFails(m, c) ==
    LET t == task[m] IN
    /\ t.op \in Dispatching /\ c \in t.todo \cup t.out
    /\ Cardinality(failed) < MaxFailures   \* bound
    /\ failed' = failed \cup {<<t.id, c>>}
    /\ task' = [task EXCEPT ![m] = [NoTask EXCEPT !.op = "rest", !.user = t.user, !.id = t.id,
                                       !.todo = t.todo \ {c}, !.out = t.out \ {c}]]
    /\ UNCHANGED <<mailbox, loginOf, event, delivery, unread, server, cut, mixed>>

(* The transaction that creates the event fails, or the update of the       *)
(* address: nothing is written.                                             *)
RequestFails(m) ==
    /\ task[m].op \in {"post", "update"}
    /\ task' = [task EXCEPT ![m] = NoTask]
    /\ UNCHANGED <<mailbox, loginOf, event, delivery, unread, server, cut, failed, mixed>>

-----------------------------------------------------------------------------
(* Reading *)

MarkRead(N) ==
    /\ unread' = unread \ N
    /\ UNCHANGED <<mailbox, loginOf, event, delivery, server, cut, failed, mixed, task>>
MarkNotificationRead(n) == n \in unread /\ MarkRead({n})
MarkAllNotificationsRead(u) ==
    LET mine == {n \in Posted : event[n].user = u} IN mine \cap unread # {} /\ MarkRead(mine)

-----------------------------------------------------------------------------
(* The process. SIGTERM closes it to new requests; it ends when those under *)
(* way are answered or ten seconds have passed, waits for no background     *)
(* task, and may be killed at any time. A new process takes over.           *)

Shutdown ==
    /\ server.open /\ server.exits < MaxExits
    /\ server' = [server EXCEPT !.open = FALSE]
    /\ UNCHANGED <<mailbox, loginOf, event, delivery, unread, cut, failed, mixed, task>>
CutOff == {task[m].id : m \in {k \in Task : task[k].op \in Dispatching}}
Exit ==
    /\ server.exits < MaxExits
    /\ server' = [open |-> TRUE, exits |-> server.exits + 1]
    /\ cut' = cut \cup CutOff
    /\ task' = [m \in Task |-> NoTask]
    /\ UNCHANGED <<mailbox, loginOf, event, delivery, unread, failed, mixed>>

TaskStep(m) ==
    \/ Post(m) \/ Continue(m) \/ UpdateEmail(m)
    \/ \E c \in Channel : Dispatch(m, c)
    \/ \E v \in {"SENT", "FAILED"} : ProviderAnswers(m, "EMAIL", v)

TaskFails(m) == RequestFails(m) \/ \E c \in Channel : DeliveryFails(m, c)

(* Accounts and their addresses; and, by the tasks of M, families and their *)
(* inboxes.                                                                 *)
MailNext ==
    \/ \E m \in Task :
          \/ \E u \in Addressee, x \in Address : CreateAccount(m, u, x) \/ ChangeEmail(m, u, x)
          \/ TaskStep(m) \/ TaskFails(m)
    \/ Shutdown \/ Exit

InboxNext(M) ==
    \/ \E m \in M : TaskStep(m) \/ TaskFails(m) \/ \E U \in SUBSET Addressee : RemindFamilies(m, U)
    \/ \E n \in Id : MarkNotificationRead(n)
    \/ \E u \in Addressee : MarkAllNotificationsRead(u)
    \/ Shutdown \/ Exit

(* The event loop runs a task whose await has settled, and the provider's   *)
(* client settles every call, with an answer or an error. No step has to    *)
(* fail.                                                                    *)
NoticesFairness == \A m \in Task : WF_noticeVars(TaskStep(m))

-----------------------------------------------------------------------------
(* Properties *)

(* Deliveries announced as PENDING are settled, whatever becomes of the     *)
(* other channels of the same notice: again and again there is a moment at  *)
(* which only those are left of which a statement failed, or whose task was *)
(* sending when the process ended. Nothing resumes these                    *)
(* (notifications.service.ts:192-274, gracefulShutdown.ts:23-43).           *)
EveryDeliverySettles ==
    []<>(\A n \in Id, c \in Channel : delivery[<<n, c>>] = "PENDING" => n \in cut \/ <<n, c>> \in failed)

(* An account's e-mail is never replaced before the provider has answered   *)
(* for a notice to the very address being replaced, unless another change   *)
(* of the same account was under way. An answer of FAILED counts: the code  *)
(* does not look at it (users.service.ts:366-424).                          *)
ChangeIsAnnounced ==
    [][\A u \in Addressee : mailbox[u] # Null /\ mailbox'[u] # mailbox[u] =>
          \/ u \in mixed
          \/ \E m \in Task : task[m].op = "update" /\ task[m].user = u /\ task[m].to = mailbox[u]
      ]_noticeVars
=============================================================================
