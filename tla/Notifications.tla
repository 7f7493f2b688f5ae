----------------------------- MODULE Notifications -----------------------------
(* Who is told of an event of a site: the recipients administrators keep for  *)
(* it, with their categories, and the transaction that queues the messages of *)
(* an event, run again when the job it is part of is.  And the settings those *)
(* messages are sent with: the key of the provider and the token its webhooks *)
(* must present.  A transaction reads what others have committed before each  *)
(* of its statements, and nobody sees its own before it commits.              *)
EXTENDS Naturals, FiniteSets

CONSTANTS
    Calls,          \* requests and jobs under way at once
    Addresses,      \* addresses, as numbers: the order of "ORDER BY recipient.email"
    Categories,     \* what a recipient may subscribe to
    Category,       \* the category of the event
    MaxRecipients,  \* bound: recipients ever added
    MaxOperations,  \* bound: calls, suppressions and lifts
    MaxSecrets      \* bound: keys and tokens entered

NotificationAssumption ==
    /\ Addresses \subseteq Nat \ {0} /\ Addresses # {} /\ Category \in Categories
    /\ {MaxOperations, MaxSecrets} \subseteq Nat /\ MaxRecipients \in Nat \ {0}

VARIABLES
    recipient,      \* site_notification_recipients and their subscriptions
    ids,            \* how many recipients were ever added
    suppressed,     \* the addresses with a suppression that is not lifted
    outbox,         \* the messages of the event in email_outbox
    call,           \* what each call has in hand
    operations,     \* calls so far
    submitted,      \* ghost: what has been saved of each recipient
    gone,           \* ghost: recipients deleted while no save had them in hand
    readdressed,    \* ghost: an address was given up
    configuration,  \* the row of email_provider_configurations
    form,           \* what each administrator is about to store there
    entered,        \* ghost: the key and the token entered last
    overlapped      \* ghost: one was saved while another was being saved

vars == <<recipient, ids, suppressed, outbox, call, operations, submitted, gone, readdressed,
          configuration, form, entered, overlapped>>

Ids == 1 .. MaxRecipients

Recipient == [email : Addresses, enabled : BOOLEAN, categories : SUBSET Categories]

NoRecipient == [email |-> 0, enabled |-> FALSE, categories |-> {}]

\* The key is that of the event and the recipient.
Message == [id : Ids, email : Addresses]

Place == {"idle", "found", "written", "begun", "listed", "checked"}

\* input: what is to be stored of recipient id; todo: the recipients still to be told;
\* always, ever and free: ghosts, who was due a message all the while, who was subscribed
\* at some moment and which addresses were not suppressed at some moment.
IdleCall == [at |-> "idle", id |-> 0, input |-> NoRecipient, todo |-> {}, queued |-> {},
             always |-> {}, ever |-> {}, free |-> {}]

--------------------------------------------------------------------------------
(* Who is due a message *)

Told(recipients, them) == {[id |-> i, email |-> recipients[i].email] : i \in them}

\* Mutant: recipients that are switched off are told as well.
Subscribed(recipients) == Told(recipients, {i \in Ids : Category \in recipients[i].categories})

\* listRecipients of the category, those that are enabled.
Listed(recipients) ==
    Told(recipients, {i \in Ids : recipients[i].enabled /\ Category \in recipients[i].categories})

\* What administrators and recipients asked for.
Due(recipients, barred) ==
    Told(recipients, {i \in Ids : /\ Category \in recipients[i].categories
                                  /\ recipients[i].enabled /\ recipients[i].email \notin barred})

\* Each call that queues messages notes who is due one as recipients change.
Watched(calls, recipients, barred) ==
    [c \in Calls |->
        IF calls[c].at \in {"begun", "listed", "checked"}
        THEN [calls[c] EXCEPT !.always = @ \cap Due(recipients, barred),
                              !.ever = @ \cup Due(recipients, {}),
                              !.free = @ \cup (Addresses \ barred)]
        ELSE calls[c]]

Counts == operations < MaxOperations /\ operations' = operations + 1

settings == <<configuration, form, entered, overlapped>>

--------------------------------------------------------------------------------
(* Saving and deleting recipients *)

\* Rows another transaction has written are locked until it commits.
Locked(c, i) == \E d \in Calls \ {c} : call[d].at = "written" /\ call[d].id = i

\* A recipient that is named must be there; one that is not is added.
SaveRecipient(c) ==
    /\ call[c].at = "idle" /\ Counts
    /\ \E i \in 1 .. ids + 1, input \in Recipient :
          /\ i \in Ids /\ (i <= ids => recipient[i] # NoRecipient) /\ input.categories # {}
          /\ ids' = IF i > ids THEN i ELSE ids
          /\ call' = [call EXCEPT ![c] = [IdleCall EXCEPT !.at = "found", !.id = i, !.input = input]]
          /\ submitted' = [submitted EXCEPT ![i] = @ \cup {input}]
    /\ UNCHANGED <<recipient, suppressed, outbox, gone, readdressed, settings>>

Rivals(c) ==
    {i \in Ids \ {call[c].id} :
        \/ recipient[i].email = call[c].input.email
        \/ \E d \in Calls \ {c} : call[d].at = "written" /\ call[d].id = i
                                  /\ call[d].input.email = call[c].input.email}

\* INSERT ... ON CONFLICT (id) DO UPDATE waits for whoever has written the row or the
\* address; UNIQUE (site_id, email) then refuses an address that is taken.
UpsertRecipient(c) ==
    /\ call[c].at = "found"
    /\ ~Locked(c, call[c].id) /\ \A i \in Rivals(c) : ~Locked(c, i)
    /\ call' = IF Rivals(c) = {} THEN [call EXCEPT ![c].at = "written"] ELSE [call EXCEPT ![c] = IdleCall]
    /\ UNCHANGED <<recipient, ids, suppressed, outbox, operations, submitted, gone, readdressed, settings>>

\* Mutant: categories are added, and none is taken away.
Widened(old, input) == [input EXCEPT !.categories = @ \cup old.categories]

\* replaceRecipientCategories deletes what is there and inserts what was chosen.
Replaced(old, input) == input

CommitRecipient(c) ==
    LET i == call[c].id
        row == Replaced(recipient[i], call[c].input)
        recipients == [recipient EXCEPT ![i] = row] IN
    /\ call[c].at = "written"
    /\ recipient' = recipients
    /\ readdressed' = (readdressed \/ recipient[i].email \notin {0, row.email})
    /\ call' = Watched([call EXCEPT ![c] = IdleCall], recipients, suppressed)
    /\ UNCHANGED <<ids, suppressed, outbox, operations, submitted, gone, settings>>

\* Subscriptions go with the recipient.
DeleteRecipient(c) ==
    /\ call[c].at = "idle" /\ Counts
    /\ \E i \in Ids :
          LET recipients == [recipient EXCEPT ![i] = NoRecipient] IN
          /\ recipient[i] # NoRecipient /\ ~Locked(c, i)
          /\ recipient' = recipients
          /\ gone' = IF \E d \in Calls : call[d].at = "found" /\ call[d].id = i THEN gone ELSE gone \cup {i}
          /\ call' = Watched(call, recipients, suppressed)
    /\ readdressed' = TRUE
    /\ UNCHANGED <<ids, suppressed, outbox, submitted, settings>>

\* A webhook reports a bounce or a complaint.
Suppress(email) ==
    /\ Counts /\ email \notin suppressed
    /\ suppressed' = suppressed \cup {email}
    /\ call' = Watched(call, recipient, suppressed')
    /\ UNCHANGED <<recipient, ids, outbox, submitted, gone, readdressed, settings>>

LiftSuppression(email) ==
    /\ Counts /\ email \in suppressed
    /\ suppressed' = suppressed \ {email}
    /\ call' = Watched(call, recipient, suppressed')
    /\ UNCHANGED <<recipient, ids, outbox, submitted, gone, readdressed, settings>>

--------------------------------------------------------------------------------
(* Queueing the messages of the event *)

unsent == <<recipient, ids, suppressed, submitted, gone, readdressed, settings>>

EnqueueForSite(c) ==
    /\ call[c].at = "idle" /\ Counts
    /\ call' = [call EXCEPT ![c] = [IdleCall EXCEPT !.at = "begun", !.always = Due(recipient, suppressed),
                                        !.ever = Due(recipient, {}), !.free = Addresses \ suppressed]]
    /\ UNCHANGED <<outbox, unsent>>

ListRecipients(c) ==
    /\ call[c].at = "begun"
    /\ call' = [call EXCEPT ![c].at = "listed", ![c].todo = Listed(recipient)]
    /\ UNCHANGED <<outbox, operations, unsent>>

NextToTell(c) == CHOOSE m \in call[c].todo : \A n \in call[c].todo : m.email <= n.email

\* A suppressed recipient is passed over.
CheckSuppressed(c) ==
    /\ call[c].at = "listed" /\ call[c].todo # {}
    /\ call' = IF NextToTell(c).email \in suppressed
               THEN [call EXCEPT ![c].todo = @ \ {NextToTell(c)}]
               ELSE [call EXCEPT ![c].at = "checked"]
    /\ UNCHANGED <<outbox, operations, unsent>>

\* The key finds the message that is queued already, and waits for one being queued.
QueueMessage(c) ==
    /\ call[c].at = "checked"
    /\ \A d \in Calls \ {c} : \A m \in call[d].queued : m.id # NextToTell(c).id
    /\ call' = [call EXCEPT ![c].at = "listed", ![c].todo = @ \ {NextToTell(c)},
                   ![c].queued = IF \E m \in outbox : m.id = NextToTell(c).id THEN @ ELSE @ \cup {NextToTell(c)}]
    /\ UNCHANGED <<outbox, operations, unsent>>

CommitQueued(c) ==
    /\ call[c].at = "listed" /\ call[c].todo = {}
    /\ outbox' = outbox \cup call[c].queued
    /\ call' = [call EXCEPT ![c] = IdleCall]
    /\ UNCHANGED <<operations, unsent>>

\* A transaction is rolled back: it fails, waits in a circle or its process ends.
RollBack(c) ==
    /\ call[c].at # "idle"
    /\ call' = [call EXCEPT ![c] = IdleCall]
    /\ UNCHANGED <<outbox, operations, unsent>>

--------------------------------------------------------------------------------
(* The provider's settings *)

delivery == <<recipient, ids, suppressed, outbox, call, operations, submitted, gone, readdressed>>

\* 0 is NULL, for which the key and the token of the environment stand in.
Secrets == 0 .. MaxSecrets

Closed == [open |-> FALSE, key |-> 0, token |-> 0, newKey |-> FALSE, newToken |-> FALSE]

Latest == LET all == {entered.key, entered.token} IN CHOOSE s \in all : \A t \in all : t <= s

\* Mutant: a field left blank clears what is stored.
BlankClears(stored, secret, filled) == IF filled THEN secret ELSE 0

\* "input.apiKey?.trim() ? encryptSecret(...) : existing?.apiKeyCiphertext ?? null"
Kept(stored, secret, filled) == IF filled THEN secret ELSE stored

ReadProvider(c) ==
    /\ ~form[c].open /\ Latest < MaxSecrets
    /\ \E newKey, newToken \in BOOLEAN :
          form' = [form EXCEPT ![c] = [open |-> TRUE, newKey |-> newKey, newToken |-> newToken,
                      key |-> Kept(configuration.key, Latest + 1, newKey),
                      token |-> Kept(configuration.token, Latest + 1, newToken)]]
    /\ UNCHANGED <<delivery, configuration, entered, overlapped>>

WriteProvider(c) ==
    /\ form[c].open
    /\ configuration' = [key |-> form[c].key, token |-> form[c].token]
    /\ entered' = [key |-> IF form[c].newKey THEN form[c].key ELSE entered.key,
                   token |-> IF form[c].newToken THEN form[c].token ELSE entered.token]
    /\ overlapped' = (overlapped \/ \E d \in Calls \ {c} : form[d].open)
    /\ form' = [form EXCEPT ![c] = Closed]
    /\ UNCHANGED delivery

\* verifyWebhookBearerToken: the stored token, or else that of the environment.
Accepts(supplied) == supplied = configuration.token

\* One recipient was saved before.
FirstRecipient == [email |-> CHOOSE a \in Addresses : TRUE, enabled |-> TRUE, categories |-> Categories]

Init ==
    /\ recipient = [i \in Ids |-> IF i = 1 THEN FirstRecipient ELSE NoRecipient] /\ ids = 1
    /\ suppressed = {} /\ outbox = {}
    /\ call = [c \in Calls |-> IdleCall] /\ operations = 0
    /\ submitted = [i \in Ids |-> IF i = 1 THEN {FirstRecipient} ELSE {}] /\ gone = {} /\ readdressed = FALSE
    /\ configuration = [key |-> 0, token |-> 0]
    /\ form = [c \in Calls |-> Closed]
    /\ entered = [key |-> 0, token |-> 0] /\ overlapped = FALSE

Deliver ==
    \/ \E c \in Calls :
          \/ SaveRecipient(c) \/ UpsertRecipient(c) \/ CommitRecipient(c) \/ DeleteRecipient(c)
          \/ EnqueueForSite(c) \/ ListRecipients(c) \/ CheckSuppressed(c) \/ QueueMessage(c)
          \/ CommitQueued(c) \/ RollBack(c)
    \/ \E email \in Addresses : Suppress(email) \/ LiftSuppression(email)

Configure == \E c \in Calls : ReadProvider(c) \/ WriteProvider(c)

Next == Deliver \/ Configure

Spec == Init /\ [][Next]_vars

--------------------------------------------------------------------------------
(* What is promised *)

\* Recipients, messages and settings have the shape of their tables.
NotificationTypeOK ==
    /\ recipient \in [Ids -> Recipient \cup {NoRecipient}] /\ ids \in 0 .. MaxRecipients
    /\ suppressed \subseteq Addresses /\ outbox \subseteq Message
    /\ \A c \in Calls : call[c].at \in Place /\ call[c].id \in {0} \cup Ids
    /\ configuration \in [key : Secrets, token : Secrets]

\* A recipient is as one save left it, address and categories alike, however saves
\* overlap; no two of a site share an address; and one that was deleted is not back,
\* unless a save had found it before.
RecipientsAreWhole ==
    /\ \A i \in Ids : recipient[i] \in submitted[i] \cup {NoRecipient}
    /\ \A i, j \in Ids : i # j /\ recipient[i].email = recipient[j].email => recipient[i] = NoRecipient
    /\ \A i \in gone : recipient[i] = NoRecipient

\* A call about to commit tells everyone who was due a message at one address from its
\* first moment to its last, and nobody who was subscribed at no moment or whose address
\* was suppressed at every one.
ToldAsWished ==
    \A c \in Calls :
        call[c].at = "listed" /\ call[c].todo = {} =>
            /\ \A due \in call[c].always : \E m \in outbox \cup call[c].queued : m.id = due.id
            /\ \A m \in call[c].queued : m \in call[c].ever /\ m.email \in call[c].free

\* However often the event is reported, a recipient is told once, and an address is
\* told once too, unless it passed from one recipient to another.
ToldOnce ==
    \A m, n \in outbox : m # n => m.id # n.id /\ (m.email = n.email => readdressed)

\* The key that is used and the only token accepted are the ones entered last, for
\* whichever was left blank, unless two administrators saved at once.
SecretsAreKept ==
    ~overlapped => configuration = entered /\ \A t \in Secrets : Accepts(t) => t = entered.token

\* Messages reach whom they should, once, with the settings that were entered.
NotificationsSound ==
    NotificationTypeOK /\ RecipientsAreWhole /\ ToldAsWished /\ ToldOnce /\ SecretsAreKept

================================================================================
