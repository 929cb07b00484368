------------------------------ MODULE Platform ------------------------------
(***************************************************************************)
(* Platform webhooks and platform subscriptions of one tenant: where it is *)
(* told about events of the platform itself, and about which of them.      *)
(*                                                                         *)
(* create counts the webhooks and then inserts, without a lock between the *)
(* two.  replace deletes and inserts in one READ COMMITTED transaction:    *)
(* its DELETE finds the rows committed when it starts and waits for those  *)
(* that another transaction is deleting; a row inserted since is not seen. *)
(* An INSERT waits for a row of the same key that is being deleted.        *)
(***************************************************************************)
EXTENDS Naturals, FiniteSets

CONSTANTS
    Webhooks, Creators, Rotations,
    EventTypes,      \* the platform_event_types table, which nothing writes
    Requested,       \* sets of ids that requests may name; some do not exist
    Replacers,
    MaxWebhooks,     \* MAX_WEBHOOKS_PER_TENANT
    Budgets          \* bounds on the operations of each kind; one is in force

Operations == {"create", "manage", "subscribe", "replace", "fault"}

ASSUME PlatformAssumption ==
    /\ IsFiniteSet(Webhooks) /\ IsFiniteSet(Creators) /\ Creators # {}
    /\ MaxWebhooks \in Nat \ {0}
    /\ Budgets \subseteq [Operations -> Nat]

VARIABLES
    webhook,     \* the platform_webhooks table
    creator,     \* state of each request that creates a webhook
    rotation,    \* the webhook of each request that rotates a secret
    subs,        \* the platform_webhook_subscriptions table
    replacer,    \* state of each request that replaces the subscriptions
    left,        \* what is left of the budget
    asked,       \* history: the subscriptions, were requests carried out one by one as they commit
    mixed        \* history: the last replace to commit had rows inserted under it

vars == <<webhook, creator, rotation, subs, replacer, left, asked, mixed>>
webhooks == <<webhook, creator, rotation>>
subscriptions == <<subs, replacer, asked, mixed>>

\* secret counts the secrets a webhook has had.
WebhookRows == [status: {"none", "active", "suspended", "deleted"}, secret: Nat]
ReplacerStates ==
    [pc: {"idle", "delete", "wait", "insert"}, ids: SUBSET EventTypes, rows: SUBSET EventTypes, alone: BOOLEAN]
IdleReplacer == [pc |-> "idle", ids |-> {}, rows |-> {}, alone |-> FALSE]

TypeOK ==
    /\ webhook \in [Webhooks -> WebhookRows]
    /\ creator \in [Creators -> {"idle", "insert"}]
    /\ rotation \in [Rotations -> SUBSET Webhooks]
    /\ subs \subseteq EventTypes
    /\ replacer \in [Replacers -> ReplacerStates]
    /\ left \in [Operations -> Nat]
    /\ asked \subseteq EventTypes /\ mixed \in BOOLEAN

Init ==
    /\ webhook = [w \in Webhooks |-> [status |-> "none", secret |-> 0]]
    /\ creator = [c \in Creators |-> "idle"]
    /\ rotation = [r \in Rotations |-> {}]
    /\ subs = {}
    /\ replacer = [p \in Replacers |-> IdleReplacer]
    /\ left \in Budgets
    /\ asked = {} /\ mixed = FALSE

Spend(kind) == left[kind] > 0 /\ left' = [left EXCEPT ![kind] = @ - 1]

(***************************************************************************)
(* Webhooks                                                                *)
(***************************************************************************)
Listed == {w \in Webhooks : webhook[w].status \in {"active", "suspended"}}

\* Broken variant: count > MAX instead of count >= MAX.
WithinLimitOrAt == Cardinality(Listed) <= MaxWebhooks

WithinLimit == Cardinality(Listed) < MaxWebhooks

\* Over the limit it is a BadRequest.
CreateWebhook(c) ==
    /\ creator[c] = "idle" /\ WithinLimit
    /\ Spend("create")
    /\ creator' = [creator EXCEPT ![c] = "insert"]
    /\ UNCHANGED <<webhook, rotation, subscriptions>>

\* Broken variant: inserted in the state the request was in.
InsertWebhookPending(c, w) ==
    /\ creator[c] = "insert" /\ webhook[w].status = "none"
    /\ webhook' = [webhook EXCEPT ![w] = [status |-> "pending", secret |-> 1]]
    /\ creator' = [creator EXCEPT ![c] = "idle"]
    /\ UNCHANGED <<rotation, left, subscriptions>>

InsertWebhook(c, w) ==
    /\ creator[c] = "insert" /\ webhook[w].status = "none"
    /\ webhook' = [webhook EXCEPT ![w] = [status |-> "active", secret |-> 1]]
    /\ creator' = [creator EXCEPT ![c] = "idle"]
    /\ UNCHANGED <<rotation, left, subscriptions>>

\* Another webhook of that name, or the database fails.
InsertWebhookFails(c) ==
    /\ creator[c] = "insert"
    /\ Spend("fault")
    /\ creator' = [creator EXCEPT ![c] = "idle"]
    /\ UNCHANGED <<webhook, rotation, subscriptions>>

SetWebhook(w, s) ==
    /\ w \in Listed
    /\ Spend("manage")
    /\ webhook' = [webhook EXCEPT ![w].status = s]
    /\ UNCHANGED <<creator, rotation, subscriptions>>
Suspend(w) == SetWebhook(w, "suspended")
Activate(w) == SetWebhook(w, "active")
Delete(w) == SetWebhook(w, "deleted")

\* The tenant is looked up to encrypt the new secret for it.
Rotate(r, w) ==
    /\ rotation[r] = {} /\ w \in Listed
    /\ Spend("manage")
    /\ rotation' = [rotation EXCEPT ![r] = {w}]
    /\ UNCHANGED <<webhook, creator, subscriptions>>

\* NotFound when it was deleted meanwhile
StoreSecret(r, w) ==
    /\ w \in rotation[r]
    /\ webhook' = IF w \in Listed THEN [webhook EXCEPT ![w].secret = @ + 1] ELSE webhook
    /\ rotation' = [rotation EXCEPT ![r] = {}]
    /\ UNCHANGED <<creator, left, subscriptions>>

(***************************************************************************)
(* Subscriptions                                                           *)
(***************************************************************************)
ValidIds(ids) == ids \cap EventTypes
\* Rows that a transaction has deleted and not committed.
Held(p) == IF replacer[p].pc = "insert" THEN replacer[p].rows ELSE {}
BeingDeleted == UNION {Held(p) : p \in Replacers}

\* ON CONFLICT DO NOTHING, after the count of those already there, which is
\* only for the answer
Subscribe(ids) ==
    /\ ValidIds(ids) # {} /\ ValidIds(ids) \cap BeingDeleted = {}
    /\ Spend("subscribe")
    /\ subs' = subs \cup ValidIds(ids) /\ asked' = asked \cup ValidIds(ids)
    /\ replacer' = [q \in Replacers |-> [replacer[q] EXCEPT !.alone = @ /\ ValidIds(ids) \subseteq subs]]
    /\ UNCHANGED <<webhooks, mixed>>

\* One that waits for a row to be deleted finds nothing to delete after.
Unsubscribe(t) ==
    /\ t \in subs \ BeingDeleted
    /\ Spend("subscribe")
    /\ subs' = subs \ {t} /\ asked' = asked \ {t}
    /\ replacer' = [q \in Replacers |-> [replacer[q] EXCEPT !.rows = @ \ {t}]]
    /\ UNCHANGED <<webhooks, mixed>>

Replace(p, ids) ==
    /\ replacer[p].pc = "idle"
    /\ Spend("replace")
    /\ replacer' = [replacer EXCEPT ![p] = [IdleReplacer EXCEPT !.pc = "delete", !.ids = ValidIds(ids)]]
    /\ UNCHANGED <<webhooks, subs, asked, mixed>>

StartDelete(p) ==
    /\ replacer[p].pc = "delete"
    /\ replacer' = [replacer EXCEPT ![p] = [replacer[p] EXCEPT !.pc = "wait", !.rows = subs, !.alone = TRUE]]
    /\ UNCHANGED <<webhooks, subs, left, asked, mixed>>

\* Once nobody else is deleting its rows; those that are gone are skipped,
\* also when a new row has their key.
FinishDelete(p) ==
    /\ replacer[p].pc = "wait"
    /\ replacer[p].rows \cap BeingDeleted = {}
    /\ replacer' = [replacer EXCEPT ![p].pc = "insert"]
    /\ UNCHANGED <<webhooks, subs, left, asked, mixed>>

\* Broken variant: the INSERT first; what stays subscribed is deleted after.
ReplacedInsertFirst(p) == (subs \cup replacer[p].ids) \ replacer[p].rows

Replaced(p) == (subs \ replacer[p].rows) \cup replacer[p].ids

InsertNewSet(p) ==
    /\ replacer[p].pc = "insert"
    /\ replacer[p].ids \cap UNION {Held(q) : q \in Replacers \ {p}} = {}
    /\ subs' = Replaced(p) /\ asked' = replacer[p].ids
    /\ mixed' = ~replacer[p].alone
    /\ replacer' = [q \in Replacers |->
                       IF q = p THEN IdleReplacer
                       ELSE [replacer[q] EXCEPT !.alone = @ /\ replacer[p].ids = {}, !.rows = @ \ replacer[p].rows]]
    /\ UNCHANGED <<webhooks, left>>

\* A statement fails, two transactions wait for each other's rows, or the
\* server dies: rolled back.
ReplaceFails(p) ==
    /\ replacer[p].pc # "idle"
    /\ Spend("fault")
    /\ replacer' = [replacer EXCEPT ![p] = IdleReplacer]
    /\ UNCHANGED <<webhooks, subs, asked, mixed>>

Next ==
    \/ \E c \in Creators : CreateWebhook(c) \/ InsertWebhookFails(c) \/ \E w \in Webhooks : InsertWebhook(c, w)
    \/ \E w \in Webhooks : Suspend(w) \/ Activate(w) \/ Delete(w)
    \/ \E r \in Rotations, w \in Webhooks : Rotate(r, w) \/ StoreSecret(r, w)
    \/ \E ids \in Requested : Subscribe(ids)
    \/ \E t \in EventTypes : Unsubscribe(t)
    \/ \E p \in Replacers : StartDelete(p) \/ FinishDelete(p) \/ InsertNewSet(p) \/ ReplaceFails(p)
    \/ \E p \in Replacers, ids \in Requested : Replace(p, ids)

Spec == Init /\ [][Next]_vars

(***************************************************************************)
(* Properties                                                              *)
(***************************************************************************)

\* Creates that count at the same time can pass the limit together, but by
\* no more than the number of requests that can be under way, less one: the
\* overshoot does not build up over any sequence of creates and deletes.
OvershootIsBounded == Cardinality(Listed) < MaxWebhooks + Cardinality(Creators)

\* What requests asked for is there in any case, also when replace finds
\* types subscribed that it subscribes again; and it is all that is there,
\* as the comment on replace has it ("atomically"), unless a row was
\* inserted between the DELETE and the commit of the last replace.
SubscribedAsAsked == asked \subseteq subs /\ (~mixed => subs = asked)
=============================================================================
