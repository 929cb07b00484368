--------------------------- MODULE Platform_proofs ---------------------------
(***************************************************************************)
(* The properties of Platform, proved for every number of webhooks, event  *)
(* types and requests and every limit.                                     *)
(*                                                                         *)
(* OvershootIsBounded is not inductive: a state with the bound reached and *)
(* another create about to insert would break it.  LimitInv counts those   *)
(* creates with the webhooks.  SubscribedAsAsked needs to know what a      *)
(* replace has found to delete: rows that are still there and, if none was *)
(* inserted since, all that are there (RowsInv).                           *)
(***************************************************************************)
EXTENDS Platform, FiniteSetTheorems, TLAPS

Inserting == {c \in Creators : creator[c] = "insert"}

LimitInv == Cardinality(Listed) + Cardinality(Inserting) < MaxWebhooks + Cardinality(Creators)

RowsInv ==
    \A p \in Replacers :
        /\ replacer[p].rows \subseteq subs
        /\ replacer[p].alone => replacer[p].rows = subs

PlatformInv == TypeOK /\ LimitInv /\ RowsInv /\ SubscribedAsAsked

WebhookStep ==
    \/ \E c \in Creators : CreateWebhook(c) \/ InsertWebhookFails(c) \/ \E w \in Webhooks : InsertWebhook(c, w)
    \/ \E w \in Webhooks, s \in {"active", "suspended", "deleted"} : SetWebhook(w, s)
    \/ \E r \in Rotations, w \in Webhooks : Rotate(r, w) \/ StoreSecret(r, w)

SubscriptionStep ==
    \/ \E ids \in Requested : Subscribe(ids)
    \/ \E t \in EventTypes : Unsubscribe(t)
    \/ \E p \in Replacers : StartDelete(p) \/ FinishDelete(p) \/ InsertNewSet(p) \/ ReplaceFails(p)
    \/ \E p \in Replacers, ids \in Requested : Replace(p, ids)

\* A step is one of the webhook handlers or one of the subscription handlers,
\* and neither touches the tables of the other.
LEMMA TwoKinds ==
  ASSUME [Next]_vars
  PROVE  \/ WebhookStep /\ UNCHANGED subscriptions
         \/ SubscriptionStep /\ UNCHANGED webhooks
         \/ UNCHANGED vars
<1>1. ASSUME Next PROVE WebhookStep \/ SubscriptionStep
  BY <1>1 DEF Next, WebhookStep, SubscriptionStep, Suspend, Activate, Delete
<1>2. ASSUME WebhookStep PROVE UNCHANGED subscriptions
  BY Zenon, <1>2 DEF WebhookStep, CreateWebhook, InsertWebhookFails, InsertWebhook, SetWebhook, Rotate, StoreSecret, subscriptions
<1>3. ASSUME SubscriptionStep PROVE UNCHANGED webhooks
  BY Zenon, <1>3 DEF SubscriptionStep, Subscribe, Unsubscribe, StartDelete, FinishDelete, InsertNewSet, ReplaceFails, Replace, webhooks
<1> QED
  BY <1>1, <1>2, <1>3

\* The handlers of webhooks write rows of the type of the table.
LEMMA WebhookTypes ==
  ASSUME TypeOK, WebhookStep
  PROVE  /\ webhook' \in [Webhooks -> WebhookRows]
         /\ creator' \in [Creators -> {"idle", "insert"}]
         /\ rotation' \in [Rotations -> SUBSET Webhooks]
         /\ left' \in [Operations -> Nat]
<1>1. left' \in [Operations -> Nat]
  BY DEF TypeOK, WebhookStep, CreateWebhook, InsertWebhookFails, InsertWebhook, SetWebhook, Rotate, StoreSecret, Spend, Operations
<1>2. creator' \in [Creators -> {"idle", "insert"}]
  BY DEF TypeOK, WebhookStep, CreateWebhook, InsertWebhookFails, InsertWebhook, SetWebhook, Rotate, StoreSecret
<1>3. rotation' \in [Rotations -> SUBSET Webhooks]
  BY DEF TypeOK, WebhookStep, CreateWebhook, InsertWebhookFails, InsertWebhook, SetWebhook, Rotate, StoreSecret
<1>4. webhook' \in [Webhooks -> WebhookRows]
  <2>1. ASSUME NEW c \in Creators, NEW w \in Webhooks, InsertWebhook(c, w) PROVE webhook' \in [Webhooks -> WebhookRows]
    <3>1. [status |-> "active", secret |-> 1] \in WebhookRows
      BY DEF WebhookRows
    <3> QED
      BY <2>1, <3>1 DEF InsertWebhook, TypeOK
  <2>2. ASSUME NEW w \in Webhooks, NEW s \in {"active", "suspended", "deleted"}, SetWebhook(w, s) PROVE webhook' \in [Webhooks -> WebhookRows]
    <3>1. [webhook[w] EXCEPT !.status = s] \in WebhookRows
      BY DEF TypeOK, WebhookRows
    <3> QED
      BY <2>2, <3>1 DEF SetWebhook, TypeOK
  <2>3. ASSUME NEW r \in Rotations, NEW w \in Webhooks, StoreSecret(r, w) PROVE webhook' \in [Webhooks -> WebhookRows]
    <3>1. [webhook[w] EXCEPT !.secret = webhook[w].secret + 1] \in WebhookRows
      BY DEF TypeOK, WebhookRows
    <3> QED
      BY <2>3, <3>1 DEF StoreSecret, TypeOK
  <2> QED
    BY <2>1, <2>2, <2>3 DEF WebhookStep, CreateWebhook, InsertWebhookFails, Rotate, TypeOK
<1> QED
  BY <1>1, <1>2, <1>3, <1>4

\* The handlers of subscriptions write rows and requests of their type.
LEMMA SubscriptionTypes ==
  ASSUME TypeOK, SubscriptionStep
  PROVE  /\ subs' \subseteq EventTypes /\ asked' \subseteq EventTypes /\ mixed' \in BOOLEAN
         /\ replacer' \in [Replacers -> ReplacerStates]
         /\ left' \in [Operations -> Nat]
<1>1. left' \in [Operations -> Nat]
  <2>1. left' = left \/ \E kind \in Operations : Spend(kind)
    BY Zenon DEF SubscriptionStep, Subscribe, Unsubscribe, StartDelete, FinishDelete, InsertNewSet, ReplaceFails, Replace, Operations
  <2> QED
    BY SMTT(30), <2>1 DEF TypeOK, Spend
<1>2. subs' \subseteq EventTypes /\ asked' \subseteq EventTypes /\ mixed' \in BOOLEAN
  <2>1. ASSUME NEW ids \in Requested, Subscribe(ids) PROVE subs' \subseteq EventTypes /\ asked' \subseteq EventTypes /\ mixed' \in BOOLEAN
    BY <2>1 DEF TypeOK, Subscribe, ValidIds
  <2>2. ASSUME NEW t \in EventTypes, Unsubscribe(t) PROVE subs' \subseteq EventTypes /\ asked' \subseteq EventTypes /\ mixed' \in BOOLEAN
    BY Zenon, <2>2 DEF TypeOK, Unsubscribe
  <2>3. ASSUME NEW p \in Replacers, InsertNewSet(p) PROVE subs' \subseteq EventTypes /\ asked' \subseteq EventTypes /\ mixed' \in BOOLEAN
    <3>1. replacer[p].ids \subseteq EventTypes /\ replacer[p].alone \in BOOLEAN
      BY DEF TypeOK, ReplacerStates
    <3> QED
      BY Zenon, <2>3, <3>1 DEF TypeOK, InsertNewSet, Replaced
  <2> QED
    BY Zenon, <2>1, <2>2, <2>3 DEF TypeOK, SubscriptionStep, StartDelete, FinishDelete, ReplaceFails, Replace
<1>3. replacer' \in [Replacers -> ReplacerStates]
  <2>1. IdleReplacer \in ReplacerStates
    BY DEF IdleReplacer, ReplacerStates
  <2>2. ASSUME NEW q \in Replacers, NEW T, NEW b \in BOOLEAN
        PROVE  /\ [replacer[q] EXCEPT !.alone = b] \in ReplacerStates
               /\ [replacer[q] EXCEPT !.rows = replacer[q].rows \ T] \in ReplacerStates
               /\ [replacer[q] EXCEPT !.alone = b, !.rows = replacer[q].rows \ T] \in ReplacerStates
               /\ [replacer[q] EXCEPT !.pc = "insert"] \in ReplacerStates
               /\ [replacer[q] EXCEPT !.pc = "wait", !.rows = subs, !.alone = TRUE] \in ReplacerStates
    <3>1. replacer[q] \in ReplacerStates /\ subs \subseteq EventTypes
      BY DEF TypeOK
    <3> QED
      BY Zenon, <3>1 DEF ReplacerStates
  <2>3. ASSUME NEW ids PROVE [IdleReplacer EXCEPT !.pc = "delete", !.ids = ValidIds(ids)] \in ReplacerStates
    BY Zenon DEF IdleReplacer, ReplacerStates, ValidIds
  <2>4. ASSUME NEW ids \in Requested, Subscribe(ids) PROVE replacer' \in [Replacers -> ReplacerStates]
    <3>1. \A q \in Replacers : [replacer[q] EXCEPT !.alone = replacer[q].alone /\ ValidIds(ids) \subseteq subs] \in ReplacerStates
      BY Zenon, <2>2
    <3> QED
      BY <2>4, <3>1 DEF Subscribe
  <2>5. ASSUME NEW t \in EventTypes, Unsubscribe(t) PROVE replacer' \in [Replacers -> ReplacerStates]
    <3>1. \A q \in Replacers : [replacer[q] EXCEPT !.rows = replacer[q].rows \ {t}] \in ReplacerStates
      BY Zenon, <2>2
    <3> QED
      BY Zenon, <2>5, <3>1 DEF Unsubscribe
  <2>6. ASSUME NEW p \in Replacers, InsertNewSet(p) PROVE replacer' \in [Replacers -> ReplacerStates]
    <3>1. \A q \in Replacers : [replacer[q] EXCEPT !.alone = replacer[q].alone /\ replacer[p].ids = {},
                                                  !.rows = replacer[q].rows \ replacer[p].rows] \in ReplacerStates
      BY Zenon, <2>2
    <3> QED
      BY Zenon, <2>1, <2>6, <3>1 DEF InsertNewSet
  <2>7. ASSUME NEW p \in Replacers, StartDelete(p) \/ FinishDelete(p) \/ ReplaceFails(p) PROVE replacer' \in [Replacers -> ReplacerStates]
    <3>1. \E s \in ReplacerStates : replacer' = [replacer EXCEPT ![p] = s]
      <4>1. CASE StartDelete(p)
        BY Zenon, <2>2, <4>1 DEF StartDelete
      <4>2. CASE FinishDelete(p)
        BY Zenon, <2>2, <4>2 DEF FinishDelete
      <4>3. CASE ReplaceFails(p)
        BY Zenon, <2>1, <4>3 DEF ReplaceFails
      <4> QED
        BY Zenon, <2>7, <4>1, <4>2, <4>3
    <3> QED
      BY <3>1 DEF TypeOK
  <2>8. ASSUME NEW p \in Replacers, NEW ids \in Requested, Replace(p, ids) PROVE replacer' \in [Replacers -> ReplacerStates]
    <3>1. \E s \in ReplacerStates : replacer' = [replacer EXCEPT ![p] = s]
      BY Zenon, <2>3, <2>8 DEF Replace
    <3> QED
      BY <3>1 DEF TypeOK
  <2> QED
    BY <2>4, <2>5, <2>6, <2>7, <2>8 DEF SubscriptionStep
<1> QED
  BY <1>1, <1>2, <1>3

\* The listed webhooks and the creates about to insert are finitely many.
LEMMA Counts ==
  ASSUME TypeOK
  PROVE  /\ IsFiniteSet(Listed) /\ Cardinality(Listed) \in Nat
         /\ IsFiniteSet(Inserting) /\ Cardinality(Inserting) \in Nat
         /\ Cardinality(Inserting) <= Cardinality(Creators) /\ Cardinality(Creators) \in Nat
<1>1. Listed \subseteq Webhooks /\ Inserting \subseteq Creators
  BY DEF Listed, Inserting
<1> QED
  BY <1>1, FS_Subset, FS_CardinalityType, PlatformAssumption

\* The limit is kept, counting the creates that passed the check: only
\* CreateWebhook adds to them, and only below the limit.
LEMMA LimitStep ==
  ASSUME TypeOK, LimitInv, WebhookStep
  PROVE  LimitInv'
<1>1. ASSUME NEW c \in Creators, CreateWebhook(c) PROVE LimitInv'
  <2>1. Listed' = Listed
    BY <1>1 DEF CreateWebhook, Listed
  <2>2. Inserting' \subseteq Creators
    BY DEF Inserting
  <2>3. IsFiniteSet(Inserting') /\ Cardinality(Inserting') <= Cardinality(Creators) /\ Cardinality(Inserting') \in Nat
    BY <2>2, FS_Subset, FS_CardinalityType, PlatformAssumption
  <2> QED
    BY <1>1, <2>1, <2>3, Counts, PlatformAssumption DEF CreateWebhook, WithinLimit, LimitInv
<1>2. ASSUME NEW c \in Creators, creator[c] = "insert", creator' = [creator EXCEPT ![c] = "idle"]
      PROVE  Cardinality(Inserting') = Cardinality(Inserting) - 1
  <2>1. Inserting' = Inserting \ {c} /\ c \in Inserting
    BY <1>2 DEF Inserting, TypeOK
  <2> QED
    BY Zenon, <2>1, Counts, FS_RemoveElement
<1>3. ASSUME NEW c \in Creators, InsertWebhookFails(c) PROVE LimitInv'
  <2>1. Listed' = Listed /\ Cardinality(Inserting') = Cardinality(Inserting) - 1
    BY Zenon, <1>2, <1>3 DEF InsertWebhookFails, Listed
  <2> QED
    BY <2>1, Counts, PlatformAssumption DEF LimitInv
<1>4. ASSUME NEW c \in Creators, NEW w \in Webhooks, InsertWebhook(c, w) PROVE LimitInv'
  <2>1. Listed' = Listed \cup {w} /\ w \notin Listed
    BY <1>4 DEF InsertWebhook, Listed, TypeOK
  <2>2. Cardinality(Listed') = Cardinality(Listed) + 1
    BY Zenon, <2>1, Counts, FS_AddElement
  <2>3. Cardinality(Inserting') = Cardinality(Inserting) - 1
    BY Zenon, <1>2, <1>4 DEF InsertWebhook
  <2> QED
    BY <2>2, <2>3, Counts, PlatformAssumption DEF LimitInv
<1>5. ASSUME Inserting' = Inserting, Listed' \subseteq Listed PROVE LimitInv'
  <2>1. Cardinality(Listed') <= Cardinality(Listed) /\ Cardinality(Listed') \in Nat
    BY <1>5, Counts, FS_Subset, FS_CardinalityType
  <2> QED
    BY <1>5, <2>1, Counts, PlatformAssumption DEF LimitInv
<1>6. ASSUME NEW w \in Webhooks, NEW s \in {"active", "suspended", "deleted"}, SetWebhook(w, s) PROVE LimitInv'
  <2>1. Inserting' = Inserting /\ Listed' \subseteq Listed
    BY <1>6 DEF SetWebhook, Inserting, Listed, TypeOK, WebhookRows
  <2> QED
    BY <1>5, <2>1
<1>7. ASSUME NEW r \in Rotations, NEW w \in Webhooks, Rotate(r, w) \/ StoreSecret(r, w) PROVE LimitInv'
  <2>1. Inserting' = Inserting /\ Listed' \subseteq Listed
    BY <1>7 DEF Rotate, StoreSecret, Inserting, Listed, TypeOK, WebhookRows
  <2> QED
    BY <1>5, <2>1
<1> QED
  BY <1>1, <1>3, <1>4, <1>6, <1>7 DEF WebhookStep

\* What a handler does to a replace under way: it starts one with nothing
\* found yet, has it find all rows there are, removes rows from what it found,
\* or notes that rows were inserted.
LEMMA RowsStep ==
  ASSUME TypeOK, RowsInv, SubscriptionStep
  PROVE  RowsInv'
<1>1. ASSUME NEW ids \in Requested, Subscribe(ids) PROVE RowsInv'
  <2>1. \A q \in Replacers : replacer'[q].rows = replacer[q].rows /\ (replacer'[q].alone => replacer[q].alone /\ subs' = subs)
    BY Zenon, <1>1 DEF Subscribe, TypeOK, ReplacerStates
  <2> QED
    BY <1>1, <2>1 DEF Subscribe, RowsInv
<1>2. ASSUME NEW t \in EventTypes, Unsubscribe(t) PROVE RowsInv'
  <2>1. \A q \in Replacers : replacer'[q].rows = replacer[q].rows \ {t} /\ replacer'[q].alone = replacer[q].alone
    BY <1>2 DEF Unsubscribe, TypeOK, ReplacerStates
  <2> QED
    BY <1>2, <2>1 DEF Unsubscribe, RowsInv
<1>3. ASSUME NEW p \in Replacers, subs' = subs, NEW s \in ReplacerStates, replacer' = [replacer EXCEPT ![p] = s],
             s.rows \subseteq subs, s.alone => s.rows = subs
      PROVE  RowsInv'
  BY <1>3 DEF RowsInv, TypeOK
<1>4. ASSUME NEW p \in Replacers, StartDelete(p) PROVE RowsInv'
  <2> DEFINE s == [replacer[p] EXCEPT !.pc = "wait", !.rows = subs, !.alone = TRUE]
  <2>1. s \in ReplacerStates /\ s.rows = subs
    BY Zenon DEF TypeOK, ReplacerStates
  <2>2. replacer' = [replacer EXCEPT ![p] = s] /\ subs' = subs
    BY <1>4 DEF StartDelete
  <2> HIDE DEF s
  <2> QED
    BY Zenon, <1>3, <2>1, <2>2
<1>5. ASSUME NEW p \in Replacers, FinishDelete(p) PROVE RowsInv'
  <2> DEFINE s == [replacer[p] EXCEPT !.pc = "insert"]
  <2>1. s \in ReplacerStates /\ s.rows = replacer[p].rows /\ s.alone = replacer[p].alone
    BY DEF TypeOK, ReplacerStates
  <2>2. replacer' = [replacer EXCEPT ![p] = s] /\ subs' = subs
    BY <1>5 DEF FinishDelete
  <2> HIDE DEF s
  <2> QED
    BY <1>3, <2>1, <2>2 DEF RowsInv
<1>6. ASSUME NEW p \in Replacers, ReplaceFails(p) PROVE RowsInv'
  <2>1. IdleReplacer \in ReplacerStates /\ IdleReplacer.rows = {} /\ ~IdleReplacer.alone
    BY DEF IdleReplacer, ReplacerStates
  <2> QED
    BY Zenon, <1>3, <1>6, <2>1 DEF ReplaceFails
<1>7. ASSUME NEW p \in Replacers, NEW ids \in Requested, Replace(p, ids) PROVE RowsInv'
  <2> DEFINE s == [IdleReplacer EXCEPT !.pc = "delete", !.ids = ValidIds(ids)]
  <2>1. s \in ReplacerStates /\ s.rows = {} /\ ~s.alone
    BY Zenon DEF IdleReplacer, ReplacerStates, ValidIds
  <2>2. replacer' = [replacer EXCEPT ![p] = s] /\ subs' = subs
    BY <1>7 DEF Replace
  <2> HIDE DEF s
  <2> QED
    BY Zenon, <1>3, <2>1, <2>2
<1>8. ASSUME NEW p \in Replacers, InsertNewSet(p) PROVE RowsInv'
  <2>1. replacer'[p].rows = {} /\ ~replacer'[p].alone
    BY Zenon, <1>8 DEF InsertNewSet, IdleReplacer
  <2>2. ASSUME NEW q \in Replacers, q # p
        PROVE  /\ replacer'[q].rows = replacer[q].rows \ replacer[p].rows
               /\ replacer'[q].alone => replacer[q].alone /\ replacer[p].ids = {}
    <3>1. replacer'[q] = [replacer[q] EXCEPT !.alone = replacer[q].alone /\ replacer[p].ids = {},
                                             !.rows = replacer[q].rows \ replacer[p].rows]
      BY Zenon, <1>8, <2>2 DEF InsertNewSet
    <3>2. replacer[q] \in ReplacerStates
      BY Zenon DEF TypeOK
    <3> QED
      BY Zenon, <3>1, <3>2 DEF ReplacerStates
  <2>3. subs' = (subs \ replacer[p].rows) \cup replacer[p].ids
    BY Zenon, <1>8 DEF InsertNewSet, Replaced
  <2>4. ASSUME NEW q \in Replacers
        PROVE  replacer'[q].rows \subseteq subs' /\ (replacer'[q].alone => replacer'[q].rows = subs')
    BY Zenon, <2>1, <2>2, <2>3 DEF RowsInv
  <2> QED
    BY <2>4 DEF RowsInv
<1> QED
  BY <1>1, <1>2, <1>4, <1>5, <1>6, <1>7, <1>8 DEF SubscriptionStep

\* Every handler does to the table what it does to the reference, but for a
\* replace that missed rows, which says so.
LEMMA AskedStep ==
  ASSUME TypeOK, RowsInv, SubscribedAsAsked, SubscriptionStep
  PROVE  SubscribedAsAsked'
<1>1. ASSUME NEW ids \in Requested, Subscribe(ids) PROVE SubscribedAsAsked'
  BY <1>1 DEF Subscribe, SubscribedAsAsked
<1>2. ASSUME NEW t \in EventTypes, Unsubscribe(t) PROVE SubscribedAsAsked'
  BY Zenon, <1>2 DEF Unsubscribe, SubscribedAsAsked
<1>3. ASSUME NEW p \in Replacers, InsertNewSet(p) PROVE SubscribedAsAsked'
  <2>1. ~mixed' => replacer[p].rows = subs
    BY Zenon, <1>3 DEF InsertNewSet, RowsInv
  <2> QED
    BY Zenon, <1>3, <2>1 DEF InsertNewSet, Replaced, SubscribedAsAsked
<1> QED
  BY Zenon, <1>1, <1>2, <1>3 DEF SubscriptionStep, StartDelete, FinishDelete, ReplaceFails, Replace, SubscribedAsAsked

\* The invariant holds initially and is kept by every step.
LEMMA PlatformInvariant == Spec => []PlatformInv
<1>1. ASSUME Init PROVE PlatformInv
  <2>1. TypeOK
    BY Zenon, <1>1, PlatformAssumption DEF Init, TypeOK, WebhookRows, ReplacerStates, IdleReplacer
  <2>2. Listed = {} /\ Inserting = {}
    BY <1>1 DEF Init, Listed, Inserting
  <2>3. LimitInv
    BY <2>1, <2>2, Counts, FS_EmptySet, PlatformAssumption DEF LimitInv
  <2>4. RowsInv /\ SubscribedAsAsked
    BY <1>1 DEF Init, RowsInv, SubscribedAsAsked, IdleReplacer
  <2> QED
    BY <2>1, <2>3, <2>4 DEF PlatformInv
<1>2. ASSUME PlatformInv, [Next]_vars PROVE PlatformInv'
  <2>1. CASE WebhookStep /\ UNCHANGED subscriptions
    <3>1. TypeOK'
      BY <1>2, <2>1, WebhookTypes DEF PlatformInv, TypeOK, subscriptions
    <3>2. LimitInv'
      BY <1>2, <2>1, LimitStep DEF PlatformInv
    <3>3. RowsInv' /\ SubscribedAsAsked'
      BY <1>2, <2>1 DEF PlatformInv, RowsInv, SubscribedAsAsked, subscriptions
    <3> QED
      BY <3>1, <3>2, <3>3 DEF PlatformInv
  <2>2. CASE SubscriptionStep /\ UNCHANGED webhooks
    <3>1. TypeOK'
      BY <1>2, <2>2, SubscriptionTypes DEF PlatformInv, TypeOK, webhooks
    <3>2. LimitInv'
      BY <1>2, <2>2 DEF PlatformInv, LimitInv, Listed, Inserting, webhooks
    <3>3. RowsInv' /\ SubscribedAsAsked'
      BY <1>2, <2>2, RowsStep, AskedStep DEF PlatformInv
    <3> QED
      BY <3>1, <3>2, <3>3 DEF PlatformInv
  <2>3. CASE UNCHANGED vars
    BY <1>2, <2>3 DEF PlatformInv, TypeOK, LimitInv, Listed, Inserting, RowsInv, SubscribedAsAsked, vars
  <2> QED
    BY <1>2, <2>1, <2>2, <2>3, TwoKinds
<1> QED
  BY <1>1, <1>2, PTL DEF Spec

\* Creates that count before the others insert pass MAX_WEBHOOKS_PER_TENANT by
\* less than their number, for every limit and however often webhooks are
\* deleted and created again.
THEOREM LimitOvershoot == Spec => []OvershootIsBounded
<1>1. PlatformInv => OvershootIsBounded
  BY Counts, PlatformAssumption DEF PlatformInv, LimitInv, OvershootIsBounded
<1> QED
  BY <1>1, PlatformInvariant, PTL

\* A tenant is subscribed to what it asked for last, and to nothing else
\* unless rows were inserted under the last replace, whatever the number of
\* event types and of replaces at once.
THEOREM ReplaceIsFaithful == Spec => []SubscribedAsAsked
BY PlatformInvariant, PTL DEF PlatformInv

\* The tables and the requests keep their types.
THEOREM PlatformTypes == Spec => []TypeOK
BY PlatformInvariant, PTL DEF PlatformInv
=============================================================================
