------------------------- MODULE AcmModifierProofs -------------------------
(***************************************************************************)
(* What is proved about AcmModifier for every number of callers, threads,  *)
(* names and parts.                                                        *)
(***************************************************************************)
EXTENDS AcmModifier, FiniteSetTheorems, TLAPS

\* Every part's name, and every local variable `target', is a name of the scene.
LEMMA TargetOfInTargets ==
  ASSUME NEW p \in Parts
  PROVE  TargetOf(p) \in Targets
BY DEF Targets

\* setEntry on the gripper links keeps a matrix a set of pairs of names.
LEMMA SetEntriesType ==
  ASSUME NEW acm \in SUBSET Pairs, NEW t \in Targets \cup {""}, NEW a \in BOOLEAN
  PROVE  SetEntries(acm, PairsWith(Links, t), a) \in SUBSET Pairs
<1>1. Links \subseteq Names /\ t \in Names
  BY AcmModifierAssumption
<1>2. PairsWith(Links, t) \subseteq PairsWith(Names, t)
  BY <1>1 DEF PairsWith
<1>3. PairsWith(Links, t) \subseteq Pairs
  BY <1>1, <1>2 DEF Pairs
<1>. QED
  BY <1>3 DEF SetEntries

\* Type correctness of acm_modifier_node's state and of its clients' calls.
THEOREM TypeCorrect == Spec => []TypeOK
<1>1. Init => TypeOK
  <2>. SUFFICES ASSUME Init
                PROVE  TypeOK
    OBVIOUS
  <2>1. InitialAcm \subseteq Pairs
    BY AcmModifierAssumption
  <2>. QED
    BY <2>1 DEF Init, TypeOK
<1>2. TypeOK /\ [Next]_vars => TypeOK'
  <2>. SUFFICES ASSUME TypeOK, [Next]_vars
                PROVE  TypeOK'
    OBVIOUS
  <2>. USE DEF TypeOK
  <2>1. CASE SetTargetPart
    BY <2>1 DEF SetTargetPart
  <2>2. ASSUME NEW c \in Clients, Submit(c)
        PROVE  TypeOK'
    BY <2>2 DEF Submit
  <2>3. ASSUME NEW c \in Clients, StartToggle(c)
        PROVE  TypeOK'
    BY <2>3, TargetOfInTargets DEF StartToggle
  <2>4. ASSUME NEW c \in Clients, ModifyAndApply(c)
        PROVE  TypeOK'
    <3>1. SetEntries(copy[c], PairsWith(Links, target[c]), allow[c]) \in SUBSET Pairs
      BY SetEntriesType
    <3>. QED
      BY <2>4, <3>1 DEF ModifyAndApply, SendBack
  <2>5. ASSUME NEW c \in Clients, ReplyToCaller(c)
        PROVE  TypeOK'
    BY <2>5 DEF ReplyToCaller, Return
  <2>6. ASSUME NEW c \in Clients, Deliver(c)
        PROVE  TypeOK'
    BY <2>6 DEF Deliver, handlerVars
  <2>7. ASSUME NEW c \in Clients, Timeout(c)
        PROVE  TypeOK'
    BY <2>7 DEF Timeout
  <2>8. ASSUME NEW c \in Clients, ServeGet(c)
        PROVE  TypeOK'
    BY <2>8 DEF ServeGet, handlerVars
  <2>9. ASSUME NEW c \in Clients, ServeApply(c)
        PROVE  TypeOK'
    BY <2>9 DEF ServeApply, handlerVars
  <2>10. CASE UNCHANGED vars
    BY <2>10 DEF vars
  <2>. QED
    BY <2>1, <2>2, <2>3, <2>4, <2>5, <2>6, <2>7, <2>8, <2>9, <2>10
    DEF Next, Handler, MoveGroup
<1>. QED
  BY <1>1, <1>2, PTL DEF Spec

-----------------------------------------------------------------------------
(* Entries that no request is about.                                       *)

\* A copy of the matrix that a handler or a call of it may still send.
Held(c) == pc[c] = "applying" \/ (pc[c] = "getting" /\ call[c] \in {"served", "ready"})

\* The invariant that keeps them: every copy that may be written agrees with
\* the first matrix outside the managed entries, however stale it is.
UnmanagedInv ==
  /\ UnmanagedUntouched
  /\ \A c \in Clients : Held(c) => Unmanaged(copy[c]) = Unmanaged(InitialAcm)

\* setEntry on the gripper links changes managed entries only.
LEMMA SetEntriesManaged ==
  ASSUME NEW acm \in SUBSET Pairs, NEW t \in Targets \cup {""}, NEW a \in BOOLEAN
  PROVE  Unmanaged(SetEntries(acm, PairsWith(Links, t), a)) = Unmanaged(acm)
<1>1. PairsWith(Links, t) \subseteq Managed
  BY DEF Managed
<1>. QED
  BY <1>1 DEF SetEntries, Unmanaged

\* However many requests overlap, what is not between a gripper link and a
\* target keeps its value: execute_acm_update writes the whole matrix.
THEOREM UnmanagedStays == Spec => []UnmanagedUntouched
<1>1. Init => UnmanagedInv
  BY DEF Init, UnmanagedInv, UnmanagedUntouched, Held
<1>2. TypeOK /\ UnmanagedInv /\ [Next]_vars => UnmanagedInv'
  <2>. SUFFICES ASSUME TypeOK, UnmanagedInv, [Next]_vars
                PROVE  UnmanagedInv'
    OBVIOUS
  <2>. USE DEF TypeOK, UnmanagedInv, UnmanagedUntouched, Held
  <2>1. CASE SetTargetPart
    BY <2>1 DEF SetTargetPart
  <2>2. ASSUME NEW c \in Clients, Submit(c)
        PROVE  UnmanagedInv'
    BY <2>2 DEF Submit
  <2>3. ASSUME NEW c \in Clients, StartToggle(c)
        PROVE  UnmanagedInv'
    BY <2>3 DEF StartToggle
  <2>4. ASSUME NEW c \in Clients, ModifyAndApply(c)
        PROVE  UnmanagedInv'
    <3>1. Unmanaged(SetEntries(copy[c], PairsWith(Links, target[c]), allow[c]))
            = Unmanaged(copy[c])
      <4>1. /\ copy[c] \in SUBSET Pairs
            /\ target[c] \in Targets \cup {""}
            /\ allow[c] \in BOOLEAN
        OBVIOUS
      <4>. HIDE DEF TypeOK, UnmanagedInv, UnmanagedUntouched, Held
      <4>. QED
        BY <4>1, SetEntriesManaged
    <3>2. Unmanaged(copy'[c]) = Unmanaged(InitialAcm)
      BY <2>4, <3>1 DEF ModifyAndApply, SendBack
    <3>. QED
      BY <2>4, <3>2 DEF ModifyAndApply, SendBack
  <2>5. ASSUME NEW c \in Clients, ReplyToCaller(c)
        PROVE  UnmanagedInv'
    BY <2>5 DEF ReplyToCaller, Return
  <2>6. ASSUME NEW c \in Clients, Deliver(c)
        PROVE  UnmanagedInv'
    BY <2>6 DEF Deliver, handlerVars
  <2>7. ASSUME NEW c \in Clients, Timeout(c)
        PROVE  UnmanagedInv'
    BY <2>7 DEF Timeout
  <2>8. ASSUME NEW c \in Clients, ServeGet(c)
        PROVE  UnmanagedInv'
    BY <2>8 DEF ServeGet, handlerVars
  <2>9. ASSUME NEW c \in Clients, ServeApply(c)
        PROVE  UnmanagedInv'
    BY <2>9 DEF ServeApply, handlerVars
  <2>10. CASE UNCHANGED vars
    BY <2>10 DEF vars
  <2>. QED
    BY <2>1, <2>2, <2>3, <2>4, <2>5, <2>6, <2>7, <2>8, <2>9, <2>10
    DEF Next, Handler, MoveGroup
<1>3. UnmanagedInv => UnmanagedUntouched
  BY DEF UnmanagedInv
<1>. QED
  BY <1>1, <1>2, <1>3, TypeCorrect, PTL DEF Spec

-----------------------------------------------------------------------------
(* Threads.                                                                *)

\* Callers have no more requests in progress than they may.
OutstandingBounded == Cardinality(Outstanding) <= MaxOutstanding

LEMMA Numbers == MaxOutstanding \in Nat /\ Threads \in Nat
BY AcmModifierAssumption

LEMMA OutstandingFinite == IsFiniteSet(Outstanding) /\ Cardinality(Outstanding) \in Nat
<1>1. Outstanding \subseteq Clients
  BY DEF Outstanding
<1>. QED
  BY <1>1, AcmModifierAssumption, FS_Subset, FS_CardinalityType

\* A step that begins no request keeps the bound.
LEMMA BoundKept ==
  ASSUME OutstandingBounded, Outstanding' \subseteq Outstanding
  PROVE  OutstandingBounded'
<1>1. Cardinality(Outstanding') <= Cardinality(Outstanding)
         /\ Cardinality(Outstanding') \in Nat
  BY OutstandingFinite, FS_Subset, FS_CardinalityType
<1>. QED
  BY <1>1, OutstandingFinite, Numbers DEF OutstandingBounded

LEMMA BoundInvariant == Spec => []OutstandingBounded
<1>1. Init => OutstandingBounded
  <2>1. ASSUME Init
        PROVE  Outstanding = {}
    BY <2>1 DEF Init, Outstanding
  <2>. QED
    BY <2>1, FS_EmptySet, Numbers DEF OutstandingBounded
<1>2. TypeOK /\ OutstandingBounded /\ [Next]_vars => OutstandingBounded'
  <2>. SUFFICES ASSUME TypeOK, OutstandingBounded, [Next]_vars
                PROVE  OutstandingBounded'
    OBVIOUS
  <2>1. ASSUME NEW c \in Clients, Submit(c)
        PROVE  OutstandingBounded'
    <3>1. Outstanding' = Outstanding \cup {c} /\ c \notin Outstanding
      BY <2>1 DEF Submit, Outstanding, TypeOK
    <3>2. Cardinality(Outstanding') = Cardinality(Outstanding) + 1
      BY <3>1, OutstandingFinite, FS_AddElement
    <3>3. Cardinality(Outstanding) < MaxOutstanding
      BY <2>1 DEF Submit
    <3>. QED
      BY <3>2, <3>3, OutstandingFinite, Numbers DEF OutstandingBounded
  <2>2. ASSUME ~\E c \in Clients : Submit(c)
        PROVE  Outstanding' \subseteq Outstanding
    BY <2>2 DEF TypeOK, Outstanding, Next, SetTargetPart, Handler, MoveGroup, StartToggle,
       ModifyAndApply, SendBack, ReplyToCaller, Return, Deliver, Timeout,
       ServeGet, ServeApply, handlerVars, vars
  <2>. QED
    BY <2>1, <2>2, BoundKept
<1>. QED
  BY <1>1, <1>2, TypeCorrect, PTL DEF Spec

\* With a thread more than there are requests in progress, a prompt move_group
\* always finds a thread to take its answer, and no handler times out.
THEOREM NoTimeoutWithASpareThread ==
  ASSUME MaxOutstanding < Threads
  PROVE  Spec => []NoTimeoutWhilePrompt
<1>1. Init => NoTimeoutWhilePrompt
  BY DEF Init, NoTimeoutWhilePrompt
<1>2. OutstandingBounded => ThreadFree
  <2>1. Busy \subseteq Outstanding
    BY DEF Busy, Outstanding
  <2>2. Cardinality(Busy) <= Cardinality(Outstanding) /\ Cardinality(Busy) \in Nat
    BY <2>1, OutstandingFinite, FS_Subset, FS_CardinalityType
  <2>. QED
    BY <2>2, OutstandingFinite, Numbers DEF OutstandingBounded, ThreadFree
<1>3. OutstandingBounded /\ NoTimeoutWhilePrompt /\ [Next]_vars => NoTimeoutWhilePrompt'
  <2>. SUFFICES ASSUME OutstandingBounded, NoTimeoutWhilePrompt, [Next]_vars
                PROVE  NoTimeoutWhilePrompt'
    OBVIOUS
  <2>1. ASSUME NEW c \in Clients, Timeout(c)
        PROVE  NoTimeoutWhilePrompt'
    BY <2>1, <1>2 DEF Timeout, Starved, NoTimeoutWhilePrompt
  <2>2. ASSUME ~\E c \in Clients : Timeout(c)
        PROVE  UNCHANGED node
    BY <2>2 DEF Next, SetTargetPart, Submit, Handler, MoveGroup, StartToggle,
       ModifyAndApply, SendBack, ReplyToCaller, Return, Deliver,
       ServeGet, ServeApply, handlerVars, vars
  <2>. QED
    BY <2>1, <2>2 DEF NoTimeoutWhilePrompt
<1>. QED
  BY <1>1, <1>3, BoundInvariant, PTL DEF Spec

-----------------------------------------------------------------------------
(* One request at a time.                                                  *)

\* What a handler relies on while it has the only request: its copy is the
\* matrix, or the matrix with its own change; and once its write is accepted
\* the matrix says what it asked for.
HandlerOK(c) ==
  LET mine == PairsWith(Links, target[c])
  IN  /\ pc[c] = "getting" /\ call[c] \in {"served", "ready"} => copy[c] = scene
      /\ pc[c] = "applying" /\ call[c] = "sent"
           => copy[c] = SetEntries(scene, mine, allow[c])
      /\ pc[c] = "applying" /\ call[c] \in {"served", "ready"} /\ accepted[c]
           => Says(scene, mine, allow[c])

SerialInv ==
  /\ \A c, d \in Clients : pc[c] # "idle" /\ pc[d] # "idle" => c = d
  /\ \A c \in Clients : HandlerOK(c)

\* After setEntry the matrix says what was asked for.
LEMMA SetEntriesSays ==
  ASSUME NEW acm, NEW pairs, NEW a \in BOOLEAN
  PROVE  Says(SetEntries(acm, pairs, a), pairs, a)
BY DEF Says, SetEntries

\* With room for one request, it is submitted when there is no other.
LEMMA SubmittedAlone ==
  ASSUME MaxOutstanding = 1, NEW c \in Clients, Submit(c)
  PROVE  \A d \in Clients : pc[d] = "idle"
<1>1. Cardinality(Outstanding) < 1
  BY DEF Submit
<1>2. Cardinality(Outstanding) = 0
  BY <1>1, OutstandingFinite
<1>3. Outstanding = {}
  BY <1>2, OutstandingFinite, FS_EmptySet
<1>. QED
  BY <1>3 DEF Outstanding

LEMMA SerialInvariant ==
  ASSUME MaxOutstanding = 1
  PROVE  Spec => []SerialInv
<1>1. Init => SerialInv
  BY DEF Init, SerialInv, HandlerOK
<1>2. TypeOK /\ SerialInv /\ [Next]_vars => SerialInv'
  <2>. SUFFICES ASSUME TypeOK, SerialInv, [Next]_vars
                PROVE  SerialInv'
    OBVIOUS
  <2>. USE DEF TypeOK, SerialInv, HandlerOK
  <2>1. CASE SetTargetPart
    BY <2>1 DEF SetTargetPart
  <2>2. ASSUME NEW c \in Clients, Submit(c)
        PROVE  SerialInv'
    <3>1. \A d \in Clients : pc[d] = "idle"
      BY <2>2, SubmittedAlone
    <3>. QED
      BY <2>2, <3>1 DEF Submit
  <2>3. ASSUME NEW c \in Clients, StartToggle(c)
        PROVE  SerialInv'
    BY <2>3 DEF StartToggle
  <2>4. ASSUME NEW c \in Clients, ModifyAndApply(c)
        PROVE  SerialInv'
    BY <2>4 DEF ModifyAndApply, SendBack
  <2>5. ASSUME NEW c \in Clients, ReplyToCaller(c)
        PROVE  SerialInv'
    BY <2>5 DEF ReplyToCaller, Return
  <2>6. ASSUME NEW c \in Clients, Deliver(c)
        PROVE  SerialInv'
    BY <2>6 DEF Deliver, handlerVars
  <2>7. ASSUME NEW c \in Clients, Timeout(c)
        PROVE  SerialInv'
    BY <2>7 DEF Timeout
  <2>8. ASSUME NEW c \in Clients, ServeGet(c)
        PROVE  SerialInv'
    BY <2>8 DEF ServeGet, handlerVars
  <2>9. ASSUME NEW c \in Clients, ServeApply(c)
        PROVE  SerialInv'
    <3>. DEFINE mine == PairsWith(Links, target[c])
    <3>1. pc[c] = "applying" /\ call[c] = "sent" /\ allow[c] \in BOOLEAN
      BY <2>9 DEF ServeApply
    <3>2. copy[c] = SetEntries(scene, mine, allow[c])
      BY <3>1
    <3>3. Says(copy[c], mine, allow[c])
      <4>. HIDE DEF TypeOK, SerialInv, HandlerOK, mine
      <4>. QED
        BY <3>1, <3>2, SetEntriesSays
    <3>4. \A d \in Clients : d # c => pc[d] = "idle"
      BY <3>1
    <3>. QED
      BY <2>9, <3>3, <3>4 DEF ServeApply, handlerVars
  <2>10. CASE UNCHANGED vars
    BY <2>10 DEF vars
  <2>. QED
    BY <2>1, <2>2, <2>3, <2>4, <2>5, <2>6, <2>7, <2>8, <2>9, <2>10
    DEF Next, Handler, MoveGroup
<1>. QED
  BY <1>1, <1>2, TypeCorrect, PTL DEF Spec

\* With one request at a time, a caller that is told "ok" has what it asked for.
THEOREM RepliesAreTruthful ==
  ASSUME MaxOutstanding = 1
  PROVE  Spec => TruthfulReply
<1>1. ASSUME TypeOK, SerialInv, [Next]_vars, NEW c \in Clients,
             reply[c] = "none", reply'[c] = "ok"
      PROVE  Says(scene', PairsWith(Links, target[c]), allow[c])
  <2>1. ReplyToCaller(c)
    <3>1. ASSUME NEW d \in Clients, Submit(d) \/ (ReplyToCaller(d) /\ d # c)
          PROVE  FALSE
      BY <1>1, <3>1 DEF TypeOK, Submit, ReplyToCaller, Return
    <3>2. ASSUME NEW d \in Clients, StartToggle(d) \/ ModifyAndApply(d) \/ Deliver(d)
                                       \/ Timeout(d) \/ MoveGroup(d)
          PROVE  FALSE
      BY <1>1, <3>2 DEF StartToggle, ModifyAndApply, SendBack, Deliver, Timeout, MoveGroup,
                        ServeGet, ServeApply, handlerVars
    <3>3. CASE SetTargetPart \/ UNCHANGED vars
      BY <1>1, <3>3 DEF SetTargetPart, vars
    <3>. QED
      BY <1>1, <3>1, <3>2, <3>3 DEF Next, Handler
  <2>2. accepted[c] /\ scene' = scene /\ pc[c] = "applying" /\ call[c] = "ready"
    BY <1>1, <2>1 DEF ReplyToCaller, Return, TypeOK
  <2>. QED
    BY <1>1, <2>2 DEF SerialInv, HandlerOK
<1>2. TypeOK /\ SerialInv /\ [Next]_vars
        => [\A c \in Clients : reply[c] = "none" /\ reply'[c] = "ok"
              => Says(scene', PairsWith(Links, target[c]), allow[c])]_vars
  BY <1>1
<1>. QED
  BY <1>2, TypeCorrect, SerialInvariant, PTL DEF Spec, TruthfulReply

\* With one request at a time, no pair stops being checked but by a write of a
\* handler that was asked for it.
THEOREM OnlyAskedChecksGoOff ==
  ASSUME MaxOutstanding = 1
  PROVE  Spec => ChecksOffOnlyWhenAsked
<1>1. ASSUME TypeOK, SerialInv, [Next]_vars, NEW p \in scene' \ scene
      PROVE  \E c \in Clients :
               pc[c] = "applying" /\ allow[c] /\ p \in PairsWith(Links, target[c])
  <2>1. PICK c \in Clients : ServeApply(c)
    BY <1>1 DEF Next, SetTargetPart, Submit, Handler, MoveGroup, StartToggle,
       ModifyAndApply, SendBack, ReplyToCaller, Return, Deliver, Timeout,
       ServeGet, handlerVars, vars
  <2>2. scene' = copy[c] /\ pc[c] = "applying" /\ call[c] = "sent"
    BY <1>1, <2>1 DEF ServeApply
  <2>3. p \in SetEntries(scene, PairsWith(Links, target[c]), allow[c])
    BY <1>1, <2>2 DEF SerialInv, HandlerOK
  <2>. QED
    BY <1>1, <2>2, <2>3 DEF SetEntries
<1>2. TypeOK /\ SerialInv /\ [Next]_vars
        => [\A p \in scene' \ scene : \E c \in Clients :
              pc[c] = "applying" /\ allow[c] /\ p \in PairsWith(Links, target[c])]_vars
  BY <1>1
<1>. QED
  BY <1>2, TypeCorrect, SerialInvariant, PTL DEF Spec, ChecksOffOnlyWhenAsked

-----------------------------------------------------------------------------
(* Refinement.                                                             *)

\* The request of every other caller looks the same before and after a step of
\* c's, which therefore changes the abstract outcome of c at most.
LEMMA OutcomeStep ==
  ASSUME TypeOK, NEW c \in Clients, NEW v,
         \A d \in Clients \ {c} :
           /\ pc'[d] = pc[d] /\ reply'[d] = reply[d]
           /\ call'[d] = call[d] /\ accepted'[d] = accepted[d],
         outcome'[c] = v
  PROVE  outcome' = [outcome EXCEPT ![c] = v]
<1>1. \A d \in Clients \ {c} : outcome'[d] = outcome[d]
  BY DEF outcome
<1>2. /\ outcome = [d \in Clients |-> outcome[d]]
      /\ outcome' = [d \in Clients |-> outcome'[d]]
  BY DEF outcome
<1>. QED
  BY <1>1, <1>2

\* With one request at a time, acm_modifier_node implements ToggleService.
THEOREM ToggleServiceImplemented ==
  ASSUME MaxOutstanding = 1
  PROVE  Spec => ImplementsToggleService
<1>1. Init => Abstract!Init
  BY DEF Init, Abstract!Init, outcome
<1>2. ASSUME TypeOK, SerialInv, [Next]_vars
      PROVE  [Abstract!Next]_(Abstract!vars)
  <2>. USE <1>2
  <2>1. CASE SetTargetPart
    BY <2>1 DEF SetTargetPart, outcome, Abstract!vars
  <2>2. ASSUME NEW c \in Clients, Submit(c)
        PROVE  Abstract!Ask(c)
    <3>1. outcome' = [outcome EXCEPT ![c] = "pending"]
      BY <2>2, OutcomeStep DEF Submit, TypeOK, outcome
    <3>2. outcome[c] \in {"none", "ok", "failed"}
      BY <2>2 DEF Submit, TypeOK, outcome
    <3>. QED
      BY <2>2, <3>1, <3>2 DEF Submit, Abstract!Ask
  <2>3. ASSUME NEW c \in Clients, StartToggle(c) \/ ModifyAndApply(c) \/ Deliver(c)
                                     \/ Timeout(c) \/ ServeGet(c)
        PROVE  UNCHANGED Abstract!vars
    <3>1. \A d \in Clients : outcome'[d] = outcome[d]
      <4>1. CASE StartToggle(c)
        BY <4>1 DEF StartToggle, TypeOK, outcome
      <4>2. CASE ModifyAndApply(c)
        BY <4>2 DEF ModifyAndApply, SendBack, TypeOK, outcome
      <4>3. CASE Deliver(c)
        BY <4>3 DEF Deliver, handlerVars, TypeOK, outcome
      <4>4. CASE Timeout(c)
        BY <4>4 DEF Timeout, outcome
      <4>5. CASE ServeGet(c)
        BY <4>5 DEF ServeGet, handlerVars, TypeOK, outcome
      <4>. QED
        BY <2>3, <4>1, <4>2, <4>3, <4>4, <4>5
    <3>2. outcome' = outcome
      BY <3>1 DEF outcome
    <3>. QED
      BY <2>3, <3>2 DEF StartToggle, ModifyAndApply, SendBack, Deliver, Timeout, ServeGet,
                        handlerVars, Abstract!vars
  <2>4. ASSUME NEW c \in Clients, ReplyToCaller(c)
        PROVE  Abstract!Answer(c)
    <3>. DEFINE result == IF outcome[c] = "applied" THEN "ok" ELSE "failed"
    <3>1. outcome[c] \in {"applied", "rejected"} /\ outcome'[c] = result
      BY <2>4 DEF ReplyToCaller, Return, TypeOK, outcome
    <3>2. outcome' = [outcome EXCEPT ![c] = result]
      BY <2>4, <3>1, OutcomeStep DEF ReplyToCaller, Return, TypeOK
    <3>. QED
      BY <2>4, <3>1, <3>2 DEF ReplyToCaller, Return, Abstract!Answer
  <2>5. ASSUME NEW c \in Clients, ServeApply(c)
        PROVE  Abstract!Apply(c) \/ Abstract!Reject(c)
    <3>1. outcome[c] = "pending" /\ target[c] \in Targets \cup {""}
            /\ copy[c] = SetEntries(scene, PairsWith(Links, target[c]), allow[c])
      BY <2>5 DEF ServeApply, TypeOK, outcome, SerialInv, HandlerOK
    <3>2. CASE accepted'[c]
      <4>1. outcome' = [outcome EXCEPT ![c] = "applied"]
        BY <2>5, <3>2, OutcomeStep DEF ServeApply, handlerVars, TypeOK, outcome
      <4>2. scene' = copy[c]
        BY <2>5, <3>2 DEF ServeApply, TypeOK
      <4>3. allow' = allow
        BY <2>5 DEF ServeApply, handlerVars
      <4>. QED
        BY <3>1, <4>1, <4>2, <4>3 DEF Abstract!Apply, Abstract!SetEntries,
             Abstract!PairsWith, SetEntries, PairsWith
    <3>3. CASE ~accepted'[c]
      <4>1. outcome' = [outcome EXCEPT ![c] = "rejected"]
        BY <2>5, <3>3, OutcomeStep DEF ServeApply, handlerVars, TypeOK, outcome
      <4>2. scene' = scene /\ allow' = allow
        BY <2>5, <3>3 DEF ServeApply, handlerVars, TypeOK
      <4>. QED
        BY <3>1, <4>1, <4>2 DEF Abstract!Reject
    <3>. QED
      BY <3>2, <3>3
  <2>6. CASE UNCHANGED vars
    BY <2>6 DEF vars, outcome, Abstract!vars
  <2>. QED
    BY <2>1, <2>2, <2>3, <2>4, <2>5, <2>6 DEF Next, Handler, MoveGroup, Abstract!Next
<1>. QED
  BY <1>1, <1>2, TypeCorrect, SerialInvariant, PTL
  DEF Spec, ImplementsToggleService, Abstract!Spec
=============================================================================
