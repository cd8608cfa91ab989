---------------------------- MODULE HandleProofs ----------------------------
(***************************************************************************)
(* HandleInvariant is inductive, together with ReplyInvariant: what a      *)
(* disciplined application asks for is open in the child it reaches.       *)
(* ContextInvariant, together with SharingInvariant: so is a context, if   *)
(* threads share it.                                                       *)
(***************************************************************************)
EXTENDS SessionProofs

LEMMA CardTypes ==
  ASSUME TypeOK
  PROVE  /\ \A k \in Slots : cardArray[k].used => cardArray[k].ctx \in Slots
         /\ \A k \in Slots : cardArray[k].pcsc \in Nat
         /\ cardArray \in [Slots -> Cards]
         /\ cardOwner \in [Slots -> Threads \cup {None}]
         /\ DOMAIN cardArray = Slots
<1>1. Handles \subseteq Nat
  BY DEF Handles, CallIds, NoCall
<1> QED
  BY <1>1 DEF TypeOK, ClientTypeOK, ClientDomains, Cards

\* Data that passes between slot i and its child after a step did so before.
Steady(i) ==
  Live(i)' => Live(i) /\ contextArray'[i].session = contextArray[i].session

\* What a step of t leaves of the threads, the sessions and the children.
Undisturbed(t) ==
  /\ OthersKeep(t)
  /\ \A i \in Slots :
       \/ Steady(i)
       \/ Active(t) /\ i = call[t].ctx /\ contextOwner[i] = None
  /\ UNCHANGED serverVars

LEMMA OthersSteady ==
  ASSUME Discipline = "own", SlotInvariant, NEW t \in Threads, Undisturbed(t),
         NEW u \in Threads \ {t}, Active(u)
  PROVE  \E i \in Slots : call[u].ctx = i /\ Steady(i)
BY DEF SlotInvariant, SlotsClaimed, SlotsExclusive, Alone, Undisturbed

LEMMA ContextKept ==
  ASSUME HandleInvariant, NEW t \in Threads, Undisturbed(t), NEW i \in Slots,
         contextOwner'[i] \in {None, contextOwner[i]},
         contextArray'[i].pcsc = contextArray[i].pcsc
  PROVE  ContextKnown(i)'
<1> SUFFICES ASSUME contextOwner'[i] # None, Live(i)'
             PROVE  contextArray'[i].pcsc \in service'[contextArray'[i].session].contexts
  BY DEF ContextKnown
<1>1. Live(i) /\ contextArray'[i].session = contextArray[i].session /\ service' = service
  BY DEF Undisturbed, Steady, serverVars
<1>2. ContextKnown(i)
  BY DEF HandleInvariant
<1> QED
  BY <1>1, <1>2 DEF ContextKnown

\* The application still has the handle of k, and of its context.
CardHeld(k) ==
  cardOwner'[k] # None =>
    /\ cardOwner'[k] = cardOwner[k]
    /\ contextOwner'[cardArray[k].ctx] = contextOwner[cardArray[k].ctx]
    /\ cardArray'[k] = cardArray[k]

LEMMA CardHeldSteady ==
  ASSUME TypeOK, HandleInvariant, NEW t \in Threads, Undisturbed(t), NEW k \in Slots,
         CardHeld(k), cardOwner'[k] # None
  PROVE  /\ cardOwner[k] # None
         /\ cardArray[k].used
         /\ \E i \in Slots : cardArray[k].ctx = i /\ Steady(i)
<1>1. CardKnown(k)
  BY DEF HandleInvariant
<1> QED
  BY <1>1, CardTypes DEF CardKnown, CardHeld, Undisturbed

LEMMA CardKept ==
  ASSUME TypeOK, HandleInvariant, NEW t \in Threads, Undisturbed(t), NEW k \in Slots,
         CardHeld(k), nextCall' = nextCall \/ nextCall' = nextCall + 1
  PROVE  CardKnown(k)'
<1> SUFFICES ASSUME cardOwner'[k] # None
             PROVE  CardKnown(k)'
  BY DEF CardKnown
<1>1. PICK i \in Slots : cardArray[k].ctx = i /\ Steady(i)
  BY CardHeldSteady
<1>2. /\ cardOwner'[k] = cardOwner[k]
      /\ cardArray'[k] = cardArray[k]
      /\ contextOwner'[i] = contextOwner[i]
      /\ service' = service
  BY <1>1 DEF CardHeld, Undisturbed, serverVars
<1>3. CardKnown(k)
  BY DEF HandleInvariant
<1>4. cardArray[k].pcsc < nextCall => cardArray[k].pcsc < nextCall'
  BY CardTypes, NextCallType
<1> QED
  BY <1>1, <1>2, <1>3, <1>4 DEF CardKnown, Steady, Open

\* No card that t takes, or gives back, is another call's.
LEMMA ClaimKept ==
  ASSUME HandleInvariant, NEW t \in Threads, OthersKeep(t),
         NEW u \in Threads \ {t},
         \A k \in Slots : cardArray[k].used =>
           \/ cardArray'[k] = cardArray[k]
           \/ Connecting(t) /\ k = call[t].card,
         \A k \in Slots :
           cardOwner[k] = None => \/ cardOwner'[k] = None
                                  \/ Connecting(t) /\ k = call[t].card,
         Connecting(t)' => \/ Connecting(t) /\ call'[t].card = call[t].card
                           \/ ~cardArray[call'[t].card].used
  PROVE  CardClaimed(u)'
<1> SUFFICES ASSUME Connecting(u)' PROVE CardClaimed(u)'
  BY DEF CardClaimed
<1>1. Connecting(u) /\ call'[u] = call[u]
  BY DEF Connecting, OthersKeep
<1>2. CardClaimed(u) /\ CardClaimed(t)
  BY DEF HandleInvariant
<1>3. call[u].card \in Slots /\ ~(Connecting(t) /\ call[t].card = call[u].card)
  BY <1>1, <1>2 DEF CardClaimed
<1>4. ASSUME NEW v \in Threads \ {u}, Connecting(v)'
      PROVE  call'[v].card # call[u].card
  <2>1. CASE v = t
    BY <1>1, <1>2, <1>3, <1>4, <2>1 DEF CardClaimed
  <2>2. CASE v # t
    BY <1>1, <1>2, <1>4, <2>2 DEF CardClaimed, Connecting, OthersKeep
  <2> QED
    BY <2>1, <2>2
<1> QED
  BY <1>1, <1>2, <1>3, <1>4 DEF CardClaimed

LEMMA ApartKept ==
  ASSUME TypeOK, HandleInvariant, NEW t \in Threads, Undisturbed(t), NEW k \in Slots,
         \A l \in Slots : CardHeld(l),
         cardOwner'[k] # None /\ Live(cardArray[k].ctx) /\ Spares(t, k) => Spares(t, k)'
  PROVE  CardApart(k)'
<1> SUFFICES ASSUME cardOwner'[k] # None, Live(cardArray[k].ctx)' PROVE CardApart(k)'
  BY DEF CardApart
<1>1. PICK i \in Slots : cardArray[k].ctx = i /\ Steady(i)
  BY CardHeldSteady
<1>2. /\ cardOwner[k] # None
      /\ cardArray'[k] = cardArray[k]
      /\ Live(cardArray[k].ctx)
  BY <1>1, CardHeldSteady DEF CardHeld, Steady
<1>3. CardApart(k)
  BY DEF HandleInvariant
<1>4. ASSUME NEW l \in Slots \ {k}, cardOwner'[l] # None,
             cardArray'[l].ctx = cardArray'[k].ctx
      PROVE  cardArray'[l].pcsc # cardArray'[k].pcsc
  BY <1>2, <1>3, <1>4 DEF CardApart, CardHeld
<1>5. ASSUME NEW u \in Threads PROVE Spares(u, k)'
  <2>1. CASE u = t
    BY <1>2, <1>3, <2>1 DEF CardApart
  <2>2. CASE u # t
    BY <1>2, <1>3, <2>2 DEF CardApart, Spares, Active, Undisturbed, OthersKeep
  <2> QED
    BY <2>1, <2>2
<1> QED
  BY <1>4, <1>5 DEF CardApart

LEMMA BackedKept ==
  ASSUME Discipline = "own",
         SlotInvariant, HandleInvariant, NEW t \in Threads, Undisturbed(t),
         NEW u \in Threads \ {t}
  PROVE  CallBacked(u)'
<1>1. pc'[u] = pc[u] /\ call'[u] = call[u] /\ service' = service
  BY DEF Undisturbed, OthersKeep, serverVars
<1>2. CallBacked(u)
  BY DEF HandleInvariant
<1>3. CASE ~Active(u)
  BY <1>1, <1>3 DEF CallBacked, Active, Unsent
<1>4. CASE Active(u)
  <2>1. PICK i \in Slots : call[u].ctx = i /\ Steady(i)
    BY <1>4, OthersSteady
  <2>2. Live(call[u].ctx)' => Live(call[u].ctx) /\ SessionOf(u)' = SessionOf(u)
    BY <1>1, <2>1 DEF Steady, SessionOf
  <2> QED
    BY <1>1, <1>2, <2>2
    DEF CallBacked, Unsent, Backed, Known, Granted, Open
<1> QED
  BY <1>3, <1>4

\* A session on which nothing new is under way.
Quiet(t, s) ==
  Usable(s)' =>
    \/ toServer'[s] = << >> /\ toClient'[s] = << >> /\ ~Serving(s)
    \/ /\ Usable(s)
       /\ toServer'[s] \in {toServer[s], << >>}
       /\ toClient'[s] \in {toClient[s], << >>}
       /\ Awaits(t, s)' => /\ Awaits(t, s)
                           /\ call'[t].msg = call[t].msg
                           /\ call'[t].op = call[t].op

LEMMA AwaitsKept ==
  ASSUME Discipline = "own",
         SlotInvariant, NEW t \in Threads, Undisturbed(t), NEW s \in Sessions,
         NEW u \in Threads \ {t}, Usable(s)', Awaits(u, s)'
  PROVE  Awaits(u, s) /\ call'[u] = call[u]
<1>1. pc'[u] = pc[u] /\ call'[u] = call[u]
  BY DEF Undisturbed, OthersKeep
<1>2. Active(u)
  BY <1>1 DEF Awaits, Active
<1>3. PICK i \in Slots : call[u].ctx = i /\ Steady(i)
  BY <1>2, OthersSteady
<1>4. s # NoSession
  BY DEF Sessions, CallIds, NoSession
<1>5. contextArray'[i].session = s
  BY <1>1, <1>3 DEF Awaits, SessionOf
<1>6. Live(i)'
  BY <1>4, <1>5 DEF Live
<1> QED
  BY <1>1, <1>3, <1>5, <1>6 DEF Awaits, SessionOf, Steady

LEMMA SessionKept1 ==
  ASSUME Discipline = "own",
         SlotInvariant, HandleInvariant, NEW t \in Threads, Undisturbed(t),
         NEW s \in Sessions, Quiet(t, s)
  PROVE  SessionBacked(s)'
<1> SUFFICES ASSUME Usable(s)' PROVE SessionBacked(s)'
  BY DEF SessionBacked
<1>1. UNCHANGED <<child, request, service>>
  BY DEF Undisturbed, serverVars
<1>2. CASE toServer'[s] = << >> /\ toClient'[s] = << >> /\ ~Serving(s)
  BY <1>1, <1>2 DEF SessionBacked, Serving
<1>3. CASE /\ Usable(s)
           /\ toServer'[s] \in {toServer[s], << >>}
           /\ toClient'[s] \in {toClient[s], << >>}
           /\ Awaits(t, s)' => /\ Awaits(t, s)
                               /\ call'[t].msg = call[t].msg
                               /\ call'[t].op = call[t].op
  <2>1. \A u \in Threads : Awaits(u, s)' => /\ Awaits(u, s)
                                            /\ call'[u].msg = call[u].msg
                                            /\ call'[u].op = call[u].op
    BY <1>3, AwaitsKept
  <2>2. SessionBacked(s)
    BY DEF HandleInvariant
  <2>3. \A m : /\ RequestBacked(s, m) => RequestBacked(s, m)'
               /\ ReplyGranted(s, m) => ReplyGranted(s, m)'
               /\ Backed(s, m) => Backed(s, m)'
    BY <1>1, <2>1 DEF RequestBacked, ReplyGranted, Backed, Known, Granted, Open
  <2> QED
    BY <1>1, <1>3, <2>2, <2>3 DEF SessionBacked
<1> QED
  BY <1>2, <1>3 DEF Quiet

\* The steps of a thread that give no handle to the application.
LEMMA HandlesKept ==
  ASSUME Discipline = "own",
         TypeOK, SlotInvariant, HandleInvariant, NEW t \in Threads, Undisturbed(t),
         nextCall' = nextCall \/ nextCall' = nextCall + 1,
         \A i \in Slots : \/ ContextKnown(i)'
                          \/ /\ contextOwner'[i] \in {None, contextOwner[i]}
                             /\ contextArray'[i].pcsc = contextArray[i].pcsc,
         \A k \in Slots : /\ CardHeld(k)
                          /\ cardArray[k].used =>
                               \/ cardArray'[k] = cardArray[k]
                               \/ Connecting(t) /\ k = call[t].card
                          /\ cardOwner[k] = None => cardOwner'[k] = None,
         \A k \in Slots :
           cardOwner'[k] # None /\ Live(cardArray[k].ctx) /\ Spares(t, k)
             => Spares(t, k)',
         Connecting(t)' => \/ Connecting(t) /\ call'[t].card = call[t].card
                           \/ ~cardArray[call'[t].card].used,
         CardClaimed(t)',
         CallBacked(t)',
         \A s \in Sessions : Quiet(t, s) \/ SessionBacked(s)'
  PROVE  HandleInvariant'
<1>1. \A i \in Slots : ContextKnown(i)'
  BY ContextKept
<1>2. \A k \in Slots : CardKnown(k)'
  BY CardKept
<1>3. \A k \in Slots : CardApart(k)'
  BY ApartKept
<1>4. \A u \in Threads : CardClaimed(u)'
  <2>1. OthersKeep(t)
    BY DEF Undisturbed
  <2>2. ASSUME NEW u \in Threads \ {t} PROVE CardClaimed(u)'
    BY <2>1, ClaimKept
  <2> QED
    BY <2>2
<1>5. \A u \in Threads : CallBacked(u)'
  BY BackedKept
<1>6. \A s \in Sessions : SessionBacked(s)'
  BY SessionKept1
<1> QED
  BY <1>1, <1>2, <1>3, <1>4, <1>5, <1>6 DEF HandleInvariant

----------------------------------------------------------------------------
\* The steps that leave the tables alone.
LEMMA TablesUntouched ==
  ASSUME Discipline = "own",
         TypeOK, SlotInvariant, HandleInvariant, NEW t \in Threads, OthersKeep(t),
         nextCall' = nextCall \/ nextCall' = nextCall + 1,
         \A i \in Slots : /\ contextArray'[i].session = contextArray[i].session
                          /\ contextArray'[i].pcsc = contextArray[i].pcsc,
         \A s \in Sessions : Usable(s)' => Usable(s),
         \A s \in Sessions : Quiet(t, s) \/ SessionBacked(s)',
         UNCHANGED <<cardArray, contextOwner, cardOwner>>,
         UNCHANGED serverVars,
         Connecting(t)' => /\ Connecting(t)
                           /\ call'[t].card = call[t].card
                           /\ call'[t].ctx = call[t].ctx,
         Active(t)' /\ call'[t].op \in {"Connect", "Disconnect"} =>
           /\ Active(t)
           /\ call'[t].ctx = call[t].ctx
           /\ call'[t].op = call[t].op
           /\ call'[t].op = "Connect" => call'[t].id = call[t].id
           /\ call'[t].op = "Disconnect" => call'[t].msg.arg = call[t].msg.arg,
         CallBacked(t)'
  PROVE  HandleInvariant'
<1>1. ASSUME NEW i \in Slots, Live(i)' PROVE Live(i)
  <2>1. contextArray'[i].session \in Sessions
    BY <1>1, TableTypes DEF Live
  <2> QED
    BY <1>1, <2>1 DEF Live, Usable
<1>2. Undisturbed(t)
  BY <1>1 DEF Undisturbed, Steady
<1>3. \A k \in Slots : CardHeld(k)
  BY DEF CardHeld
<1>4. ASSUME NEW k \in Slots, Spares(t, k) PROVE Spares(t, k)'
  BY <1>4 DEF Spares
<1>5. CardClaimed(t)'
  <2> SUFFICES ASSUME Connecting(t)' PROVE CardClaimed(t)'
    BY DEF CardClaimed
  <2>1. CardClaimed(t) /\ Connecting(t)
    BY DEF HandleInvariant
  <2>2. \A u \in Threads \ {t} : Connecting(u)' => Connecting(u) /\ call'[u] = call[u]
    BY DEF Connecting, OthersKeep
  <2> QED
    BY <2>1, <2>2 DEF CardClaimed
<1>6. \A i \in Slots : contextOwner'[i] \in {None, contextOwner[i]}
  OBVIOUS
<1>7. \A k \in Slots : /\ cardArray[k].used => cardArray'[k] = cardArray[k]
                       /\ cardOwner[k] = None => cardOwner'[k] = None
  OBVIOUS
<1> QED
  BY <1>2, <1>3, <1>4, <1>5, <1>6, <1>7, HandlesKept

\* The steps with which a call ends, or blocks.
LEMMA EndKeepsHandles ==
  ASSUME Discipline = "own",
         TypeOK, SlotInvariant, HandleInvariant, NEW t \in Threads, OthersKeep(t),
         pc'[t] \in {"idle", "blocked", "done"},
         nextCall' = nextCall \/ nextCall' = nextCall + 1,
         \A i \in Slots : /\ contextArray'[i].session = contextArray[i].session
                          /\ contextArray'[i].pcsc = contextArray[i].pcsc,
         \A s \in Sessions : Usable(s)' =>
           /\ Usable(s)
           /\ toServer'[s] \in {toServer[s], << >>}
           /\ toClient'[s] \in {toClient[s], << >>},
         UNCHANGED <<cardArray, contextOwner, cardOwner>>,
         UNCHANGED serverVars
  PROVE  HandleInvariant'
<1>1. ~Active(t)' /\ ~Connecting(t)' /\ CallBacked(t)'
  BY DEF Active, Connecting, CallBacked, Unsent
<1>2. \A s \in Sessions : Quiet(t, s)
  BY DEF Quiet, Awaits
<1> QED
  BY <1>1, <1>2, TablesUntouched

LEMMA DieKeepsHandles ==
  ASSUME Discipline = "own",
         TypeOK, SlotInvariant, HandleInvariant, NEW t \in Threads, Die,
         UNCHANGED serverVars
  PROVE  HandleInvariant'
<1> USE DEF Die, tableVars, threadVars, ownerVars
<1>1. \A s \in Sessions : ~Usable(s)'
  BY DEF Usable
<1>2. \A s \in Sessions : Quiet(t, s)
  BY <1>1 DEF Quiet
<1>3. /\ OthersKeep(t)
      /\ Active(t)' <=> Active(t)
      /\ Connecting(t)' <=> Connecting(t)
  BY DEF OthersKeep, Active, Connecting
<1>4. CallBacked(t)'
  <2>1. CallBacked(t)
    BY DEF HandleInvariant
  <2>2. Unsent(t)' \/ pc'[t] = "finish" => ~Live(call[t].ctx)'
    BY <1>1, TableTypes DEF Live, Unsent, Active
  <2> QED
    BY <2>1, <2>2 DEF CallBacked, Unsent
<1> QED
  BY <1>1, <1>2, <1>3, <1>4, TablesUntouched

\* The application asks with the handles it holds: they are open.
LEMMA BeginKeepsHandles ==
  ASSUME Discipline = "own",
         TypeOK, SlotInvariant, HandleInvariant, NEW t \in Threads,
         NEW op \in AllOps, NEW i \in Slots, NEW k, NEW arg, NEW to \in {"card", "send"},
         Begin(t, to, NewCall(nextCall, op, i, k, arg)),
         op = "Connect" => to = "card",
         \A j \in Slots : /\ contextArray'[j].session = contextArray[j].session
                          /\ contextArray'[j].pcsc = contextArray[j].pcsc,
         \A j \in Slots : contextOwner'[j] \in {None, contextOwner[j]},
         \A l \in Slots : CardHeld(l) /\ (cardOwner[l] = None => cardOwner'[l] = None),
         UNCHANGED cardArray, UNCHANGED connVars, UNCHANGED serverVars,
         Live(i) => Backed(contextArray[i].session, Request(nextCall, op, arg)),
         op = "Disconnect" /\ Live(i) =>
           \A l \in Slots : cardOwner'[l] # None /\ cardArray[l].ctx = i =>
                               cardArray[l].pcsc # arg
  PROVE  HandleInvariant'
<1>1. /\ OthersKeep(t)
      /\ pc'[t] = to
      /\ call'[t] = NewCall(nextCall, op, i, k, arg)
      /\ nextCall' = nextCall + 1
  BY BeginEffect
<1>2. /\ call'[t].id = nextCall
      /\ call'[t].op = op
      /\ call'[t].ctx = i
      /\ call'[t].msg = Request(nextCall, op, arg)
      /\ call'[t].msg.op = op
      /\ call'[t].msg.arg = arg
  BY <1>1 DEF NewCall, Request
<1>3. \A s \in Sessions : Usable(s)' <=> Usable(s)
  BY DEF Usable, connVars
<1>4. Undisturbed(t)
  <2>1. ASSUME NEW j \in Slots, Live(j)' PROVE Live(j)
    BY <2>1 DEF Live, Usable, connVars
  <2> QED
    BY <1>1, <2>1 DEF Undisturbed, Steady
<1>5. ASSUME NEW l \in Slots, cardOwner'[l] # None, Live(cardArray[l].ctx)
      PROVE  Spares(t, l)'
  <2> SUFFICES ASSUME i = cardArray[l].ctx
               PROVE  /\ op = "Connect" => nextCall # cardArray[l].pcsc
                      /\ op = "Disconnect" => arg # cardArray[l].pcsc
    BY <1>2 DEF Spares
  <2>1. CardHeld(l) /\ CardKnown(l)
    BY DEF HandleInvariant
  <2>2. cardArray[l].pcsc < nextCall
    BY <1>5, <2>1 DEF CardHeld, CardKnown
  <2>3. nextCall # cardArray[l].pcsc
    BY <2>2, CardTypes, NextCallType
  <2> QED
    BY <1>5, <2>3
<1>6. ~Connecting(t)' /\ CardClaimed(t)'
  BY <1>1, <1>2 DEF Connecting, CardClaimed
<1>7. CallBacked(t)'
  <2>1. Live(call[t].ctx)' => Live(i)
    BY <1>2 DEF Live, Usable, connVars
  <2>2. SessionOf(t)' = contextArray[i].session
    BY <1>2 DEF SessionOf
  <2>3. \A s, m : Backed(s, m) => Backed(s, m)'
    BY DEF Backed, Known, Open, serverVars
  <2> QED
    BY <1>1, <1>2, <2>1, <2>2, <2>3 DEF CallBacked, Unsent
<1>8. \A s \in Sessions : Quiet(t, s)
  BY <1>1, <1>3 DEF Quiet, Awaits, connVars
<1>9. \A l \in Slots : cardArray'[l] = cardArray[l]
  OBVIOUS
<1> QED
  BY <1>1, <1>4, <1>5, <1>6, <1>7, <1>8, <1>9, HandlesKept

LEMMA CallKeepsHandles ==
  ASSUME TypeOK, SlotInvariant, HandleInvariant, Discipline = "own",
         NEW t \in Threads, Call(t), UNCHANGED serverVars
  PROVE  HandleInvariant'
<1>0. ASSUME NEW op, NEW rv, Refuse(t, op, rv), UNCHANGED connVars,
             UNCHANGED <<contextArray, cardArray, contextOwner, cardOwner>>
      PROVE  HandleInvariant'
  <2>1. OthersKeep(t) /\ pc'[t] = "done" /\ nextCall' = nextCall + 1
    BY <1>0, RefuseEffect
  <2> QED
    BY <1>0, <2>1, EndKeepsHandles DEF connVars, Usable
<1>1. CASE TlsInitFails(t) \/ NoContext(t)
  BY <1>0, <1>1 DEF TlsInitFails, NoContext, ownerVars
<1>2. CASE NoEnvironment(t)
  BY <1>2, DieKeepsHandles DEF NoEnvironment
<1>3. CASE EstablishContext(t)
  <2>1. PICK i \in Slots :
          /\ contextArray' = [contextArray EXCEPT ![i].used = TRUE]
          /\ Begin(t, "send", NewCall(nextCall, "EstablishContext", i, NoSlot, NoCall))
    BY <1>3 DEF EstablishContext
  <2>2. \A j \in Slots : /\ contextArray'[j].session = contextArray[j].session
                         /\ contextArray'[j].pcsc = contextArray[j].pcsc
    BY <2>1, SlotTypes DEF Contexts
  <2>3. Backed(contextArray[i].session, Request(nextCall, "EstablishContext", NoCall))
    <3>1. Request(nextCall, "EstablishContext", NoCall).op = "EstablishContext"
      BY DEF Request
    <3> QED
      BY <3>1 DEF Backed, Known, ContextOps
  <2>4. \A l \in Slots : CardHeld(l)
    BY <1>3 DEF EstablishContext, ownerVars, CardHeld
  <2>5. UNCHANGED <<cardArray, contextOwner, cardOwner>> /\ UNCHANGED connVars
    BY <1>3 DEF EstablishContext, ownerVars
  <2>6. "EstablishContext" \in AllOps
    BY DEF AllOps
  <2> QED
    BY <2>1, <2>2, <2>3, <2>4, <2>5, <2>6, BeginKeepsHandles
<1>4. ASSUME NEW op \in AllOps, BlockOnMutex(t, op) PROVE HandleInvariant'
  BY <1>4, BeginEffect, EndKeepsHandles
  DEF BlockOnMutex, tableVars, ownerVars, connVars, Usable
<1>5. ASSUME NEW op \in AllOps, NEW i \in Slots, ContextCall(t, op, i)
      PROVE  HandleInvariant'
  <2>1. /\ contextOwner[i] = t
        /\ op \in {"ReleaseContext", "Connect"} \cup ContextOps
        /\ UNCHANGED <<contextArray, cardArray>>
        /\ UNCHANGED connVars
    BY <1>5 DEF ContextCall, MayUseContext, Held, tableVars
  <2>2. contextArray[i].used
    BY <2>1, SlotTypes DEF SlotInvariant, OwnedSlotsUsed
  <2>3. CASE \E rv \in BadArguments(op) : Refuse(t, op, rv)
    <3>1. op # "ReleaseContext"
      BY <2>3, LibraryChecks
    <3> QED
      BY <1>0, <1>5, <2>1, <2>3, <3>1 DEF ContextCall
  <2>4. CASE Begin(t, IF op = "Connect" THEN "card" ELSE "send",
                   NewCall(nextCall, op, i, NoSlot, contextArray[i].pcsc))
    <3> DEFINE arg == contextArray[i].pcsc
    <3>1. /\ \A j \in Slots : contextOwner'[j] \in {None, contextOwner[j]}
          /\ \A l \in Slots : cardOwner[l] = None => cardOwner'[l] = None
      BY <1>5, SlotTypes, CardTypes DEF ContextCall
    <3>2. ASSUME NEW l \in Slots PROVE CardHeld(l)
      <4> SUFFICES ASSUME cardOwner'[l] # None PROVE CardHeld(l)
        BY DEF CardHeld
      <4>1. CASE op = "ReleaseContext"
        <5>1. cardArray[l].ctx # i /\ cardOwner'[l] = cardOwner[l]
          BY <1>5, <4>1, CardTypes DEF ContextCall
        <5> QED
          BY <1>5, <2>1, <4>1, <5>1, SlotTypes DEF ContextCall, CardHeld
      <4>2. CASE op # "ReleaseContext"
        BY <1>5, <2>1, <4>2 DEF ContextCall, CardHeld
      <4> QED
        BY <4>1, <4>2
    <3>3. Live(i) => Backed(contextArray[i].session, Request(nextCall, op, arg))
      <4>1. t # None /\ ContextKnown(i)
        BY ClientAssumption DEF HandleInvariant
      <4> QED
        BY <2>1, <4>1 DEF ContextKnown, Backed, Known, Request, ContextOps
    <3>4. op # "Disconnect"
      BY <2>1 DEF ContextOps
    <3>5. PICK to \in {"card", "send"} :
            /\ op = "Connect" => to = "card"
            /\ Begin(t, to, NewCall(nextCall, op, i, NoSlot, arg))
      BY <2>4
    <3> QED
      BY <2>1, <3>1, <3>2, <3>3, <3>4, <3>5, BeginKeepsHandles
  <2> QED
    BY <1>5, <2>2, <2>3, <2>4 DEF ContextCall
<1>6. ASSUME NEW op \in AllOps, NEW k \in Slots, CardCall(t, op, k)
      PROVE  HandleInvariant'
  <2>1. /\ cardOwner[k] = t
        /\ op \in {"Cancel"} \cup CardOps
        /\ UNCHANGED <<contextArray, cardArray, contextOwner>>
        /\ UNCHANGED connVars
    BY <1>6 DEF CardCall, MayUseCard, Held, tableVars
  <2>2. t # None /\ CardKnown(k) /\ cardArray[k].used /\ cardArray[k].ctx \in Slots
    BY <2>1, ClientAssumption, CardTypes DEF HandleInvariant, CardKnown
  <2>3. CASE \E rv \in BadArguments(op) : Refuse(t, op, rv)
    <3>1. op # "Disconnect"
      BY <2>3, LibraryChecks
    <3> QED
      BY <1>0, <1>6, <2>1, <2>3, <3>1 DEF CardCall
  <2>4. CASE Begin(t, "send", NewCall(nextCall, op, cardArray[k].ctx, k,
                   IF op = "Cancel" THEN NoCall ELSE cardArray[k].pcsc))
    <3>1. PICK i \in Slots, arg \in {NoCall, cardArray[k].pcsc} :
            /\ i = cardArray[k].ctx
            /\ arg = IF op = "Cancel" THEN NoCall ELSE cardArray[k].pcsc
            /\ Begin(t, "send", NewCall(nextCall, op, i, k, arg))
      BY <2>2, <2>4
    <3>2. \A l \in Slots : /\ CardHeld(l)
                           /\ cardOwner[l] = None => cardOwner'[l] = None
      BY <1>6, <2>1, CardTypes DEF CardCall, CardHeld
    <3>3. Live(i) => Backed(contextArray[i].session, Request(nextCall, op, arg))
      BY <2>1, <2>2, <3>1 DEF CardKnown, Backed, Known, Request, CardOps, ContextOps
    <3>4. ASSUME op = "Disconnect", Live(i), NEW l \in Slots, cardOwner'[l] # None,
                 cardArray[l].ctx = i
          PROVE  cardArray[l].pcsc # arg
      <4>1. cardOwner'[k] = None /\ arg = cardArray[k].pcsc
        BY <1>6, <3>1, <3>4, CardTypes DEF CardCall
      <4>2. l # k /\ cardOwner[l] # None
        BY <3>2, <3>4, <4>1
      <4>3. CardApart(l)
        BY DEF HandleInvariant
      <4> QED
        BY <2>1, <2>2, <3>1, <3>4, <4>1, <4>2, <4>3 DEF CardApart
    <3>5. op # "Connect"
      BY <2>1 DEF CardOps
    <3>6. \A j \in Slots : /\ contextArray'[j].session = contextArray[j].session
                           /\ contextArray'[j].pcsc = contextArray[j].pcsc
                           /\ contextOwner'[j] \in {None, contextOwner[j]}
      BY <2>1
    <3> QED
      BY <2>1, <3>1, <3>2, <3>3, <3>4, <3>5, <3>6, BeginKeepsHandles
  <2> QED
    BY <1>6, <2>2, <2>3, <2>4 DEF CardCall
<1>7. ASSUME NEW i \in Slots, CancelContext(t, i) PROVE HandleInvariant'
  BY <1>0, <1>7 DEF CancelContext, tableVars, ownerVars
<1> QED
  BY <1>1, <1>2, <1>3, <1>4, <1>5, <1>6, <1>7 DEF Call

----------------------------------------------------------------------------
LEMMA ExchangedMessage ==
  ASSUME TypeOK, NEW t \in Threads, NEW rv, NEW m, NEW a, Exchanged(t, rv, m, a)
  PROVE  call'[t].msg = m /\ call'[t].card = call[t].card
<1>1. call[t] \in Calls
  BY DEF TypeOK, ClientTypeOK, ClientDomains
<1>2. call' = [call EXCEPT ![t] = [call[t] EXCEPT !.rv = rv, !.msg = m, !.answer = a]]
  BY DEF Exchanged
<1>3. call'[t] = [call[t] EXCEPT !.rv = rv, !.msg = m, !.answer = a]
  BY <1>2 DEF TypeOK, ClientTypeOK, ClientDomains
<1> QED
  BY <1>1, <1>3 DEF Calls

\* The end of an exchange: a handle it gives is open.
LEMMA ExchangeKeepsHandles ==
  ASSUME Discipline = "own",
         TypeOK, SlotInvariant, HandleInvariant, NEW t \in Threads,
         NEW rv, NEW m, NEW a, Exchanged(t, rv, m, a), pc[t] \in {"send", "recv"},
         rv = "ok" /\ Live(call[t].ctx) =>
           Granted(SessionOf(t), call[t].id, call[t].op, m.res),
         \A s \in Sessions : Usable(s)' =>
           /\ Usable(s)
           /\ toServer'[s] \in {toServer[s], << >>}
           /\ toClient'[s] \in {toClient[s], << >>},
         UNCHANGED <<contextArray, cardArray, nextCall, contextOwner, cardOwner>>,
         UNCHANGED serverVars
  PROVE  HandleInvariant'
<1>1. /\ OthersKeep(t)
      /\ pc'[t] = AfterExchange(call[t].op)
      /\ call'[t].id = call[t].id
      /\ call'[t].op = call[t].op
      /\ call'[t].ctx = call[t].ctx
      /\ call'[t].card = call[t].card
      /\ call'[t].msg = m
      /\ call'[t].rv = rv
  BY ExchangedEffect, ExchangedMessage, ExchangedResult DEF KeepsCall
<1>2. CASE AfterExchange(call[t].op) = "done"
  BY <1>1, <1>2, EndKeepsHandles
<1>3. CASE AfterExchange(call[t].op) # "done"
  <2>1. pc'[t] = "finish" /\ call[t].op # "Disconnect" /\ Active(t)
    BY <1>1, <1>3 DEF AfterExchange, Active
  <2>2. call[t].ctx \in Slots
    BY <2>1, TableTypes
  <2>3. Live(call[t].ctx)' => Live(call[t].ctx) /\ SessionOf(t)' = SessionOf(t)
    <3>1. contextArray[call[t].ctx].session \in Sessions \cup {NoSession}
      BY <2>2, TableTypes
    <3> QED
      BY <1>1, <3>1 DEF Live, Usable, SessionOf
  <2>4. CallBacked(t)'
    BY <1>1, <2>1, <2>3 DEF CallBacked, Unsent, Granted, Open, serverVars
  <2>5. Connecting(t)' => Connecting(t)
    BY <1>1 DEF Connecting
  <2>6. \A s \in Sessions : Quiet(t, s)
    BY <2>1 DEF Quiet, Awaits
  <2> QED
    BY <1>1, <2>1, <2>4, <2>5, <2>6, TablesUntouched
<1> QED
  BY <1>2, <1>3

LEMMA FailureKeepsHandles ==
  ASSUME Discipline = "own",
         TypeOK, SlotInvariant, HandleInvariant, NEW t \in Threads,
         ExchangeFails(t), pc[t] \in {"send", "recv"},
         UNCHANGED <<contextArray, cardArray, nextCall, contextOwner, cardOwner>>,
         UNCHANGED connVars, UNCHANGED serverVars
  PROVE  HandleInvariant'
BY ExchangeKeepsHandles DEF ExchangeFails, connVars, Usable

LEMMA ReceiveReplyKeepsHandles ==
  ASSUME Discipline = "own",
         TypeOK, ReplyInvariant, HandleInvariant, NEW t \in Threads, ReceiveReply(t),
         UNCHANGED serverVars
  PROVE  HandleInvariant'
<1> USE DEF ReplyInvariant
<1>1. PICK s \in Sessions : s = call[t].session /\ s = SessionOf(t)
  BY ReceiverAlone DEF ReceiveReply
<1>2. pc[t] = "recv" /\ toClient[s] # << >> /\ Awaits(t, s)
  BY <1>1 DEF ReceiveReply, Awaits
<1>3. Tail(toClient[s]) = << >> /\ Head(toClient[s]).call = call[t].id
  BY <1>1, <1>2, ReceiverAlone DEF MessageInvariant, ReplyAwaited
<1>4. PICK rv : /\ rv # "ok" \/ rv = Head(toClient[s]).rv
                /\ Exchanged(t, rv, Head(toClient[s]), Head(toClient[s]).call)
  BY <1>1 DEF ReceiveReply
<1>5. rv = "ok" /\ Live(call[t].ctx) =>
        Granted(SessionOf(t), call[t].id, call[t].op, Head(toClient[s]).res)
  <2> SUFFICES ASSUME rv = "ok", Live(call[t].ctx)
               PROVE  Granted(s, call[t].id, call[t].op, Head(toClient[s]).res)
    BY <1>1
  <2>1. Usable(s)
    BY <1>1 DEF Live, SessionOf
  <2>2. ReplyGranted(s, Head(toClient[s]))
    BY <1>2, <2>1 DEF HandleInvariant, SessionBacked
  <2> QED
    BY <1>2, <1>3, <1>4, <2>2 DEF ReplyGranted
<1>6. \A r \in Sessions : toClient'[r] \in {toClient[r], << >>}
  BY <1>1, <1>3 DEF ReceiveReply, TypeOK, ConnTypeOK
<1>7. \A r \in Sessions : (Usable(r)' <=> Usable(r)) /\ toServer'[r] = toServer[r]
  BY DEF ReceiveReply, Usable
<1> QED
  BY <1>2, <1>4, <1>5, <1>6, <1>7, ExchangeKeepsHandles
  DEF ReceiveReply, tableVars, ownerVars

LEMMA ReceiveEndKeepsHandles ==
  ASSUME Discipline = "own",
         TypeOK, ReplyInvariant, HandleInvariant, NEW t \in Threads,
         ReceiveEnd(t) \/ ReceiveError(t), UNCHANGED serverVars
  PROVE  HandleInvariant'
<1> USE DEF ReplyInvariant
<1>1. PICK s \in Sessions : s = call[t].session /\ s = SessionOf(t)
  BY ReceiverAlone DEF ReceiveEnd, ReceiveError
<1>2. ~Live(call[t].ctx)
  BY <1>1 DEF ReceiveEnd, ReceiveError, Live, SessionOf, Usable
<1>3. CASE ReceiveEnd(t)
  <2>1. PICK rv, m, a : Exchanged(t, rv, m, a)
    BY <1>3 DEF ReceiveEnd, ExchangeFails
  <2> QED
    BY <1>2, <1>3, <2>1, ExchangeKeepsHandles
    DEF ReceiveEnd, tableVars, ownerVars, connVars, Usable
<1>4. CASE ReceiveError(t)
  <2>1. PICK rv, m, a : Exchanged(t, rv, m, a)
    BY <1>4 DEF ReceiveError, ExchangeFails
  <2>2. \A r \in Sessions : Usable(r)' =>
          /\ Usable(r)
          /\ toServer'[r] \in {toServer[r], << >>}
          /\ toClient'[r] \in {toClient[r], << >>}
    BY <1>1, <1>4 DEF ReceiveError, Break, Usable, TypeOK, ConnTypeOK
  <2> QED
    BY <1>2, <1>4, <2>1, <2>2, ExchangeKeepsHandles
    DEF ReceiveError, tableVars, ownerVars
<1> QED
  BY <1>3, <1>4

LEMMA CreateCardKeepsHandles ==
  ASSUME Discipline = "own",
         TypeOK, SlotInvariant, HandleInvariant, NEW t \in Threads, CreateCard(t),
         UNCHANGED serverVars
  PROVE  HandleInvariant'
<1>1. /\ KeepsCall(t)
      /\ pc'[t] \in {"send", "done"}
      /\ call'[t].msg = call[t].msg
      /\ pc[t] = "card"
      /\ UNCHANGED <<contextArray, nextCall, contextOwner, cardOwner>>
      /\ UNCHANGED connVars
  BY CreateCardEffect DEF CreateCard, ownerVars
<1>2. CASE FreeCards = {} /\ pc'[t] = "done" /\ UNCHANGED cardArray
  BY <1>1, <1>2, EndKeepsHandles DEF KeepsCall, connVars, Usable
<1>3. ASSUME NEW k \in Slots, First(k, FreeCards), pc'[t] = "send",
             cardArray' = [cardArray EXCEPT ![k].used = TRUE, ![k].ctx = call[t].ctx],
             call' = [call EXCEPT ![t].card = k]
      PROVE  HandleInvariant'
  <2>1. call[t] \in Calls /\ call[t].ctx \in Slots /\ Active(t) /\ call[t].op = "Connect"
    BY <1>1 DEF TypeOK, ClientTypeOK, ClientDomains, Active, SlotInvariant, SlotsClaimed
  <2>2. call'[t].card = k
    BY <1>3, <2>1 DEF TypeOK, ClientTypeOK, ClientDomains, Calls
  <2>3. /\ ~cardArray[k].used
        /\ cardArray'[k].used
        /\ cardArray'[k].ctx = call[t].ctx
        /\ \A l \in Slots \ {k} : cardArray'[l] = cardArray[l]
    BY <1>3, CardTypes DEF First, FreeCards, Cards
  <2>4. cardOwner[k] = None
    BY <2>3 DEF HandleInvariant, CardKnown
  <2>5. \A l \in Slots : /\ CardHeld(l)
                         /\ cardArray[l].used => cardArray'[l] = cardArray[l]
    BY <1>1, <2>3, <2>4 DEF CardHeld
  <2>6. OthersKeep(t) /\ call'[t].op = call[t].op /\ call'[t].ctx = call[t].ctx
        /\ call'[t].id = call[t].id
    BY <1>1 DEF KeepsCall
  <2>7. Undisturbed(t)
    <3>1. \A i \in Slots : Live(i)' => Live(i)
      BY <1>1 DEF Live, Usable, connVars
    <3> QED
      BY <1>1, <2>6, <3>1 DEF Undisturbed, Steady
  <2>8. ASSUME NEW l \in Slots, cardOwner'[l] # None, Spares(t, l)
        PROVE  Spares(t, l)'
    <3>1. cardArray'[l] = cardArray[l]
      BY <2>5, <2>8 DEF CardHeld
    <3> QED
      BY <1>1, <2>1, <2>6, <2>8, <3>1 DEF Spares
  <2>9. CardClaimed(t)'
    <3>1. ASSUME NEW u \in Threads \ {t}, Connecting(u)' PROVE call'[u].card # k
      <4>1. Connecting(u) /\ call'[u] = call[u]
        BY <2>6, <3>1 DEF OthersKeep, Connecting
      <4> QED
        BY <2>3, <4>1 DEF HandleInvariant, CardClaimed
    <3> QED
      BY <1>1, <2>2, <2>3, <2>4, <2>6, <3>1 DEF CardClaimed
  <2>10. CallBacked(t)'
    <3>1. CallBacked(t)
      BY DEF HandleInvariant
    <3>2. Live(call[t].ctx)' => Live(call[t].ctx)
      BY <1>1, <2>6 DEF Live, Usable, connVars
    <3> QED
      BY <1>1, <1>3, <2>6, <3>1, <3>2
      DEF CallBacked, Unsent, SessionOf, Backed, Known, Open, serverVars
  <2>11. \A s \in Sessions : Quiet(t, s)
    BY <1>1, <1>3 DEF Quiet, Awaits, Usable, connVars
  <2> QED
    BY <1>1, <2>2, <2>3, <2>5, <2>7, <2>8, <2>9, <2>10, <2>11, HandlesKept
<1> QED
  BY <1>2, <1>3 DEF CreateCard, TypeOK, ClientTypeOK, ClientDomains

LEMMA OpenConnectionKeepsHandles ==
  ASSUME Discipline = "own",
         TypeOK, ReplyInvariant, HandleInvariant, NEW t \in Threads, OpenConnection(t),
         UNCHANGED serverVars
  PROVE  HandleInvariant'
<1> USE DEF ReplyInvariant
<1>1. /\ pc[t] = "send" /\ call[t].op = "EstablishContext" /\ Active(t)
      /\ UNCHANGED <<pc, call, nextCall, cardArray, contextOwner, cardOwner>>
      /\ UNCHANGED <<toServer, toClient, broken>>
  BY DEF OpenConnection, Active, threadVars, ownerVars
<1>2. PICK i \in Slots, c \in Sessions :
        i = call[t].ctx /\ c = call[t].id /\ contextOwner[i] = None
  BY <1>1, TableTypes DEF SlotInvariant, SlotsClaimed
<1>3. clientEnd[c] = "none"
  BY <1>1, <1>2 DEF OpenConnection, SessionInvariant, SessionsFresh
<1>4. /\ \A j \in Slots \ {i} : contextArray'[j] = contextArray[j]
      /\ \A j \in Slots : contextArray'[j].pcsc = contextArray[j].pcsc
      /\ \A s \in Sessions \ {c} : Usable(s)' <=> Usable(s)
  BY <1>2, SlotTypes, TableTypes DEF OpenConnection, Contexts, Usable
<1>5. \A j \in Slots : contextArray[j].session # c
  BY <1>3, TableTypes DEF SessionInvariant, SessionsApart
<1>6. Undisturbed(t)
  <2>1. OthersKeep(t)
    BY <1>1 DEF OthersKeep
  <2>2. ASSUME NEW j \in Slots, j # i PROVE Steady(j)
    <3>1. contextArray'[j].session = contextArray[j].session
      BY <1>4, <2>2
    <3>2. contextArray[j].session \in (Sessions \ {c}) \cup {NoSession}
      BY <1>5, TableTypes
    <3> QED
      BY <1>4, <3>1, <3>2, SlotTypes DEF Steady, Live, Usable, OpenConnection
  <2> QED
    BY <1>1, <1>2, <2>1, <2>2 DEF Undisturbed
<1>7. ASSUME NEW s \in Sessions PROVE Quiet(t, s)
  <2>1. ~Awaits(t, s)'
    BY <1>1 DEF Awaits
  <2>2. CASE s # c
    BY <1>1, <1>4, <2>1, <2>2 DEF Quiet
  <2>3. CASE s = c
    <3>1. \A u \in Threads : ~Awaits(u, c)
      BY <1>2, <1>5, TableTypes DEF Awaits, SessionOf, Active
    <3>2. /\ toServer[c] = << >> /\ toClient[c] = << >>
          /\ ~broken[c] => ~Serving(c)
      BY <3>1 DEF MessageInvariant, RequestAwaited, ServiceAwaited, ReplyAwaited
    <3> QED
      BY <1>1, <2>3, <3>2 DEF Quiet, Usable
  <2> QED
    BY <2>2, <2>3
<1>8. \A k \in Slots : CardHeld(k)
  BY <1>1 DEF CardHeld
<1>9. /\ \A k \in Slots : Spares(t, k) => Spares(t, k)'
      /\ Connecting(t)' <=> Connecting(t)
      /\ CardClaimed(t)'
  BY <1>1 DEF Spares, Connecting, CardClaimed
<1>10. CallBacked(t)'
  <2>1. call[t].msg.op = "EstablishContext"
    BY <1>1 DEF HandleInvariant, CallBacked
  <2> QED
    BY <1>1, <2>1 DEF CallBacked, Backed, Known, ContextOps
<1>11. /\ \A j \in Slots : contextOwner'[j] \in {None, contextOwner[j]}
       /\ \A k \in Slots : /\ cardArray'[k] = cardArray[k]
                           /\ cardOwner[k] = None => cardOwner'[k] = None
       /\ ~Connecting(t)'
       /\ nextCall' = nextCall
  BY <1>1 DEF Connecting
<1> QED
  BY <1>4, <1>6, <1>7, <1>8, <1>9, <1>10, <1>11, HandlesKept

LEMMA SendKeepsHandles ==
  ASSUME Discipline = "own",
         TypeOK, ReplyInvariant, HandleInvariant, NEW t \in Threads, Send(t),
         UNCHANGED serverVars
  PROVE  HandleInvariant'
<1> USE DEF ReplyInvariant
<1>1. /\ pc[t] = "send" /\ Active(t)
      /\ UNCHANGED <<contextArray, cardArray, nextCall, contextOwner, cardOwner>>
      /\ UNCHANGED <<clientEnd, serverEnd, broken, toClient>>
      /\ call' = call
  BY DEF Send, Active, tableVars, ownerVars
<1>2. OthersKeep(t) /\ pc'[t] = "enter"
  BY MoveEffect DEF Send, KeepsCall
<1>3. PICK s \in Sessions : s = SessionOf(t)
  BY <1>1, TableTypes DEF Send, SessionOf
<1>4. CallBacked(t)
  BY DEF HandleInvariant
<1>5. CallBacked(t)'
  BY <1>1, <1>2, <1>4 DEF CallBacked, Unsent
<1>6. /\ Active(t)' <=> Active(t)
      /\ Connecting(t)' <=> Connecting(t)
  BY <1>1, <1>2 DEF Active, Connecting
<1>7. \A r \in Sessions : Usable(r)' <=> Usable(r)
  BY <1>1 DEF Usable
<1>8. ASSUME NEW r \in Sessions \ {s} PROVE Quiet(t, r)
  <2>1. ~Awaits(t, r)'
    BY <1>1, <1>3 DEF Awaits, SessionOf
  <2>2. toServer'[r] = toServer[r]
    BY <1>3 DEF Send, TypeOK, ConnTypeOK
  <2> QED
    BY <1>1, <1>7, <2>1, <2>2 DEF Quiet
<1>9. SessionBacked(s)'
  <2> SUFFICES ASSUME Usable(s) PROVE SessionBacked(s)'
    BY <1>7 DEF SessionBacked
  <2>1. \A u \in Threads : ~Awaits(u, s)
    BY <1>1, <1>3, OneThreadPerSession DEF Alone, Awaits, Active
  <2>2. toServer[s] = << >> /\ toClient[s] = << >> /\ ~Serving(s)
    BY <2>1 DEF MessageInvariant, RequestAwaited, ServiceAwaited, ReplyAwaited, Usable
  <2>3. Head(toServer'[s]) = call[t].msg
    <3>1. toServer'[s] = Append(toServer[s], call[t].msg)
      BY <1>3 DEF Send, TypeOK, ConnTypeOK
    <3> QED
      BY <2>2, <3>1
  <2>4. Live(call[t].ctx)
    BY <1>3 DEF Send, Live, SessionOf
  <2>5. Backed(s, call[t].msg)
    BY <1>1, <1>3, <1>4, <2>4 DEF CallBacked, Unsent
  <2> QED
    BY <1>1, <2>2, <2>3, <2>5
    DEF SessionBacked, Serving, Backed, Known, Open, serverVars
<1>10. \A r \in Sessions : Quiet(t, r) \/ SessionBacked(r)'
  BY <1>8, <1>9
<1> QED
  BY <1>1, <1>2, <1>5, <1>6, <1>7, <1>10, TablesUntouched

LEMMA EnterRecvKeepsHandles ==
  ASSUME Discipline = "own",
         TypeOK, SlotInvariant, HandleInvariant, NEW t \in Threads, EnterRecv(t),
         UNCHANGED serverVars
  PROVE  HandleInvariant'
<1>1. CASE SessionOf(t) = NoSession
  BY <1>1, DieKeepsHandles DEF EnterRecv
<1>2. CASE SessionOf(t) # NoSession
  <2>1. call' = [call EXCEPT ![t] = [call[t] EXCEPT !.session = SessionOf(t)]]
    BY <1>2 DEF EnterRecv
  <2>2. call[t] \in Calls /\ pc[t] = "enter"
    BY DEF EnterRecv, TypeOK, ClientTypeOK, ClientDomains
  <2>3. call'[t].card = call[t].card
    BY <2>1, <2>2 DEF Calls, TypeOK, ClientTypeOK, ClientDomains
  <2>4. /\ KeepsCall(t) /\ pc'[t] = "recv" /\ call'[t].msg = call[t].msg
        /\ UNCHANGED <<contextArray, cardArray, nextCall, contextOwner, cardOwner>>
        /\ UNCHANGED connVars
    BY <1>2, EnterRecvEffect DEF tableVars, ownerVars
  <2>5. CallBacked(t)'
    <3>1. CallBacked(t)
      BY DEF HandleInvariant
    <3> QED
      BY <2>2, <2>4, <3>1 DEF CallBacked, Unsent, KeepsCall
  <2>6. /\ Active(t)' <=> Active(t)
        /\ Connecting(t)' <=> Connecting(t)
    BY <2>2, <2>4 DEF Active, Connecting, KeepsCall
  <2>7. \A s \in Sessions : Quiet(t, s) /\ (Usable(s)' <=> Usable(s))
    BY <2>2, <2>4 DEF Quiet, Awaits, SessionOf, KeepsCall, Usable, connVars
  <2> QED
    BY <2>3, <2>4, <2>5, <2>6, <2>7, TablesUntouched DEF KeepsCall
<1> QED
  BY <1>1, <1>2

LEMMA FinishEstablishKeepsHandles ==
  ASSUME Discipline = "own",
         TypeOK, SlotInvariant, HandleInvariant, NEW t \in Threads, FinishEstablish(t),
         UNCHANGED serverVars
  PROVE  HandleInvariant'
<1>1. /\ pc[t] = "finish" /\ call[t].op = "EstablishContext" /\ Active(t)
      /\ UNCHANGED <<cardArray, call, nextCall, cardOwner>>
      /\ UNCHANGED connVars
  BY DEF FinishEstablish, Finishing, Active
<1>2. OthersKeep(t) /\ pc'[t] = "done"
  BY <1>1, MoveEffect DEF FinishEstablish, KeepsCall
<1>3. PICK i \in Slots : i = call[t].ctx /\ contextOwner[i] = None
  BY <1>1 DEF SlotInvariant, SlotsClaimed
<1>4. \A j \in Slots : /\ contextArray'[j].session = contextArray[j].session
                       /\ j # i => contextArray'[j] = contextArray[j]
  BY <1>3, SlotTypes DEF FinishEstablish, Contexts
<1>5. CASE call[t].rv # "ok"
  <2>1. contextOwner' = contextOwner
    BY <1>5 DEF FinishEstablish
  <2>2. \A j \in Slots : contextArray'[j].pcsc = contextArray[j].pcsc
    BY <1>5, SlotTypes DEF FinishEstablish, Contexts
  <2> QED
    BY <1>1, <1>2, <1>4, <2>1, <2>2, EndKeepsHandles DEF connVars, Usable
<1>6. CASE call[t].rv = "ok"
  <2>1. /\ contextArray'[i].pcsc = call[t].msg.res
        /\ \A j \in Slots \ {i} : contextOwner'[j] = contextOwner[j]
    BY <1>3, <1>6, SlotTypes DEF FinishEstablish, Contexts
  <2>2. \A j \in Slots : Live(j)' <=> Live(j)
    BY <1>1, <1>4 DEF Live, Usable, connVars
  <2>3. Undisturbed(t)
    BY <1>2, <1>4, <2>2 DEF Undisturbed, Steady
  <2>4. ContextKnown(i)'
    <3>1. CallBacked(t)
      BY DEF HandleInvariant
    <3> QED
      BY <1>1, <1>3, <1>4, <1>6, <2>1, <2>2, <3>1
      DEF ContextKnown, CallBacked, Granted, SessionOf, serverVars
  <2>5. ASSUME NEW k \in Slots PROVE CardHeld(k)
    <3>1. CardKnown(k)
      BY DEF HandleInvariant
    <3> QED
      BY <1>1, <1>3, <2>1, <3>1, CardTypes DEF CardHeld, CardKnown
  <2>6. /\ ~Connecting(t)' /\ CardClaimed(t)' /\ CallBacked(t)'
        /\ \A k \in Slots : Spares(t, k)'
    BY <1>2 DEF Connecting, CardClaimed, CallBacked, Unsent, Spares, Active
  <2>7. \A s \in Sessions : Quiet(t, s)
    BY <1>1, <1>2 DEF Quiet, Awaits, Usable, connVars
  <2>8. \A j \in Slots : \/ ContextKnown(j)'
                         \/ /\ contextOwner'[j] \in {None, contextOwner[j]}
                            /\ contextArray'[j].pcsc = contextArray[j].pcsc
    BY <1>4, <2>1, <2>4
  <2>9. \A k \in Slots : /\ cardArray'[k] = cardArray[k]
                         /\ cardOwner'[k] = cardOwner[k]
    BY <1>1
  <2> QED
    BY <1>1, <2>3, <2>5, <2>6, <2>7, <2>8, <2>9, HandlesKept
<1> QED
  BY <1>5, <1>6

LEMMA CloseSessionKeepsHandles ==
  ASSUME Discipline = "own",
         TypeOK, SlotInvariant, HandleInvariant, NEW t \in Threads, CloseSession(t),
         UNCHANGED serverVars
  PROVE  HandleInvariant'
<1>1. CASE SessionOf(t) = NoSession
  BY <1>1, DieKeepsHandles DEF CloseSession
<1>2. CASE SessionOf(t) # NoSession
  <2>1. /\ pc[t] = "finish" /\ call[t].op = "ReleaseContext" /\ Active(t)
        /\ UNCHANGED <<cardArray, call, nextCall, contextOwner, cardOwner>>
        /\ UNCHANGED <<serverEnd, broken, toServer, toClient>>
    BY <1>2 DEF CloseSession, Finishing, Active, ownerVars
  <2>2. OthersKeep(t) /\ pc'[t] = "unlock"
    BY <1>2, <2>1, MoveEffect DEF CloseSession, KeepsCall
  <2>3. PICK i \in Slots : i = call[t].ctx
    BY <2>1, TableTypes
  <2>4. /\ contextArray'[i].session = NoSession
        /\ \A j \in Slots \ {i} : contextArray'[j] = contextArray[j]
        /\ \A j \in Slots : contextArray'[j].pcsc = contextArray[j].pcsc
    BY <1>2, <2>3, SlotTypes DEF CloseSession, Contexts
  <2>5. \A s \in Sessions : Usable(s)' => Usable(s)
    BY <1>2, TableTypes DEF CloseSession, Usable
  <2>6. ASSUME NEW j \in Slots, Live(j)'
        PROVE  Live(j) /\ contextArray'[j].session = contextArray[j].session
    <3>1. contextArray'[j].session = contextArray[j].session
      BY <2>4, <2>6 DEF Live
    <3>2. contextArray[j].session \in Sessions
      BY <2>6, <3>1, TableTypes DEF Live
    <3> QED
      BY <1>2, <2>6, <3>1, <3>2, TableTypes DEF Live, Usable, CloseSession
  <2>7. Undisturbed(t)
    BY <2>2, <2>6 DEF Undisturbed, Steady
  <2>8. /\ ~Connecting(t)' /\ CardClaimed(t)' /\ CallBacked(t)'
        /\ \A k \in Slots : Spares(t, k)'
    BY <2>1, <2>2 DEF Connecting, CardClaimed, CallBacked, Unsent, Spares
  <2>9. \A s \in Sessions : Quiet(t, s)
    BY <2>1, <2>2, <2>5 DEF Quiet, Awaits
  <2>10. \A k \in Slots : /\ CardHeld(k)
                          /\ cardArray'[k] = cardArray[k]
                          /\ cardOwner'[k] = cardOwner[k]
    BY <2>1 DEF CardHeld
  <2>11. \A j \in Slots : contextOwner'[j] \in {None, contextOwner[j]}
    BY <2>1
  <2> QED
    BY <2>1, <2>4, <2>7, <2>8, <2>9, <2>10, <2>11, HandlesKept
<1> QED
  BY <1>1, <1>2

\* A new card is none of those the application has.
LEMMA FinishConnectKeepsHandles ==
  ASSUME Discipline = "own",
         TypeOK, ReplyInvariant, HandleInvariant, NEW t \in Threads, FinishConnect(t),
         UNCHANGED serverVars
  PROVE  HandleInvariant'
<1> USE DEF ReplyInvariant
<1>1. /\ pc[t] = "finish" /\ call[t].op = "Connect" /\ Active(t) /\ Connecting(t)
      /\ UNCHANGED <<contextArray, call, nextCall, contextOwner>>
      /\ UNCHANGED connVars
  BY DEF FinishConnect, Finishing, Active, Connecting
<1>2. OthersKeep(t) /\ pc'[t] = "done"
  BY <1>1, MoveEffect DEF FinishConnect, KeepsCall
<1>3. PICK k \in Slots : /\ k = call[t].card
                        /\ cardArray[k].used
                        /\ cardArray[k].ctx = call[t].ctx
                        /\ cardOwner[k] = None
  BY <1>1 DEF HandleInvariant, CardClaimed
<1>4. /\ \A l \in Slots \ {k} : cardArray'[l] = cardArray[l] /\ cardOwner'[l] = cardOwner[l]
      /\ \A l \in Slots : cardArray[l].used =>
           cardArray'[l] = cardArray[l] \/ (Connecting(t) /\ l = call[t].card)
  BY <1>1, <1>3, CardTypes DEF FinishConnect
<1>5. \A j \in Slots : Live(j)' <=> Live(j)
  BY <1>1 DEF Live, Usable, connVars
<1>6. Undisturbed(t)
  BY <1>1, <1>2, <1>5 DEF Undisturbed, Steady
<1>7. /\ ~Connecting(t)' /\ CardClaimed(t)' /\ CallBacked(t)'
      /\ \A l \in Slots : Spares(t, l)'
  BY <1>2 DEF Connecting, CardClaimed, CallBacked, Unsent, Spares, Active
<1>8. \A s \in Sessions : Quiet(t, s)
  BY <1>1, <1>2 DEF Quiet, Awaits, Usable, connVars
<1>9. CASE call[t].rv # "ok"
  <2>1. cardOwner' = cardOwner
    BY <1>9 DEF FinishConnect
  <2>2. \A l \in Slots : CardHeld(l)
    BY <1>1, <1>3, <1>4, <2>1 DEF CardHeld
  <2>3. \A j \in Slots : contextOwner'[j] \in {None, contextOwner[j]}
    BY <1>1
  <2> QED
    BY <1>1, <1>4, <1>6, <1>7, <1>8, <2>1, <2>2, <2>3, HandlesKept
<1>10. CASE call[t].rv = "ok"
  <2> DEFINE c == call[t].id
  <2>1. /\ cardArray'[k].pcsc = call[t].msg.res
        /\ cardArray'[k].used
        /\ cardArray'[k].ctx = call[t].ctx
        /\ cardOwner'[k] = t
    BY <1>3, <1>10, CardTypes DEF FinishConnect, Cards
  <2>2. PICK i \in Slots : i = call[t].ctx /\ contextOwner[i] = t
    BY <1>1, HeldOwner DEF SlotInvariant, SlotsClaimed
  <2>3. Live(i) => cardArray'[k].pcsc = c /\ c \in Open(contextArray[i].session)
    <3>1. CallBacked(t)
      BY DEF HandleInvariant
    <3> QED
      BY <1>1, <1>10, <2>1, <2>2, <3>1 DEF CallBacked, Granted, SessionOf
  <2>4. c < nextCall
    BY <1>1, NextCallType DEF SessionInvariant, CallsDistinct
  <2>5. CardKnown(k)'
    BY <1>1, <1>5, <2>1, <2>2, <2>3, <2>4 DEF CardKnown, Open, serverVars
  <2>6. \A l \in Slots \ {k} : CardHeld(l)
    BY <1>1, <1>4 DEF CardHeld
  <2>7. \A l \in Slots \ {k} : CardKnown(l)'
    BY <1>1, <1>6, <2>6, CardKept
  <2>8. ASSUME NEW l \in Slots \ {k}, cardOwner'[l] # None, Live(cardArray[l].ctx)
        PROVE  CardApart(l) /\ cardOwner[l] # None /\ cardArray'[l] = cardArray[l]
    BY <1>4, <2>8 DEF HandleInvariant
  <2>9. ASSUME NEW l \in Slots \ {k}, cardOwner'[l] # None, cardArray[l].ctx = i, Live(i)
        PROVE  cardArray[l].pcsc # c
    <3>1. Spares(t, l)
      BY <2>8, <2>9 DEF CardApart
    <3> QED
      BY <1>1, <2>2, <2>9, <3>1 DEF Spares
  <2>10. CardApart(k)'
    <3>1. ASSUME NEW u \in Threads PROVE Spares(u, k)'
      <4>1. CASE u = t
        BY <1>7, <4>1
      <4>2. CASE u # t
        <5>1. Active(u)' => Active(u) /\ call'[u].ctx # i
          BY <1>1, <1>2, <2>2, <4>2
          DEF Active, OthersKeep, SlotInvariant, SlotsExclusive, Alone
        <5> QED
          BY <2>1, <2>2, <5>1 DEF Spares
      <4> QED
        BY <4>1, <4>2
    <3>2. ASSUME NEW l \in Slots \ {k}, Live(i), cardOwner'[l] # None,
                 cardArray'[l].ctx = i
          PROVE  cardArray'[l].pcsc # cardArray'[k].pcsc
      BY <1>4, <2>3, <2>9, <3>2
    <3> QED
      BY <1>5, <2>1, <2>2, <3>1, <3>2 DEF CardApart
  <2>11. ASSUME NEW l \in Slots \ {k} PROVE CardApart(l)'
    <3> SUFFICES ASSUME cardOwner'[l] # None, Live(cardArray[l].ctx)' PROVE CardApart(l)'
      BY <1>4 DEF CardApart
    <3>0. PICK j \in Slots : j = cardArray[l].ctx
      BY <1>4, CardTypes DEF HandleInvariant, CardKnown
    <3>1. /\ Live(j)
          /\ CardApart(l) /\ cardOwner[l] # None /\ cardArray'[l] = cardArray[l]
      BY <1>4, <1>5, <2>8, <3>0
    <3>2. ASSUME NEW u \in Threads PROVE Spares(u, l)'
      <4>1. CASE u = t
        BY <1>7, <4>1
      <4>2. CASE u # t
        BY <1>2, <3>0, <3>1, <4>2 DEF CardApart, Spares, Active, OthersKeep
      <4> QED
        BY <4>1, <4>2
    <3>3. ASSUME NEW h \in Slots \ {l}, cardOwner'[h] # None,
                 cardArray'[h].ctx = cardArray'[l].ctx
          PROVE  cardArray'[h].pcsc # cardArray'[l].pcsc
      <4>1. CASE h = k
        BY <2>1, <2>2, <2>3, <2>9, <3>0, <3>1, <3>3, <4>1
      <4>2. CASE h # k
        BY <1>4, <3>0, <3>1, <3>3, <4>2 DEF CardApart
      <4> QED
        BY <4>1, <4>2
    <3> QED
      BY <3>2, <3>3 DEF CardApart
  <2>12. \A j \in Slots : ContextKnown(j)'
    BY <1>1, <1>6, ContextKept
  <2>13. \A u \in Threads : CardClaimed(u)'
    <3>1. \A l \in Slots : cardOwner[l] = None =>
             cardOwner'[l] = None \/ (Connecting(t) /\ l = call[t].card)
      BY <1>1, <1>3, <1>4
    <3>2. ASSUME NEW u \in Threads \ {t} PROVE CardClaimed(u)'
      BY <1>2, <1>4, <1>7, <3>1, ClaimKept
    <3> QED
      BY <1>7, <3>2
  <2>14. \A u \in Threads : CallBacked(u)'
    BY <1>6, <1>7, BackedKept
  <2>15. \A s \in Sessions : SessionBacked(s)'
    BY <1>6, <1>8, SessionKept1
  <2> QED
    BY <2>5, <2>7, <2>10, <2>11, <2>12, <2>13, <2>14, <2>15 DEF HandleInvariant
<1> QED
  BY <1>9, <1>10

LEMMA ContinueKeepsHandles ==
  ASSUME Discipline = "own",
         TypeOK, ReplyInvariant, HandleInvariant, NEW t \in Threads, Continue(t),
         UNCHANGED serverVars
  PROVE  HandleInvariant'
<1> USE DEF ReplyInvariant
<1>1. CASE NotConnected(t) \/ ReceiveInterrupted(t)
  BY <1>1, FailureKeepsHandles
  DEF NotConnected, ReceiveInterrupted, tableVars, ownerVars
<1>2. CASE SendFails(t)
  BY <1>2, FailureKeepsHandles, DieKeepsHandles DEF SendFails, tableVars, ownerVars
<1>3. CASE FinishRelease(t)
  <2>1. OthersKeep(t) /\ pc'[t] = "done"
    BY <1>3, MoveEffect DEF FinishRelease, KeepsCall
  <2>2. \A i \in Slots : /\ contextArray'[i].session = contextArray[i].session
                         /\ contextArray'[i].pcsc = contextArray[i].pcsc
    BY <1>3, SlotTypes DEF FinishRelease, Contexts
  <2> QED
    BY <1>3, <2>1, <2>2, EndKeepsHandles
    DEF FinishRelease, ownerVars, connVars, Usable
<1>4. CASE Return(t)
  <2>1. OthersKeep(t) /\ pc'[t] = "idle"
    BY <1>4 DEF Return, OthersKeep, TypeOK, ClientTypeOK, ClientDomains
  <2> QED
    BY <1>4, <2>1, EndKeepsHandles DEF Return, tableVars, ownerVars, connVars, Usable
<1> QED
  BY <1>1, <1>2, <1>3, <1>4, CreateCardKeepsHandles, OpenConnectionKeepsHandles,
     SendKeepsHandles, EnterRecvKeepsHandles, ReceiveReplyKeepsHandles,
     ReceiveEndKeepsHandles, FinishEstablishKeepsHandles, CloseSessionKeepsHandles,
     FinishConnectKeepsHandles
  DEF Continue

----------------------------------------------------------------------------
\* A child or the network changes one session: what must hold there.
LEMMA ChildKeepsHandles ==
  ASSUME TypeOK, HandleInvariant, UNCHANGED clientVars, clientEnd' = clientEnd,
         NEW s \in Sessions,
         \A r \in Sessions \ {s} : /\ toServer'[r] = toServer[r]
                                   /\ toClient'[r] = toClient[r]
                                   /\ broken'[r] = broken[r]
                                   /\ serverEnd'[r] = serverEnd[r]
                                   /\ child'[r] = child[r]
                                   /\ request'[r] = request[r]
                                   /\ service'[r] = service[r],
         Usable(s)' => Usable(s),
         SessionBacked(s)',
         ASSUME NEW i \in Slots, Usable(s), contextOwner[i] # None,
                contextArray[i].session = s,
                contextArray[i].pcsc \in service[s].contexts
         PROVE  Usable(s)' => contextArray[i].pcsc \in service'[s].contexts,
         ASSUME NEW k \in Slots, Usable(s), cardOwner[k] # None,
                NEW i \in Slots, i = cardArray[k].ctx,
                contextArray[i].session = s, cardArray[k].pcsc \in Open(s)
         PROVE  Usable(s)' => cardArray[k].pcsc \in Open(s)',
         ASSUME NEW t \in Threads, Usable(s), Unsent(t) \/ pc[t] = "finish",
                SessionOf(t) = s
         PROVE  Usable(s)' => service'[s] = service[s]
  PROVE  HandleInvariant'
<1> USE DEF clientVars, tableVars, threadVars, ownerVars
<1>1. ASSUME NEW r \in Sessions \ {s} PROVE Usable(r)' <=> Usable(r)
  BY <1>1 DEF Usable
<1>2. ASSUME NEW i \in Slots, Live(i)' PROVE Live(i) /\ Usable(contextArray[i].session)'
  <2>1. contextArray[i].session \in Sessions
    BY <1>2, TableTypes DEF Live
  <2> QED
    BY <1>1, <1>2, <2>1 DEF Live, Usable
<1>3. ASSUME NEW i \in Slots PROVE ContextKnown(i)'
  <2> SUFFICES ASSUME contextOwner[i] # None, Live(i)'
               PROVE  contextArray[i].pcsc \in service'[contextArray[i].session].contexts
    BY DEF ContextKnown
  <2>1. PICK r \in Sessions : r = contextArray[i].session
    BY TableTypes DEF Live
  <2>2. ContextKnown(i) /\ Usable(r) /\ Usable(r)' /\ Live(i)
    BY <1>2, <2>1 DEF HandleInvariant, Live, Usable
  <2>3. contextArray[i].pcsc \in service[r].contexts
    BY <2>1, <2>2 DEF ContextKnown
  <2>4. CASE r = s
    BY <2>1, <2>2, <2>3, <2>4
  <2>5. CASE r # s
    BY <2>1, <2>3, <2>5
  <2> QED
    BY <2>4, <2>5
<1>4. ASSUME NEW k \in Slots PROVE CardKnown(k)' /\ CardApart(k)'
  <2>1. CardKnown(k) /\ CardApart(k)
    BY DEF HandleInvariant
  <2>2. CASE cardOwner[k] = None
    BY <2>2 DEF CardKnown, CardApart
  <2>3. CASE cardOwner[k] # None
    <3>1. PICK i \in Slots : i = cardArray[k].ctx
      BY <2>1, <2>3, CardTypes DEF CardKnown
    <3>2. Live(i)' => Live(i)
      BY <1>2
    <3>3. CardApart(k)'
      BY <2>1, <3>1, <3>2 DEF CardApart, Spares, Active
    <3>4. ASSUME Live(i)'
          PROVE  cardArray[k].pcsc \in Open(contextArray[i].session)'
      <4>1. PICK r \in Sessions : r = contextArray[i].session
        BY <3>4, TableTypes DEF Live
      <4>2. Usable(r) /\ Usable(r)' /\ cardArray[k].pcsc \in Open(r)
        BY <1>2, <2>1, <2>3, <3>1, <3>4, <4>1 DEF CardKnown, Live, Usable
      <4>3. CASE r = s
        BY <2>3, <3>1, <4>1, <4>2, <4>3 DEF Open
      <4>4. CASE r # s
        BY <4>1, <4>2, <4>4 DEF Open
      <4> QED
        BY <4>3, <4>4
    <3> QED
      BY <2>1, <2>3, <3>1, <3>2, <3>3, <3>4 DEF CardKnown
  <2> QED
    BY <2>2, <2>3
<1>5. ASSUME NEW t \in Threads PROVE CardClaimed(t)' /\ CallBacked(t)'
  <2>1. CardClaimed(t) /\ CallBacked(t)
    BY DEF HandleInvariant
  <2>2. CardClaimed(t)'
    BY <2>1 DEF CardClaimed, Connecting
  <2>3. CASE ~Active(t)
    BY <2>1, <2>2, <2>3 DEF CallBacked, Active, Unsent
  <2>4. CASE Active(t) /\ ~Live(call[t].ctx)'
    BY <2>1, <2>2, <2>4 DEF CallBacked, Unsent
  <2>5. CASE Active(t) /\ Live(call[t].ctx)'
    <3>1. PICK i \in Slots : i = call[t].ctx
      BY <2>5, TableTypes
    <3>2. Live(i) /\ Live(i)'
      BY <1>2, <2>5, <3>1
    <3>3. PICK r \in Sessions : r = SessionOf(t) /\ r = contextArray[i].session
      BY <3>1, <3>2, TableTypes DEF Live, SessionOf
    <3>4. Usable(r) /\ Usable(r)'
      BY <3>2, <3>3 DEF Live, Usable
    <3>5. Unsent(t) \/ pc[t] = "finish" => service'[r] = service[r]
      BY <3>3, <3>4
    <3> QED
      BY <2>1, <2>2, <3>1, <3>2, <3>3, <3>5
      DEF CallBacked, Unsent, SessionOf, Backed, Known, Granted, Open
  <2> QED
    BY <2>2, <2>3, <2>4, <2>5
<1>6. ASSUME NEW r \in Sessions PROVE SessionBacked(r)'
  <2>1. CASE r # s
    <3>1. SessionBacked(r) /\ (Usable(r)' <=> Usable(r))
      BY <1>1, <2>1 DEF HandleInvariant
    <3>2. \A u \in Threads : (Awaits(u, r)' <=> Awaits(u, r)) /\ call'[u] = call[u]
      BY ClientKept
    <3>3. \A m : /\ RequestBacked(r, m) => RequestBacked(r, m)'
                 /\ ReplyGranted(r, m) => ReplyGranted(r, m)'
                 /\ Backed(r, m) => Backed(r, m)'
      BY <2>1, <3>2 DEF RequestBacked, ReplyGranted, Backed, Known, Granted, Open
    <3> QED
      BY <2>1, <3>1, <3>3 DEF SessionBacked
  <2> QED
    BY <2>1
<1> QED
  BY <1>3, <1>4, <1>5, <1>6 DEF HandleInvariant

LEMMA BreakKeepsHandles ==
  ASSUME TypeOK, HandleInvariant, UNCHANGED clientVars, clientEnd' = clientEnd,
         NEW s \in Sessions,
         \A r \in Sessions \ {s} : /\ toServer'[r] = toServer[r]
                                   /\ toClient'[r] = toClient[r]
                                   /\ broken'[r] = broken[r]
                                   /\ serverEnd'[r] = serverEnd[r]
                                   /\ child'[r] = child[r]
                                   /\ request'[r] = request[r]
                                   /\ service'[r] = service[r],
         ~Usable(s)'
  PROVE  HandleInvariant'
<1>1. SessionBacked(s)'
  BY DEF SessionBacked
<1> QED
  BY <1>1, ChildKeepsHandles

LEMMA ExitKeepsHandles ==
  ASSUME TypeOK, HandleInvariant, UNCHANGED clientVars, NEW s \in Sessions, Exit(s)
  PROVE  HandleInvariant'
<1>1. \A r \in Sessions \ {s} : /\ toServer'[r] = toServer[r]
                                /\ toClient'[r] = toClient[r]
                                /\ broken'[r] = broken[r]
                                /\ serverEnd'[r] = serverEnd[r]
                                /\ child'[r] = child[r]
                                /\ request'[r] = request[r]
                                /\ service'[r] = service[r]
  BY DEF Exit, Break, TypeOK, ServerTypeOK, ConnTypeOK
<1>2. clientEnd' = clientEnd /\ ~Usable(s)'
  BY DEF Exit, Usable, TypeOK, ConnTypeOK
<1> QED
  BY <1>1, <1>2, BreakKeepsHandles

LEMMA ReceiveRequestKeepsHandles ==
  ASSUME Discipline = "own",
         TypeOK, ReplyInvariant, HandleInvariant, UNCHANGED clientVars,
         NEW s \in Sessions, ReceiveRequest(s)
  PROVE  HandleInvariant'
<1> USE DEF ReplyInvariant
<1>1. PICK t \in Threads : Awaits(t, s) /\ toServer[s] = <<call[t].msg>>
  BY DEF ReceiveRequest, MessageInvariant, RequestAwaited
<1>2. Head(toServer[s]) = call[t].msg /\ Tail(toServer[s]) = << >>
  BY <1>1
<1>3. /\ toServer'[s] = << >> /\ toClient'[s] = << >>
      /\ request'[s] = call[t].msg
      /\ child'[s] = "execute"
      /\ UNCHANGED <<service, clientEnd, serverEnd, broken>>
  BY <1>1, <1>2
  DEF ReceiveRequest, MessageInvariant, RequestAwaited, TypeOK, ServerTypeOK, ConnTypeOK
<1>4. \A r \in Sessions \ {s} : /\ toServer'[r] = toServer[r]
                                /\ toClient'[r] = toClient[r]
                                /\ child'[r] = child[r]
                                /\ request'[r] = request[r]
  BY DEF ReceiveRequest, TypeOK, ServerTypeOK, ConnTypeOK
<1>5. SessionBacked(s)'
  <2> SUFFICES ASSUME Usable(s) PROVE RequestBacked(s, request[s])'
    BY <1>3 DEF SessionBacked, Usable
  <2>1. PICK m : m = call[t].msg
    OBVIOUS
  <2>2. toServer[s] # << >> /\ SessionBacked(s)
    BY DEF HandleInvariant, ReceiveRequest
  <2>3. Backed(s, m)
    BY <1>2, <2>1, <2>2 DEF SessionBacked
  <2>4. Backed(s, m)'
    BY <1>3, <2>3 DEF Backed, Known, Open
  <2>5. \A u \in Threads : Awaits(u, s) => u = t
    BY <1>1, OneThreadPerSession DEF Alone, Awaits, Active
  <2>6. \A u \in Threads : Awaits(u, s)' => call'[u].msg = m
    BY <2>1, <2>5, ClientKept DEF clientVars, threadVars
  <2> QED
    BY <1>3, <2>1, <2>4, <2>6 DEF RequestBacked
<1>6. Usable(s)' => Usable(s)
  BY <1>3 DEF Usable
<1> QED
  BY <1>3, <1>4, <1>5, <1>6, ChildKeepsHandles DEF Open

LEMMA SendReplyKeepsHandles ==
  ASSUME Discipline = "own",
         TypeOK, ReplyInvariant, HandleInvariant, UNCHANGED clientVars,
         NEW s \in Sessions, SendReply(s)
  PROVE  HandleInvariant'
<1> USE DEF ReplyInvariant
<1>1. /\ child'[s] = "recv"
      /\ UNCHANGED <<service, clientEnd, serverEnd, broken, toServer>>
  BY DEF SendReply, TypeOK, ServerTypeOK
<1>2. \A r \in Sessions \ {s} : /\ toClient'[r] = toClient[r]
                                /\ child'[r] = child[r]
                                /\ request'[r] = request[r]
  BY DEF SendReply, TypeOK, ServerTypeOK, ConnTypeOK
<1>3. SessionBacked(s)'
  <2> SUFFICES ASSUME Usable(s) PROVE SessionBacked(s)'
    BY <1>1 DEF SessionBacked, Usable
  <2>1. /\ toServer[s] = << >> /\ toClient[s] = << >>
        /\ ReplyGranted(s, request[s])
    BY DEF SendReply, Serving, Usable, MessageInvariant, ServiceAwaited,
           HandleInvariant, SessionBacked
  <2>2. toClient' = [toClient EXCEPT ![s] = Append(toClient[s], request[s])]
    BY DEF SendReply
  <2>3. Append(toClient[s], request[s]) = <<request[s]>>
    BY <2>1
  <2>4. Head(toClient'[s]) = request[s]
    BY <2>2, <2>3 DEF TypeOK, ConnTypeOK
  <2>5. ASSUME NEW m, ReplyGranted(s, m) PROVE ReplyGranted(s, m)'
    BY <1>1, <2>5, ClientKept DEF ReplyGranted, Granted, Open, clientVars, threadVars
  <2> QED
    BY <1>1, <2>1, <2>4, <2>5 DEF SessionBacked
<1>4. Usable(s)' => Usable(s)
  BY <1>1 DEF Usable
<1> QED
  BY <1>1, <1>2, <1>3, <1>4, ChildKeepsHandles DEF Open

\* The service carries out a request: what it closes, nobody holds.
LEMMA ExecuteKeepsHandles ==
  ASSUME Discipline = "own",
         TypeOK, ReplyInvariant, HandleInvariant, UNCHANGED clientVars,
         NEW s \in Sessions, Execute(s)
  PROVE  HandleInvariant'
<1> USE DEF ReplyInvariant
<1>1. child[s] = "execute" /\ child'[s] = "send" /\ UNCHANGED connVars
  BY DEF Execute, TypeOK, ServerTypeOK
<1>2. \A r \in Sessions \ {s} : /\ child'[r] = child[r]
                                /\ request'[r] = request[r]
                                /\ service'[r] = service[r]
  BY DEF Execute, TypeOK, ServerTypeOK
<1>3. CASE ~Usable(s)
  BY <1>1, <1>2, <1>3, BreakKeepsHandles DEF connVars, Usable
<1>4. CASE Usable(s)
  <2>1. PICK t \in Threads : Awaits(t, s)
    BY <1>1, <1>4 DEF MessageInvariant, ServiceAwaited, Serving, Usable
  <2>2. PICK i \in Slots : i = call[t].ctx
    BY <2>1, TableTypes DEF Awaits, Active
  <2>3. PICK m \in Messages : m = request[s]
    BY DEF TypeOK, ServerTypeOK
  <2>4. m = call[t].msg /\ m.op = call[t].op /\ Active(t)
    BY <1>1, <1>4, <2>1, <2>3
    DEF HandleInvariant, SessionBacked, RequestBacked, CallBacked, Awaits, Active
  <2>5. /\ contextArray[i].session = s
        /\ \A j \in Slots : contextArray[j].session = s => j = i
        /\ Live(i)
    BY <1>4, <2>1, <2>2, TableTypes
    DEF Awaits, SessionOf, SessionInvariant, SessionsApart, Live
  <2>6. m.op = "ReleaseContext" => contextOwner[i] = None
    BY <2>2, <2>4 DEF SlotInvariant, SlotsClaimed
  <2>7. service'[s] \in {service[s], After(s, m)}
    BY <2>3 DEF Execute, TypeOK, ServerTypeOK
  <2>8. ASSUME NEW j \in Slots, contextOwner[j] # None, contextArray[j].session = s,
               contextArray[j].pcsc \in service[s].contexts
        PROVE  contextArray[j].pcsc \in service'[s].contexts
    <3>1. m.op # "ReleaseContext"
      BY <2>5, <2>6, <2>8
    <3>2. service[s].contexts \subseteq After(s, m).contexts
      BY <3>1 DEF After, TypeOK, ServerTypeOK, ServiceStates
    <3> QED
      BY <2>7, <2>8, <3>2
  <2>9. ASSUME NEW k \in Slots, cardOwner[k] # None,
               cardArray[k].ctx \in Slots,
               contextArray[cardArray[k].ctx].session = s,
               cardArray[k].pcsc \in Open(s)
        PROVE  cardArray[k].pcsc \in Open(s)'
    <3>1. cardArray[k].ctx = i
      BY <2>5, <2>9
    <3>2. m.op # "ReleaseContext"
      BY <2>6, <2>9, <3>1 DEF HandleInvariant, CardKnown
    <3>3. m.op = "Disconnect" => m.arg # cardArray[k].pcsc
      BY <2>2, <2>4, <2>5, <2>9, <3>1 DEF HandleInvariant, CardApart, Spares
    <3>4. PICK c \in service[s].cards : c.card = cardArray[k].pcsc
      BY <2>9 DEF Open
    <3>5. c \in After(s, m).cards
      BY <3>2, <3>3, <3>4 DEF After, TypeOK, ServerTypeOK, ServiceStates
    <3> QED
      BY <2>7, <3>4, <3>5 DEF Open
  <2>10. ASSUME NEW u \in Threads, Unsent(u) \/ pc[u] = "finish", SessionOf(u) = s
         PROVE  FALSE
    BY <2>1, <2>4, <2>10, OneThreadPerSession DEF Alone, Awaits, Active, Unsent
  <2>11. SessionBacked(s)'
    <3>1. toServer'[s] = << >> /\ toClient'[s] = << >>
      BY <1>1, <1>4
      DEF MessageInvariant, ServiceAwaited, Serving, Usable, connVars
    <3>2. PICK q : q = request'[s]
      OBVIOUS
    <3>3. q.op = m.op /\ (q.rv = "ok" => Granted(s, q.call, q.op, q.res)')
      <4>1. CASE m.op = "SetTimeout"
        BY <2>3, <3>2, <4>1 DEF Execute, Granted
      <4>2. CASE m.op # "SetTimeout" /\ q = Reply(m, TRUE) /\ service'[s] = After(s, m)
        <5>1. q.call = m.call /\ q.op = m.op
          BY <4>2 DEF Reply, Messages
        <5>2. m.op \in {"EstablishContext", "Connect"} => q.res = m.call
          BY <4>2 DEF Reply, Messages
        <5>3. m.op = "EstablishContext" => m.call \in service'[s].contexts
          BY <4>2 DEF After, TypeOK, ServerTypeOK, ServiceStates
        <5>4. m.op = "Connect" => [card |-> m.call, ctx |-> m.arg] \in service'[s].cards
          BY <4>2 DEF After, TypeOK, ServerTypeOK, ServiceStates
        <5>5. m.op = "Connect" => m.call \in Open(s)'
          BY <5>4 DEF Open
        <5> QED
          BY <5>1, <5>2, <5>3, <5>5 DEF Granted
      <4>3. CASE m.op # "SetTimeout" /\ q = Reply(m, FALSE)
        BY <4>3 DEF Reply, Messages, Granted
      <4> QED
        BY <2>3, <3>2, <4>1, <4>2, <4>3 DEF Execute, TypeOK, ServerTypeOK
    <3>4. \A u \in Threads : Awaits(u, s)' => q.op = call'[u].op
      <4>1. \A u \in Threads : Awaits(u, s)' => u = t
        BY <2>1, <2>4, ClientKept, OneThreadPerSession DEF Alone, Awaits, Active
      <4> QED
        BY <2>4, <3>3, <4>1 DEF clientVars, threadVars
    <3> QED
      BY <1>1, <3>1, <3>2, <3>3, <3>4 DEF SessionBacked, ReplyGranted
  <2>12. Usable(s)' => Usable(s)
    BY <1>4
  <2> QED
    BY <1>1, <1>2, <2>8, <2>9, <2>10, <2>11, <2>12, ChildKeepsHandles
    DEF connVars
<1> QED
  BY <1>3, <1>4

LEMMA ServerKeepsHandles ==
  ASSUME Discipline = "own",
         TypeOK, ReplyInvariant, HandleInvariant, NEW s \in Sessions, ServerStep(s)
  PROVE  HandleInvariant'
BY ReceiveRequestKeepsHandles, ExecuteKeepsHandles, SendReplyKeepsHandles,
   ExitKeepsHandles
DEF ServerStep, ChildStep, EndOfRequests, ReplyFails, ChildDies

LEMMA NetworkKeepsHandles ==
  ASSUME TypeOK, HandleInvariant, NEW s \in Sessions, NetworkStep(s)
  PROVE  HandleInvariant'
<1>1. /\ broken'[s]
      /\ \A r \in Sessions \ {s} : /\ toServer'[r] = toServer[r]
                                   /\ toClient'[r] = toClient[r]
                                   /\ broken'[r] = broken[r]
      /\ UNCHANGED <<clientEnd, serverEnd>>
      /\ UNCHANGED <<clientVars, serverVars>>
  BY DEF NetworkStep, NetworkReset, Break, TypeOK, ConnTypeOK
<1> QED
  BY <1>1, BreakKeepsHandles DEF serverVars, Usable

----------------------------------------------------------------------------
\* There is no handle, and no call, to begin with.
THEOREM InitHandleInvariant == Init => HandleInvariant
BY DEF Init, ClientInit, ServerInit, ConnInit, HandleInvariant, ContextKnown, CardKnown,
       CardApart, CardClaimed, Connecting, CallBacked, Unsent, SessionBacked, Usable

LEMMA HandleInvariantInductive ==
  ASSUME TypeOK, ReplyInvariant, HandleInvariant, Disciplined, [Next]_vars
  PROVE  HandleInvariant'
<1>1. ASSUME NEW t \in Threads, ClientStep(t) PROVE HandleInvariant'
  BY <1>1, CallKeepsHandles, ContinueKeepsHandles
  DEF ClientStep, Disciplined, ReplyInvariant
<1>2. ASSUME NEW s \in Sessions, ServerStep(s) \/ NetworkStep(s) PROVE HandleInvariant'
  BY <1>2, ServerKeepsHandles, NetworkKeepsHandles DEF Disciplined
<1>3. CASE UNCHANGED vars
  <2> USE <1>3 DEF vars, clientVars, tableVars, threadVars, ownerVars, serverVars,
                   connVars
  <2>1. \A i \in Slots : ContextKnown(i) => ContextKnown(i)'
    BY DEF ContextKnown, Live, Usable
  <2>2. \A k \in Slots : CardKnown(k) /\ CardApart(k) => CardKnown(k)' /\ CardApart(k)'
    BY DEF CardKnown, CardApart, Spares, Active, Open, Live, Usable
  <2>3. \A t \in Threads : CardClaimed(t) => CardClaimed(t)'
    BY DEF CardClaimed, Connecting
  <2>4. \A t \in Threads : CallBacked(t) => CallBacked(t)'
    BY DEF CallBacked, Unsent, Backed, Known, Granted, Open, Live, Usable, SessionOf
  <2>5. ASSUME NEW s \in Sessions, SessionBacked(s) PROVE SessionBacked(s)'
    <3>1. \A m : /\ RequestBacked(s, m) => RequestBacked(s, m)'
                 /\ ReplyGranted(s, m) => ReplyGranted(s, m)'
                 /\ Backed(s, m) => Backed(s, m)'
      BY DEF RequestBacked, ReplyGranted, Backed, Known, Granted, Open, Awaits, SessionOf
    <3> QED
      BY <2>5, <3>1 DEF SessionBacked, Usable
  <2> QED
    BY <2>1, <2>2, <2>3, <2>4, <2>5 DEF HandleInvariant
<1> QED
  BY <1>1, <1>2, <1>3 DEF Next

(***************************************************************************)
(* The tables of the library hold only handles that are open in the child  *)
(* of their context, and no request or reply under way makes that untrue:  *)
(* for every number of threads, slots and calls, whatever connections and  *)
(* children do, as long as the application is disciplined and no signal    *)
(* interrupts recv().                                                      *)
(***************************************************************************)
THEOREM HandleInvariantCorrect ==
  ASSUME Disciplined
  PROVE  Spec => []HandleInvariant
<1>1. TypeOK /\ ReplyInvariant /\ HandleInvariant /\ [Next]_vars => HandleInvariant'
  BY HandleInvariantInductive
<1> QED
  BY InitHandleInvariant, TypeCorrect, ReplyInvariantCorrect, <1>1, PTL DEF Spec

(***************************************************************************)
(* What a disciplined application asks for reaches the child that opened   *)
(* the context or card it names, and that child still has it, for every    *)
(* number of threads, slots and calls.                                     *)
(***************************************************************************)
THEOREM HandleKnownCorrect ==
  ASSUME Disciplined
  PROVE  Spec => []HandleKnown
<1>1. HandleInvariant => HandleKnown
  BY DEF HandleInvariant, HandleKnown, SessionBacked, RequestBacked, Backed
<1> QED
  BY HandleInvariantCorrect, <1>1, PTL

----------------------------------------------------------------------------
(***************************************************************************)
(* ContextInvariant.  What the steps do to the requests and replies of a   *)
(* connection.                                                             *)
(***************************************************************************)
LEMMA MessagesSame ==
  ASSUME NEW s \in Sessions,
         toServer'[s] = toServer[s], toClient'[s] = toClient[s],
         child'[s] = child[s], request'[s] = request[s]
  PROVE  Requests(s)' = Requests(s) /\ Replies(s)' = Replies(s)
BY DEF Requests, Replies

LEMMA QuietSession ==
  ASSUME TypeOK, NEW s \in Sessions
  PROVE  /\ toServer[s] = << >> /\ child[s] # "execute" => Requests(s) = {}
         /\ toClient[s] = << >> /\ child[s] # "send" => Replies(s) = {}
BY DEF Requests, Replies

LEMMA TailElements ==
  ASSUME NEW S, NEW q \in Seq(S), q # << >>
  PROVE  {Tail(q)[n] : n \in 1 .. Len(Tail(q))} \subseteq {q[n] : n \in 1 .. Len(q)}
BY ElementsOfTail

LEMMA AppendElements ==
  ASSUME NEW S, NEW q \in Seq(S), NEW x \in S
  PROVE  {Append(q, x)[n] : n \in 1 .. Len(Append(q, x))}
           \subseteq {q[n] : n \in 1 .. Len(q)} \cup {x}
BY ElementsOfAppend

LEMMA HeadElement ==
  ASSUME NEW S, NEW q \in Seq(S), q # << >>
  PROVE  Head(q) \in {q[n] : n \in 1 .. Len(q)}
OBVIOUS

\* A request that is received is one, and so is a reply that is sent.
LEMMA ChildMoves ==
  ASSUME TypeOK, NEW s \in Sessions, Usable(s), ReceiveRequest(s) \/ SendReply(s)
  PROVE  Requests(s)' \subseteq Requests(s) /\ Replies(s)' \subseteq Replies(s)
<1>1. toServer[s] \in Seq(Messages) /\ toClient[s] \in Seq(Messages)
      /\ request[s] \in Messages
  BY DEF TypeOK, ConnTypeOK, ServerTypeOK
<1>2. CASE ReceiveRequest(s)
  <2>1. /\ toServer[s] # << >> /\ toServer'[s] = Tail(toServer[s])
        /\ toClient'[s] = toClient[s]
        /\ request'[s] = Head(toServer[s]) /\ child'[s] = "execute"
    BY <1>2 DEF ReceiveRequest, TypeOK, ConnTypeOK, ServerTypeOK
  <2> QED
    BY <1>1, <2>1, TailElements, HeadElement DEF Requests, Replies
<1>3. CASE SendReply(s)
  <2>1. /\ toServer'[s] = toServer[s]
        /\ toClient'[s] = Append(toClient[s], request[s])
        /\ child[s] = "send" /\ child'[s] = "recv"
    BY <1>3 DEF SendReply, TypeOK, ConnTypeOK, ServerTypeOK
  <2> QED
    BY <1>1, <2>1, AppendElements DEF Requests, Replies
<1> QED
  BY <1>2, <1>3

LEMMA ExecuteMoves ==
  ASSUME TypeOK, NEW s \in Sessions, Execute(s)
  PROVE  /\ request[s] \in Requests(s)
         /\ Requests(s)' \subseteq Requests(s)
         /\ Replies(s)' \subseteq Replies(s) \cup {request'[s]}
<1>1. /\ child[s] = "execute" /\ child'[s] = "send"
      /\ toServer' = toServer /\ toClient' = toClient
  BY DEF Execute, connVars, TypeOK, ServerTypeOK
<1> QED
  BY <1>1 DEF Requests, Replies

\* What a step of the library does to a connection that works after it.
LEMMA ClientMoves ==
  ASSUME TypeOK, SlotInvariant, SessionInvariant, NEW t \in Threads,
         Call(t) \/ Continue(t), UNCHANGED serverVars,
         NEW s \in Sessions, clientEnd[s] # "none", Usable(s)'
  PROVE  /\ Usable(s)
         /\ Replies(s)' \subseteq Replies(s)
         /\ \/ Requests(s)' \subseteq Requests(s)
            \/ /\ Send(t) /\ SessionOf(t) = s
               /\ Requests(s)' \subseteq Requests(s) \cup {call[t].msg}
<1>1. Usable(s)
  BY ClientLeavesSessions
<1>2. toServer[s] \in Seq(Messages) /\ toClient[s] \in Seq(Messages)
      /\ call[t].msg \in Messages
  BY DEF TypeOK, ConnTypeOK, ClientTypeOK, ClientDomains, Calls
<1>3. child' = child /\ request' = request
  BY DEF serverVars
<1>4. ASSUME toServer'[s] = toServer[s], toClient'[s] = toClient[s]
      PROVE  Replies(s)' \subseteq Replies(s) /\ Requests(s)' \subseteq Requests(s)
  BY <1>3, <1>4, MessagesSame
<1>5. CASE Send(t)
  <2>1. CASE SessionOf(t) = s
    <3>1. toServer'[s] = Append(toServer[s], call[t].msg) /\ toClient' = toClient
      BY <1>1, <1>5, <2>1 DEF Send, TypeOK, ConnTypeOK
    <3> QED
      BY <1>1, <1>2, <1>3, <1>5, <2>1, <3>1, AppendElements DEF Requests, Replies
  <2>2. CASE SessionOf(t) # s
    <3>1. toServer'[s] = toServer[s] /\ toClient' = toClient
      BY <1>5, <2>2 DEF Send, TypeOK, ConnTypeOK
    <3> QED
      BY <1>1, <1>4, <3>1
  <2> QED
    BY <2>1, <2>2
<1>6. CASE ReceiveReply(t)
  <2>1. toServer' = toServer
        /\ \/ toClient'[s] = toClient[s]
           \/ toClient[s] # << >> /\ toClient'[s] = Tail(toClient[s])
    BY <1>6 DEF ReceiveReply, TypeOK, ConnTypeOK
  <2> QED
    BY <1>1, <1>2, <1>3, <1>4, <2>1, TailElements DEF Requests, Replies
<1>7. CASE ReceiveError(t)
  <2>1. call[t].session # s
    BY <1>1, <1>7 DEF ReceiveError
  <2>2. toServer'[s] = toServer[s] /\ toClient'[s] = toClient[s]
    BY <1>7, <2>1 DEF ReceiveError, Break, TypeOK, ConnTypeOK
  <2> QED
    BY <1>1, <1>4, <2>2
<1>8. CASE UNCHANGED <<toServer, toClient>>
  BY <1>1, <1>4, <1>8
<1> QED
  BY <1>5, <1>6, <1>7, <1>8
  DEF Call, NoEnvironment, TlsInitFails, NoContext, EstablishContext, BlockOnMutex,
      ContextCall, CardCall, CancelContext, Continue, CreateCard, NotConnected,
      OpenConnection, SendFails, EnterRecv, ReceiveEnd, ReceiveInterrupted,
      FinishEstablish, CloseSession, FinishRelease, FinishConnect, Return, Die, connVars

\* Who sets up or releases a context has sent the only request there is.
LEMMA SoleRequest ==
  ASSUME TypeOK, SlotInvariant, SessionInvariant, WaitersCounted, NEW t \in Threads,
         NEW s \in Sessions, Active(t), Alone(t), SessionOf(t) = s, Usable(s)
  PROVE  /\ Requests(s) # {} \/ Replies(s) # {} => Awaits(t, s)
         /\ toClient[s] # << >> => Requests(s) = {}
         /\ child[s] = "execute" => toServer[s] = << >> /\ Replies(s) = {}
BY SoleUser, QuietSession DEF Serving

\* Nothing is under way on the session of a slot that is free.
LEMMA FreeSlotQuiet ==
  ASSUME TypeOK, SlotInvariant, SessionInvariant, WaitersCounted, NEW i \in Slots,
         ~contextArray[i].used, NEW s \in Sessions, contextArray[i].session = s,
         Usable(s)
  PROVE  Requests(s) = {} /\ Replies(s) = {}
<1>1. ASSUME NEW u \in Waiting(s) PROVE FALSE
  <2>1. Active(u) /\ SessionOf(u) = s /\ u \in Threads
    BY <1>1 DEF Waiting, Active
  <2>2. call[u].ctx \in Slots /\ contextArray[call[u].ctx].used
    BY <2>1 DEF SlotInvariant, SlotsClaimed
  <2>3. call[u].ctx # i /\ s # NoSession
    BY <2>2, TableTypes
  <2> QED
    BY <2>1, <2>2, <2>3 DEF SessionOf, SessionInvariant, SessionsApart
<1>2. UnderWay(s) = 0
  <2>1. Waiting(s) = {} /\ Cardinality(Waiting(s)) = UnderWay(s)
    BY <1>1 DEF WaitersCounted
  <2> QED
    BY <2>1, FS_EmptySet
<1> QED
  BY <1>2, UnderWayBounds, QuietSession DEF Serving

----------------------------------------------------------------------------
(***************************************************************************)
(* ContextInvariant.  The steps of the library.                            *)
(***************************************************************************)
LEMMA ClientKeepsKnown ==
  ASSUME TypeOK, SlotInvariant, SessionInvariant, GrantNamed,
         \A j \in Slots : ContextKnown(j), NEW t \in Threads, Call(t) \/ Continue(t),
         UNCHANGED serverVars, NEW i \in Slots
  PROVE  ContextKnown(i)'
<1>1. SUFFICES ASSUME contextOwner'[i] # None, Live(i)'
               PROVE  contextArray'[i].pcsc \in service[contextArray'[i].session].contexts
  BY DEF ContextKnown, serverVars
<1>2. ASSUME contextArray'[i].session = contextArray[i].session,
             contextArray[i].session # NoSession
      PROVE  Live(i)
  <2>1. contextArray[i].session \in Sessions
        /\ clientEnd[contextArray[i].session] # "none"
    BY <1>2, TableTypes DEF SessionInvariant, SessionsApart
  <2> QED
    BY <1>1, <1>2, <2>1, ClientLeavesSessions DEF Live, Usable
<1>3. ASSUME contextArray'[i].session = contextArray[i].session,
             contextArray'[i].pcsc = contextArray[i].pcsc,
             contextOwner'[i] \in {None, contextOwner[i]}
      PROVE  contextArray'[i].pcsc \in service[contextArray'[i].session].contexts
  BY <1>1, <1>2, <1>3 DEF ContextKnown, Live
<1>4. CASE UNCHANGED <<contextArray, contextOwner>>
  BY <1>3, <1>4
<1>5. CASE EstablishContext(t) \/ FinishRelease(t)
  BY <1>3, <1>5, SlotTypes DEF EstablishContext, FinishRelease, ownerVars, Contexts
<1>6. ASSUME NEW op \in AllOps, NEW j \in Slots, ContextCall(t, op, j)
      PROVE  contextArray'[i].pcsc \in service[contextArray'[i].session].contexts
  BY <1>3, <1>6, SlotTypes DEF ContextCall, tableVars
<1>7. CASE OpenConnection(t) \/ CloseSession(t)
  <2>1. CASE UNCHANGED <<contextArray, contextOwner>>
    BY <1>3, <2>1
  <2>2. CASE i # call[t].ctx
    BY <1>3, <1>7, <2>2, SlotTypes
    DEF OpenConnection, CloseSession, Die, ownerVars, tableVars
  <2>3. CASE i = call[t].ctx
    <3>1. Active(t) /\ call[t].op \in {"EstablishContext", "ReleaseContext"}
          /\ contextOwner' = contextOwner
      BY <1>7 DEF OpenConnection, CloseSession, Die, Finishing, ownerVars, Active
    <3>2. contextOwner[i] = None
      BY <2>3, <3>1 DEF SlotInvariant, SlotsClaimed
    <3> QED
      BY <1>1, <3>1, <3>2
  <2> QED
    BY <2>2, <2>3
<1>8. CASE FinishEstablish(t)
  <2>1. CASE i = call[t].ctx /\ call[t].rv = "ok"
    <3>1. /\ contextArray'[i].pcsc = call[t].msg.res
          /\ contextArray'[i].session = contextArray[i].session
      BY <1>8, <2>1, SlotTypes DEF FinishEstablish, Contexts
    <3>2. SessionOf(t) = contextArray[i].session /\ SessionOf(t) \in Sessions
          /\ Usable(SessionOf(t))
      BY <1>1, <1>2, <2>1, <3>1, TableTypes DEF SessionOf, Live
    <3> QED
      BY <1>8, <2>1, <3>1, <3>2 DEF FinishEstablish, Finishing, GrantNamed, Active
  <2>2. CASE i # call[t].ctx \/ call[t].rv # "ok"
    BY <1>3, <1>8, <2>2, SlotTypes DEF FinishEstablish, Contexts
  <2> QED
    BY <2>1, <2>2
<1>9. CASE FinishConnect(t)
  BY <1>4, <1>9 DEF FinishConnect
<1> QED
  BY <1>4, <1>5, <1>6, <1>7, <1>8, <1>9
  DEF Call, NoEnvironment, TlsInitFails, NoContext, BlockOnMutex, CardCall,
      CancelContext, Continue, CreateCard, NotConnected, Send, SendFails, EnterRecv,
      ReceiveReply, ReceiveEnd, ReceiveError, ReceiveInterrupted,
      Return, Die, ownerVars, tableVars

\* A thread that awaits the only message on its session takes no other.
LEMMA ReleaserAwaits ==
  ASSUME TypeOK, SlotInvariant, SessionInvariant, WaitersCounted,
         "interrupt" \notin Faults, NEW t \in Threads, Call(t) \/ Continue(t),
         NEW s \in Sessions, Usable(s), Usable(s)', Awaits(t, s),
         call[t].op = "ReleaseContext", Requests(s) # {}
  PROVE  Awaits(t, s)' /\ call'[t].op = "ReleaseContext"
<1>1. Active(t) /\ SessionOf(t) = s /\ s # NoSession /\ pc[t] \in {"enter", "recv"}
  BY TableTypes DEF Awaits, Active
<1>2. pc[t] = "recv" => call[t].session = s
  BY <1>1 DEF SessionInvariant, SessionKept
<1>3. toClient[s] = << >>
  BY <1>1, SoleRequest DEF Alone
<1>4. ~Die
  BY DEF Die, Usable
<1>5. EnterRecv(t) \/ (UNCHANGED <<pc, call, contextArray>>)
  BY <1>1, <1>2, <1>3, <1>4
  DEF Call, NoEnvironment, TlsInitFails, NoContext, EstablishContext, BlockOnMutex,
      ContextCall, CardCall, CancelContext, MayCall, Continue, CreateCard, NotConnected,
      OpenConnection, Send, SendFails, EnterRecv, ReceiveReply, ReceiveEnd, ReceiveError,
      ReceiveInterrupted, FinishEstablish, CloseSession, FinishRelease, FinishConnect,
      Return, Finishing, Usable
<1>6. CASE EnterRecv(t)
  <2>1. KeepsCall(t) /\ pc'[t] = "recv" /\ TableKept
    BY <1>1, <1>6, EnterRecvEffect DEF tableVars, TableKept
  <2>2. SessionOf(t)' = SessionOf(t)
    BY <1>1, <2>1, TableKeptEffect DEF KeepsCall
  <2> QED
    BY <1>1, <2>1, <2>2 DEF Awaits, KeepsCall
<1>7. CASE UNCHANGED <<pc, call, contextArray>>
  BY <1>7 DEF Awaits, SessionOf
<1> QED
  BY <1>5, <1>6, <1>7

LEMMA ClientKeepsRequests ==
  ASSUME TypeOK, SlotInvariant, SessionInvariant, UnopenedEmpty, WaitersCounted,
         RequestsNamed, CallsNamed, "interrupt" \notin Faults,
         NEW t \in Threads, Call(t) \/ Continue(t), UNCHANGED serverVars
  PROVE  RequestsNamed'
<1>1. SUFFICES ASSUME NEW s \in Sessions, Usable(s)', NEW m \in Requests(s)'
               PROVE  /\ m.op \in ContextRequests => m.arg \in service[s].contexts
                      /\ m.op = "ReleaseContext" =>
                           \E u \in Threads : Awaits(u, s)' /\ call'[u].op = "ReleaseContext"
  BY DEF RequestsNamed, ContextNamed, serverVars
<1>2. clientEnd[s] # "none"
  <2>1. SUFFICES ASSUME clientEnd[s] = "none" PROVE FALSE
    OBVIOUS
  <2>2. toServer[s] = << >> /\ child'[s] = "recv"
    BY <2>1 DEF UnopenedEmpty, serverVars
  <2>3. toServer'[s] # << >>
    BY <1>1, <2>2 DEF Requests
  <2>4. Send(t) /\ SessionOf(t) = s
    BY <2>2, <2>3
    DEF Call, NoEnvironment, TlsInitFails, NoContext, EstablishContext, BlockOnMutex,
        ContextCall, CardCall, CancelContext, Continue, CreateCard, NotConnected,
        OpenConnection, Send, SendFails, EnterRecv, ReceiveReply, ReceiveEnd,
        ReceiveError, ReceiveInterrupted, FinishEstablish, CloseSession, FinishRelease,
        FinishConnect, Return, Die, connVars, Break, TypeOK, ConnTypeOK
  <2> QED
    BY <1>1, <2>1, <2>4 DEF Send, Usable
<1>3. Usable(s)
  BY <1>1, <1>2, ClientMoves
<1>4. CASE m \in Requests(s)
  <2>1. m.op \in ContextRequests => m.arg \in service[s].contexts
    BY <1>3, <1>4 DEF RequestsNamed, ContextNamed
  <2>2. ASSUME m.op = "ReleaseContext"
        PROVE  \E u \in Threads : Awaits(u, s)' /\ call'[u].op = "ReleaseContext"
    <3>1. PICK u \in Threads : Awaits(u, s) /\ call[u].op = "ReleaseContext"
      BY <1>3, <1>4, <2>2 DEF RequestsNamed
    <3>2. CASE u = t
      BY <1>1, <1>3, <1>4, <3>1, <3>2, ReleaserAwaits
    <3>3. CASE u # t
      BY <3>1, <3>3, ClientLeavesOthers DEF OthersStay, OthersKeep, Awaits, Active
    <3> QED
      BY <3>2, <3>3
  <2> QED
    BY <2>1, <2>2
<1>5. CASE Send(t) /\ SessionOf(t) = s /\ m = call[t].msg
  <2>1. /\ pc[t] = "send" /\ Active(t) /\ Unsent(t) /\ Live(call[t].ctx)
        /\ call[t].msg.op = call[t].op
    BY <1>3, <1>5, TableTypes DEF Send, Active, Unsent, Live, SessionOf, CallsNamed
  <2>2. m.op \in ContextRequests => m.arg \in service[s].contexts
    BY <1>5, <2>1 DEF CallsNamed, ContextNamed
  <2>3. KeepsCall(t) /\ pc'[t] = "enter" /\ TableKept
    BY <1>5, MoveEffect DEF Send, tableVars, TableKept
  <2>4. SessionOf(t)' = s
    BY <1>5, <2>1, <2>3, TableKeptEffect DEF KeepsCall
  <2> QED
    BY <1>5, <2>1, <2>2, <2>3, <2>4 DEF Awaits, KeepsCall
<1> QED
  BY <1>1, <1>2, <1>4, <1>5, ClientMoves

LEMMA ClientKeepsCalls ==
  ASSUME TypeOK, SlotInvariant, SessionInvariant, \A i \in Slots : ContextKnown(i),
         CallsNamed, Discipline # "any", NEW t \in Threads, Call(t) \/ Continue(t),
         UNCHANGED serverVars
  PROVE  CallsNamed'
<1>1. ASSUME NEW i \in Slots, Live(i)',
             contextArray'[i].session = contextArray[i].session
      PROVE  Live(i)
  <2>1. contextArray[i].session \in Sessions
        /\ clientEnd[contextArray[i].session] # "none"
    BY <1>1, TableTypes DEF SessionInvariant, SessionsApart, Live
  <2> QED
    BY <1>1, <2>1, ClientLeavesSessions DEF Live, Usable
<1> DEFINE Good(u) ==
      /\ pc[u] \in {"card", "send"} => call[u].msg.op = call[u].op
      /\ Unsent(u) /\ Live(call[u].ctx) => ContextNamed(SessionOf(u), call[u].msg)
<1>2. ASSUME NEW u \in Threads, pc'[u] \in {"card", "send"}, pc[u] \in {"card", "send"},
             call'[u].msg = call[u].msg, call'[u].op = call[u].op,
             call'[u].ctx = call[u].ctx, SessionOf(u)' = SessionOf(u)
      PROVE  Good(u)'
  <2>1. call[u].ctx \in Slots /\ Active(u)
    BY <1>2, TableTypes DEF Active
  <2>2. Live(call[u].ctx)' => Live(call[u].ctx)
    BY <1>1, <1>2, <2>1 DEF SessionOf
  <2> QED
    BY <1>2, <2>1, <2>2 DEF CallsNamed, Unsent, ContextNamed, serverVars
<1>3. ASSUME NEW u \in Threads \ {t} PROVE Good(u)'
  <2>1. pc'[u] = pc[u] /\ call'[u] = call[u] /\ (Active(u) => SessionOf(u)' = SessionOf(u))
    BY ClientLeavesOthers DEF OthersStay, OthersKeep
  <2>2. CASE pc[u] \in {"card", "send"}
    BY <1>2, <2>1, <2>2 DEF Active
  <2>3. CASE pc[u] \notin {"card", "send"}
    BY <2>1, <2>3 DEF Unsent
  <2> QED
    BY <2>2, <2>3
<1>4. SUFFICES Good(t)'
  BY <1>3 DEF CallsNamed
<1>5. CASE pc'[t] \notin {"card", "send"}
  BY <1>5 DEF Unsent
<1>6. CASE \/ OpenConnection(t)
           \/ EstablishContext(t)
           \/ \E op \in AllOps, k \in Slots : CardCall(t, op, k)
  <2>1. SUFFICES ASSUME pc'[t] \in {"card", "send"}
                 PROVE  call'[t].msg.op = call'[t].op /\ call'[t].op \notin ContextRequests
    BY <1>5, <1>6 DEF Unsent, ContextNamed
  <2>2. ASSUME NEW to, NEW op, NEW i, NEW k, NEW arg,
               Begin(t, to, NewCall(nextCall, op, i, k, arg)), op \notin ContextRequests
        PROVE  call'[t].msg.op = call'[t].op /\ call'[t].op \notin ContextRequests
    BY <2>2, BeginEffect DEF NewCall, Request
  <2>3. CASE OpenConnection(t)
    BY <2>3 DEF OpenConnection, threadVars, CallsNamed, ContextRequests, ContextOps
  <2>4. CASE EstablishContext(t)
    BY <2>2, <2>4 DEF EstablishContext, ContextRequests, ContextOps
  <2>5. ASSUME NEW op \in AllOps, NEW k \in Slots, CardCall(t, op, k)
        PROVE  call'[t].msg.op = call'[t].op /\ call'[t].op \notin ContextRequests
    <3>1. op \notin ContextRequests
      BY <2>5 DEF CardCall, CardOps, ContextRequests, ContextOps
    <3>2. ~(\E rv \in BadArguments(op) : Refuse(t, op, rv)) /\ ~Refuse(t, op, "invalid")
      BY <2>1, RefuseEffect
    <3> QED
      BY <2>2, <2>5, <3>1, <3>2 DEF CardCall
  <2> QED
    BY <1>6, <2>3, <2>4, <2>5
<1>7. ASSUME NEW op \in AllOps, NEW i \in Slots, ContextCall(t, op, i) PROVE Good(t)'
  <2>1. SUFFICES ASSUME pc'[t] \in {"card", "send"} PROVE Good(t)'
    BY <1>5
  <2>2. ~(\E rv \in BadArguments(op) : Refuse(t, op, rv)) /\ ~Refuse(t, op, "internal")
    BY <2>1, RefuseEffect
  <2>3. PICK to : Begin(t, to, NewCall(nextCall, op, i, NoSlot, contextArray[i].pcsc))
    BY <1>7, <2>2 DEF ContextCall
  <2>4. /\ call'[t].msg.op = op /\ call'[t].op = op /\ call'[t].ctx = i
        /\ call'[t].msg.arg = contextArray[i].pcsc
    BY <2>3, BeginEffect DEF NewCall, Request
  <2>5. contextOwner[i] # None /\ contextArray' = contextArray
    BY <1>7, HeldOwner DEF ContextCall, MayUseContext, tableVars
  <2>6. Live(i)' => contextArray[i].pcsc \in service[contextArray[i].session].contexts
    BY <1>1, <2>5 DEF ContextKnown
  <2> QED
    BY <2>4, <2>5, <2>6 DEF ContextNamed, SessionOf, serverVars
<1>8. CASE CreateCard(t)
  <2>1. /\ pc[t] = "card" /\ contextArray' = contextArray /\ KeepsCall(t)
        /\ call'[t].msg = call[t].msg
    BY <1>8, CreateCardEffect DEF CreateCard
  <2>2. SessionOf(t)' = SessionOf(t)
    BY <2>1 DEF SessionOf, KeepsCall
  <2> QED
    BY <1>2, <1>5, <2>1, <2>2 DEF KeepsCall
<1>9. CASE UNCHANGED <<pc, call, contextArray>>
  BY <1>2, <1>5, <1>9 DEF SessionOf
<1>10. ASSUME NEW to, NEW c, Begin(t, to, c) PROVE pc'[t] = to
  BY <1>10, BeginEffect
<1>11. ASSUME NEW to, pc' = [pc EXCEPT ![t] = to] PROVE pc'[t] = to
  BY <1>11 DEF TypeOK, ClientTypeOK, ClientDomains
<1>12. CASE Call(t)
  BY <1>5, <1>6, <1>7, <1>9, <1>10, <1>12
  DEF Call, NoEnvironment, TlsInitFails, NoContext, BlockOnMutex, CancelContext,
      Refuse, Die, threadVars, tableVars
<1>13. CASE Continue(t)
  BY <1>5, <1>6, <1>8, <1>9, <1>11, <1>13
  DEF Continue, NotConnected, Send, SendFails, EnterRecv, ReceiveReply, ReceiveEnd,
      ReceiveError, ReceiveInterrupted, ExchangeFails, Exchanged, AfterExchange,
      FinishEstablish, CloseSession, FinishRelease, FinishConnect, Return, Die,
      threadVars, tableVars
<1> QED
  BY <1>12, <1>13

\* t sets up a context on a connection that works.
SettingUp(t, s) ==
  /\ Active(t)
  /\ call[t].op = "EstablishContext"
  /\ SessionOf(t) = s
  /\ Usable(s)

\* What is under way there brings it the handle of an open context.
Grants(s) ==
  /\ \A m \in Requests(s) : m.op = "EstablishContext"
  /\ \A m \in Replies(s) : m.rv = "ok" => m.res \in service[s].contexts

GrantedTo(t, s) ==
  pc[t] = "finish" /\ call[t].rv = "ok" => call[t].msg.res \in service[s].contexts

LEMMA GrantParts ==
  GrantNamed <=> \A t \in Threads, s \in Sessions :
                   SettingUp(t, s) => Grants(s) /\ GrantedTo(t, s)
BY DEF GrantNamed, SettingUp, Grants, GrantedTo

\* A connection that has just been opened, or that no slot in use refers to.
LEMMA QuietGrants ==
  ASSUME NEW s \in Sessions, Requests(s)' = {}, Replies(s)' = {}
  PROVE  Grants(s)'
BY DEF Grants

LEMMA OthersGrantNamed ==
  ASSUME TypeOK, SlotInvariant, SessionInvariant, GrantNamed, NEW t \in Threads,
         Call(t) \/ Continue(t), UNCHANGED serverVars,
         NEW u \in Threads \ {t}, NEW s \in Sessions, SettingUp(u, s)'
  PROVE  Grants(s)' /\ GrantedTo(u, s)'
<1>1. /\ pc'[u] = pc[u] /\ call'[u] = call[u] /\ Active(u)
      /\ SessionOf(u) = s /\ call[u].op = "EstablishContext" /\ Usable(s)'
  BY ClientLeavesOthers DEF OthersStay, OthersKeep, SettingUp, Active
<1>2. clientEnd[s] # "none"
  BY <1>1, TableTypes DEF SessionOf, SessionInvariant, SessionsApart
<1>3. SettingUp(u, s)
  BY <1>1, <1>2, ClientMoves DEF SettingUp
<1>4. ~(Send(t) /\ SessionOf(t) = s)
  <2>1. Send(t) => Active(t)
    BY DEF Send, Active
  <2> QED
    BY <1>1, <2>1, OneThreadPerSession DEF Alone
<1>5. Requests(s)' \subseteq Requests(s) /\ Replies(s)' \subseteq Replies(s)
  BY <1>1, <1>2, <1>4, ClientMoves
<1>6. Grants(s) /\ GrantedTo(u, s)
  BY <1>3, GrantParts
<1> QED
  BY <1>1, <1>5, <1>6 DEF Grants, GrantedTo, serverVars

LEMMA CallerGrantNamed ==
  ASSUME TypeOK, SlotInvariant, SessionInvariant, WaitersCounted, NEW t \in Threads,
         Call(t), UNCHANGED serverVars, NEW s \in Sessions, SettingUp(t, s)'
  PROVE  Grants(s)' /\ GrantedTo(t, s)'
<1>1. ~Die
  BY DEF Die, SettingUp, Usable
<1>2. ASSUME NEW to, NEW op, NEW i, NEW k, NEW arg, op # "EstablishContext",
             Begin(t, to, NewCall(nextCall, op, i, k, arg))
      PROVE  FALSE
  BY <1>2, BeginEffect DEF NewCall, SettingUp
<1>3. ASSUME NEW op, NEW rv, Refuse(t, op, rv) PROVE FALSE
  BY <1>3, RefuseEffect DEF SettingUp, Active
<1>4. CASE \E op \in AllOps : BlockOnMutex(t, op)
  BY <1>4, BeginEffect DEF BlockOnMutex, SettingUp, Active
<1>5. CASE EstablishContext(t)
  <2>1. PICK i \in Slots :
          /\ First(i, FreeContexts)
          /\ contextArray' = [contextArray EXCEPT ![i].used = TRUE]
          /\ Begin(t, "send", NewCall(nextCall, "EstablishContext", i, NoSlot, NoCall))
    BY <1>5 DEF EstablishContext
  <2>2. ~contextArray[i].used /\ call'[t].ctx = i /\ pc'[t] = "send"
    BY <2>1, BeginEffect DEF NewCall, First, FreeContexts
  <2>3. contextArray[i].session = s
    BY <2>1, <2>2, SlotTypes DEF SettingUp, SessionOf, Contexts
  <2>4. Usable(s) /\ UNCHANGED connVars
    BY <1>5 DEF EstablishContext, connVars, SettingUp, Usable
  <2>5. Requests(s) = {} /\ Replies(s) = {}
    BY <2>2, <2>3, <2>4, FreeSlotQuiet
  <2>6. Requests(s)' = {} /\ Replies(s)' = {}
    BY <2>4, <2>5, MessagesSame DEF connVars, serverVars
  <2> QED
    BY <2>2, <2>6, QuietGrants DEF GrantedTo
<1> QED
  BY <1>1, <1>2, <1>3, <1>4, <1>5
  DEF Call, NoEnvironment, TlsInitFails, NoContext, ContextCall, CardCall,
      CancelContext, ContextOps, CardOps

LEMMA GoerGrantNamed ==
  ASSUME TypeOK, SlotInvariant, SessionInvariant, UnopenedEmpty, WaitersCounted,
         CallsNamed, GrantNamed, "interrupt" \notin Faults, NEW t \in Threads,
         Continue(t), UNCHANGED serverVars, NEW s \in Sessions, SettingUp(t, s)'
  PROVE  Grants(s)' /\ GrantedTo(t, s)'
<1>1. Usable(s)' /\ ~Die
  BY DEF Die, SettingUp, Usable
<1>2. contextArray' = contextArray => TableKept
  BY DEF TableKept
\* The steps that leave the slot and the connection to the thread.
<1>3. ASSUME KeepsCall(t), TableKept, Active(t)
      PROVE  /\ clientEnd[s] # "none" /\ SessionOf(t) = s
             /\ SettingUp(t, s) /\ Grants(s) /\ GrantedTo(t, s)
             /\ Send(t) \/ Requests(s)' \subseteq Requests(s)
             /\ Grants(s)'
  <2>1. SessionOf(t) = s
    BY <1>3, TableKeptEffect DEF KeepsCall, SettingUp
  <2>2. clientEnd[s] # "none"
    BY <1>3, <2>1, TableTypes DEF SessionOf, SessionInvariant, SessionsApart
  <2>3. SettingUp(t, s)
    BY <1>1, <1>3, <2>1, <2>2, ClientMoves DEF SettingUp, KeepsCall
  <2>4. Grants(s) /\ GrantedTo(t, s)
    BY <2>3, GrantParts
  <2>5. Send(t) => call[t].msg.op = "EstablishContext"
    BY <2>3 DEF Send, SettingUp, CallsNamed
  <2>6. Grants(s)'
    BY <1>1, <2>2, <2>4, <2>5, ClientMoves DEF Grants, serverVars
  <2> QED
    BY <1>1, <2>1, <2>2, <2>3, <2>4, <2>6, ClientMoves
<1>4. ASSUME pc'[t] # "finish" PROVE GrantedTo(t, s)'
  BY <1>4 DEF GrantedTo
<1>5. ASSUME CreateCard(t) PROVE FALSE
  <2>1. call'[t].op = "Connect"
    BY <1>5, CreateCardEffect
    DEF CreateCard, KeepsCall, SlotInvariant, SlotsClaimed, Active
  <2> QED
    BY <2>1 DEF SettingUp
<1>6. CASE OpenConnection(t)
  <2>1. PICK r \in Sessions : r = call[t].id /\ clientEnd[r] = "none"
    BY <1>6, TableTypes
    DEF OpenConnection, Active, SessionInvariant, SessionsFresh, SessionOf
  <2>2. s = r /\ pc'[t] = "send"
    BY <1>6, <2>1, SlotTypes, TableTypes
    DEF OpenConnection, SettingUp, SessionOf, Active, Contexts, threadVars
  <2>3. Requests(s) = {} /\ Replies(s) = {}
    BY <2>1, <2>2, QuietSession DEF UnopenedEmpty
  <2>4. Requests(s)' = {} /\ Replies(s)' = {}
    BY <1>6, <2>3, MessagesSame DEF OpenConnection, serverVars
  <2> QED
    BY <1>4, <2>2, <2>4, QuietGrants
<1>7. ASSUME NEW rv, NEW m, NEW a, Exchanged(t, rv, m, a), pc[t] \in {"send", "recv"},
             contextArray' = contextArray
      PROVE  /\ SessionOf(t) = s /\ SettingUp(t, s) /\ Grants(s) /\ Grants(s)'
             /\ call'[t].rv = rv /\ call'[t].msg = m
  <2>1. KeepsCall(t) /\ Active(t) /\ call'[t].rv = rv
    BY <1>7, ExchangedEffect, ExchangedResult DEF Active
  <2>2. call'[t].msg = m
    <3>1. call[t] \in Calls
      BY DEF TypeOK, ClientTypeOK, ClientDomains
    <3>2. call'[t] = [call[t] EXCEPT !.rv = rv, !.msg = m, !.answer = a]
      BY <1>7 DEF Exchanged, TypeOK, ClientTypeOK, ClientDomains
    <3> QED
      BY <3>1, <3>2 DEF Calls
  <2> QED
    BY <1>2, <1>3, <1>7, <2>1, <2>2
<1>8. ASSUME NotConnected(t) \/ SendFails(t) PROVE FALSE
  <2>1. SessionOf(t) = s /\ Usable(s) /\ s # NoSession
    BY <1>1, <1>7, <1>8, TableTypes
    DEF NotConnected, SendFails, ExchangeFails, tableVars, SettingUp
  <2> QED
    BY <1>8, <2>1 DEF NotConnected, SendFails
<1>9. CASE Send(t)
  <2>1. KeepsCall(t) /\ Active(t) /\ TableKept /\ pc'[t] = "enter"
    BY <1>2, <1>9, MoveEffect DEF Send, Active, tableVars
  <2> QED
    BY <1>3, <1>4, <2>1
<1>10. CASE EnterRecv(t)
  <2>1. KeepsCall(t) /\ Active(t) /\ TableKept /\ pc'[t] = "recv"
    BY <1>1, <1>2, <1>10, EnterRecvEffect DEF EnterRecv, Active, tableVars
  <2> QED
    BY <1>3, <1>4, <2>1
<1>11. CASE ReceiveReply(t)
  <2>1. /\ SessionOf(t) = s /\ Grants(s) /\ Grants(s)'
        /\ call[t].session = s /\ toClient[s] # << >>
    BY <1>7, <1>11 DEF ReceiveReply, SessionInvariant, SessionKept, tableVars
  <2>2. call'[t].rv = "ok" => call'[t].msg = Head(toClient[s]) /\ Head(toClient[s]).rv = "ok"
    BY <1>7, <1>11, <2>1 DEF ReceiveReply, tableVars
  <2>3. toClient[s] \in Seq(Messages)
    BY DEF TypeOK, ConnTypeOK
  <2>4. Head(toClient[s]) \in Replies(s)
    BY <2>1, <2>3, HeadElement DEF Replies
  <2> QED
    BY <2>1, <2>2, <2>4 DEF Grants, GrantedTo, serverVars
<1>12. ASSUME ReceiveEnd(t) \/ ReceiveError(t) PROVE FALSE
  <2>1. ~Usable(call[t].session) /\ pc[t] = "recv"
    BY <1>12 DEF ReceiveEnd, ReceiveError, Usable
  <2>2. SessionOf(t) = s /\ Usable(s)
    BY <1>7, <1>12 DEF ReceiveEnd, ReceiveError, ExchangeFails, tableVars, SettingUp
  <2> QED
    BY <2>1, <2>2 DEF SessionInvariant, SessionKept
<1>13. ASSUME FinishEstablish(t) \/ FinishRelease(t) \/ FinishConnect(t) \/ Return(t)
       PROVE  FALSE
  <2>1. pc'[t] \in {"done", "idle"}
    BY <1>13, MoveEffect
    DEF FinishEstablish, FinishRelease, FinishConnect, Return, TypeOK, ClientTypeOK,
        ClientDomains
  <2> QED
    BY <2>1 DEF SettingUp, Active
<1>14. ASSUME CloseSession(t) PROVE FALSE
  <2>1. call'[t].op = "ReleaseContext"
    BY <1>1, <1>14 DEF CloseSession, Finishing
  <2> QED
    BY <2>1 DEF SettingUp
<1> QED
  BY <1>5, <1>6, <1>8, <1>9, <1>10, <1>11, <1>12, <1>13, <1>14
  DEF Continue, ReceiveInterrupted

----------------------------------------------------------------------------
(***************************************************************************)
(* ContextInvariant.  The steps of the children and of the network.        *)
(***************************************************************************)
\* A message may move on or be lost.
LEMMA MessagesFade ==
  ASSUME ContextInvariant, UNCHANGED <<pc, call, contextArray, contextOwner>>,
         \A s \in Sessions : Usable(s)' =>
           /\ Usable(s)
           /\ service'[s] = service[s]
           /\ Requests(s)' \subseteq Requests(s)
           /\ Replies(s)' \subseteq Replies(s),
         \A i \in Slots : contextArray[i].session \in Sessions \cup {NoSession},
         \A t \in Threads : Unsent(t) => call[t].ctx \in Slots
  PROVE  ContextInvariant'
<1> USE DEF ContextInvariant
<1>1. \A i \in Slots : Live(i)' =>
        /\ Live(i)
        /\ service'[contextArray[i].session] = service[contextArray[i].session]
  BY DEF Live
<1>2. \A i \in Slots : ContextKnown(i)'
  BY <1>1 DEF ContextKnown
<1>3. RequestsNamed'
  BY DEF RequestsNamed, ContextNamed, Awaits, SessionOf
<1>4. CallsNamed'
  BY <1>1 DEF CallsNamed, ContextNamed, Unsent, SessionOf
<1>5. GrantNamed'
  <2>1. ASSUME NEW t \in Threads, NEW s \in Sessions, SettingUp(t, s)'
        PROVE  Grants(s)' /\ GrantedTo(t, s)'
    <3>1. SettingUp(t, s) /\ Usable(s)'
      BY <2>1 DEF SettingUp, Active, SessionOf
    <3>2. Grants(s) /\ GrantedTo(t, s)
      BY <3>1, GrantParts
    <3> QED
      BY <3>1, <3>2 DEF Grants, GrantedTo
  <2> QED
    BY <2>1 DEF GrantNamed, SettingUp, Grants, GrantedTo
<1> QED
  BY <1>2, <1>3, <1>4, <1>5

\* The service closes a context only for the thread that releases it.
LEMMA ContextsStay ==
  ASSUME TypeOK, SlotInvariant, SessionInvariant, WaitersCounted, ContextInvariant,
         NEW r \in Sessions, Execute(r), Usable(r)
  PROVE  \/ service[r].contexts \subseteq service'[r].contexts
         \/ \E t \in Threads :
              /\ Awaits(t, r) /\ Active(t) /\ Alone(t) /\ contextOwner[call[t].ctx] = None
              /\ Requests(r)' = {}
<1>1. /\ service[r] \in ServiceStates /\ request[r] \in Requests(r)
      /\ child[r] = "execute" /\ child'[r] = "send" /\ toServer' = toServer
  BY ExecuteMoves DEF Execute, connVars, TypeOK, ServerTypeOK
<1>2. CASE request[r].op # "ReleaseContext"
  <2>1. service'[r] \in {service[r], After(r, request[r])}
    BY DEF Execute, TypeOK, ServerTypeOK
  <2>2. service[r].contexts \subseteq After(r, request[r]).contexts
    BY <1>1, <1>2 DEF After, ServiceStates
  <2> QED
    BY <2>1, <2>2
<1>3. CASE request[r].op = "ReleaseContext"
  <2>1. PICK t \in Threads : Awaits(t, r) /\ call[t].op = "ReleaseContext"
    BY <1>1, <1>3 DEF ContextInvariant, RequestsNamed
  <2>2. Active(t) /\ Alone(t) /\ contextOwner[call[t].ctx] = None
    BY <2>1 DEF Awaits, Active, Alone, SlotInvariant, SlotsClaimed
  <2>3. toServer[r] = << >>
    BY <1>1, <2>1, <2>2, SoleRequest DEF Awaits
  <2>4. Requests(r)' = {}
    BY <1>1, <2>3 DEF Requests
  <2> QED
    BY <2>1, <2>2, <2>4
<1> QED
  BY <1>2, <1>3

LEMMA ExecuteKeepsContexts ==
  ASSUME TypeOK, SlotInvariant, SessionInvariant, WaitersCounted, ContextInvariant,
         NEW r \in Sessions, Execute(r), UNCHANGED clientVars
  PROVE  ContextInvariant'
<1> USE DEF ContextInvariant
<1>1. /\ UNCHANGED <<pc, call, contextArray, contextOwner>>
      /\ \A s \in Sessions : Usable(s)' <=> Usable(s)
      /\ \A s \in Sessions \ {r} : /\ service'[s] = service[s]
                                   /\ Requests(s)' = Requests(s)
                                   /\ Replies(s)' = Replies(s)
  <2>1. UNCHANGED <<pc, call, contextArray, contextOwner>>
    BY DEF clientVars, tableVars, threadVars, ownerVars
  <2>2. UNCHANGED connVars
    BY DEF Execute
  <2>3. \A s \in Sessions : Usable(s)' <=> Usable(s)
    BY <2>2 DEF connVars, Usable
  <2>4. ASSUME NEW s \in Sessions \ {r}
        PROVE  /\ child'[s] = child[s] /\ request'[s] = request[s]
               /\ service'[s] = service[s]
    BY DEF Execute, TypeOK, ServerTypeOK
  <2>5. \A s \in Sessions \ {r} : Requests(s)' = Requests(s) /\ Replies(s)' = Replies(s)
    BY <2>2, <2>4, MessagesSame DEF connVars
  <2> QED
    BY <2>1, <2>3, <2>4, <2>5
<1>2. /\ request[r] \in Requests(r) /\ Requests(r)' \subseteq Requests(r)
      /\ Replies(r)' \subseteq Replies(r) \cup {request'[r]}
  BY ExecuteMoves
<1>3. ASSUME Usable(r), NEW i \in Slots, contextArray[i].session = r,
             contextOwner[i] # None
      PROVE  service[r].contexts \subseteq service'[r].contexts
  <2>1. SUFFICES ASSUME NEW t \in Threads, Awaits(t, r), Active(t),
                        contextOwner[call[t].ctx] = None
                 PROVE  FALSE
    BY <1>3, ContextsStay
  <2> QED
    BY <1>3, <2>1, TableTypes DEF Awaits, SessionOf, SessionInvariant, SessionsApart
<1>4. \A i \in Slots : ContextKnown(i)'
  <2> SUFFICES ASSUME NEW i \in Slots, contextOwner[i] # None, Live(i)'
               PROVE  contextArray[i].pcsc \in service'[contextArray[i].session].contexts
    BY <1>1 DEF ContextKnown
  <2>1. /\ contextArray[i].session \in Sessions /\ Usable(contextArray[i].session)
        /\ contextArray[i].pcsc \in service[contextArray[i].session].contexts
    BY <1>1, TableTypes DEF Live, ContextKnown
  <2> QED
    BY <1>1, <1>3, <2>1
<1>5. RequestsNamed'
  <2> SUFFICES ASSUME NEW s \in Sessions, Usable(s), NEW m \in Requests(s)'
               PROVE  /\ m.op \in ContextRequests => m.arg \in service'[s].contexts
                      /\ m.op = "ReleaseContext" =>
                           \E t \in Threads : Awaits(t, s) /\ call[t].op = "ReleaseContext"
    BY <1>1 DEF RequestsNamed, ContextNamed, Awaits, SessionOf
  <2>1. m \in Requests(s)
    BY <1>1, <1>2
  <2>2. service[s].contexts \subseteq service'[s].contexts
    BY <1>1, ContextsStay
  <2> QED
    BY <2>1, <2>2 DEF RequestsNamed, ContextNamed
<1>6. CallsNamed'
  <2> SUFFICES ASSUME NEW t \in Threads, Unsent(t), Live(call[t].ctx)'
               PROVE  call[t].msg.op \in ContextRequests =>
                        call[t].msg.arg \in service'[SessionOf(t)].contexts
    BY <1>1 DEF CallsNamed, Unsent, ContextNamed, SessionOf
  <2>1. Active(t) /\ call[t].ctx \in Slots /\ SessionOf(t) \in Sessions
        /\ Usable(SessionOf(t)) /\ Live(call[t].ctx)
    BY <1>1, TableTypes DEF Unsent, Active, Live, SessionOf
  <2>2. service[SessionOf(t)].contexts \subseteq service'[SessionOf(t)].contexts
    <3>1. SUFFICES ASSUME SessionOf(t) = r, NEW u \in Threads, Awaits(u, r), Active(u),
                          Alone(u)
                   PROVE  FALSE
      BY <1>1, <2>1, ContextsStay
    <3>2. u = t
      BY <2>1, <3>1, OneThreadPerSession DEF Awaits
    <3> QED
      BY <3>1, <3>2 DEF Awaits, Unsent
  <2> QED
    BY <2>1, <2>2 DEF CallsNamed, ContextNamed
<1>7. ASSUME NEW t \in Threads, NEW s \in Sessions, SettingUp(t, s)'
      PROVE  Grants(s)' /\ GrantedTo(t, s)'
  <2>1. SettingUp(t, s)
    BY <1>1, <1>7 DEF SettingUp, Active, SessionOf
  <2>2. Grants(s) /\ GrantedTo(t, s)
    BY <2>1, GrantParts
  <2>3. CASE s # r
    BY <1>1, <2>2, <2>3 DEF Grants, GrantedTo
  <2>4. CASE s = r
    <3>1. request[r].op = "EstablishContext" /\ request[r] \in Messages
      BY <1>2, <2>2, <2>4 DEF Grants, TypeOK, ServerTypeOK
    <3>2. Awaits(t, r) /\ Replies(r) = {} /\ child[r] = "execute"
      BY <1>2, <2>1, <2>4, SoleRequest DEF SettingUp, Alone, Execute
    <3>3. request'[r].rv = "ok" => request'[r].res \in service'[r].contexts
      <4>1. \/ request'[r] = Reply(request[r], FALSE)
            \/ /\ request'[r] = Reply(request[r], TRUE)
               /\ service'[r] = After(r, request[r])
        BY <3>1 DEF Execute, TypeOK, ServerTypeOK
      <4>2. Reply(request[r], FALSE).rv = "error"
        BY <3>1 DEF Reply, Messages
      <4>3. Reply(request[r], TRUE).res = request[r].call
        BY <3>1 DEF Reply, Messages
      <4>4. request[r].call \in After(r, request[r]).contexts
        BY <3>1 DEF After, TypeOK, ServerTypeOK, ServiceStates
      <4> QED
        BY <4>1, <4>2, <4>3, <4>4
    <3>4. Grants(r)'
      BY <1>2, <2>2, <2>4, <3>2, <3>3 DEF Grants
    <3> QED
      BY <1>1, <2>4, <3>2, <3>4 DEF GrantedTo, Awaits
  <2> QED
    BY <2>3, <2>4
<1>8. GrantNamed'
  BY <1>7 DEF GrantNamed, SettingUp, Grants, GrantedTo
<1> QED
  BY <1>4, <1>5, <1>6, <1>8

LEMMA ContextInvariantInductive ==
  ASSUME TypeOK, ConnectionInvariant, SharingInvariant, ContextInvariant,
         Discipline # "any", "interrupt" \notin Faults, [Next]_vars
  PROVE  ContextInvariant'
<1> USE DEF ConnectionInvariant, SharingInvariant
<1>0. /\ \A i \in Slots : contextArray[i].session \in Sessions \cup {NoSession}
      /\ \A t \in Threads : Unsent(t) => call[t].ctx \in Slots
  BY TableTypes DEF Unsent, Active
<1>1. ASSUME NEW t \in Threads, ClientStep(t) PROVE ContextInvariant'
  <2> USE DEF ContextInvariant
  <2>1. (Call(t) \/ Continue(t)) /\ UNCHANGED serverVars
    BY <1>1 DEF ClientStep
  <2>2. \A i \in Slots : ContextKnown(i)'
    BY <2>1, ClientKeepsKnown
  <2>3. RequestsNamed' /\ CallsNamed'
    BY <2>1, ClientKeepsRequests, ClientKeepsCalls
  <2>4. ASSUME NEW u \in Threads, NEW s \in Sessions, SettingUp(u, s)'
        PROVE  Grants(s)' /\ GrantedTo(u, s)'
    BY <2>1, <2>4, OthersGrantNamed, CallerGrantNamed, GoerGrantNamed
  <2>5. GrantNamed'
    BY <2>4 DEF GrantNamed, SettingUp, Grants, GrantedTo
  <2> QED
    BY <2>2, <2>3, <2>5
<1>2. ASSUME UNCHANGED clientVars,
             \A s \in Sessions : Usable(s)' =>
               /\ Usable(s)
               /\ service'[s] = service[s]
               /\ Requests(s)' \subseteq Requests(s)
               /\ Replies(s)' \subseteq Replies(s)
      PROVE  ContextInvariant'
  BY <1>0, <1>2, MessagesFade DEF clientVars, tableVars, threadVars, ownerVars
<1>3. ASSUME NEW r \in Sessions, ServerStep(r) PROVE ContextInvariant'
  <2>1. /\ UNCHANGED clientVars
        /\ \A s \in Sessions \ {r} : /\ Usable(s)' <=> Usable(s)
                                     /\ service'[s] = service[s]
                                     /\ Requests(s)' = Requests(s)
                                     /\ Replies(s)' = Replies(s)
    BY <1>3, ServerLeavesOthers, MessagesSame
  <2>2. CASE Execute(r)
    BY <2>1, <2>2, ExecuteKeepsContexts
  <2>3. CASE Exit(r)
    <3>1. ~Usable(r)'
      BY <2>3 DEF Exit, Usable, TypeOK, ConnTypeOK
    <3> QED
      BY <1>2, <2>1, <3>1
  <2>4. CASE ReceiveRequest(r) \/ SendReply(r)
    <3>1. (Usable(r)' <=> Usable(r)) /\ service' = service
      BY <2>4 DEF ReceiveRequest, SendReply, Usable
    <3>2. Usable(r) => /\ Requests(r)' \subseteq Requests(r)
                       /\ Replies(r)' \subseteq Replies(r)
      BY <2>4, ChildMoves
    <3> QED
      BY <1>2, <2>1, <3>1, <3>2
  <2> QED
    BY <1>3, <2>2, <2>3, <2>4
    DEF ServerStep, ChildStep, EndOfRequests, ReplyFails, ChildDies
<1>4. ASSUME NEW r \in Sessions, NetworkStep(r) PROVE ContextInvariant'
  <2>1. UNCHANGED <<clientVars, serverVars>>
    BY <1>4 DEF NetworkStep
  <2>2. ASSUME NEW s \in Sessions, Usable(s)'
        PROVE  Usable(s) /\ toServer'[s] = toServer[s] /\ toClient'[s] = toClient[s]
    BY <1>4, <2>2 DEF NetworkStep, NetworkReset, Break, Usable, TypeOK, ConnTypeOK
  <2>3. ASSUME NEW s \in Sessions, Usable(s)'
        PROVE  Requests(s)' = Requests(s) /\ Replies(s)' = Replies(s)
    BY <2>1, <2>2, <2>3, MessagesSame DEF serverVars
  <2> QED
    BY <1>2, <2>1, <2>2, <2>3 DEF serverVars
<1>5. CASE UNCHANGED vars
  <2>1. UNCHANGED <<clientVars, serverVars, connVars>>
    BY <1>5 DEF vars
  <2>2. \A s \in Sessions : /\ Usable(s)' <=> Usable(s)
                            /\ Requests(s)' = Requests(s)
                            /\ Replies(s)' = Replies(s)
    BY <2>1, MessagesSame DEF connVars, serverVars, Usable
  <2> QED
    BY <1>2, <2>1, <2>2 DEF serverVars
<1> QED
  BY <1>1, <1>3, <1>4, <1>5 DEF Next

(***************************************************************************)
(* What the application holds a handle of is open in the child of its      *)
(* session, a request of a context names an open one, and who sets one up  *)
(* is given one that is open: for threads that may share contexts and      *)
(* cards, whatever fails, as long as no recv() is interrupted.             *)
(***************************************************************************)
THEOREM ContextInvariantCorrect ==
  ASSUME Discipline # "any", "interrupt" \notin Faults
  PROVE  Spec => []ContextInvariant
<1>1. Init => ContextInvariant
  <2> SUFFICES ASSUME Init PROVE ContextInvariant
    OBVIOUS
  <2> USE DEF Init, ClientInit, ServerInit, ConnInit
  <2>1. \A i \in Slots : ContextKnown(i)
    BY DEF ContextKnown
  <2>2. RequestsNamed /\ GrantNamed
    BY DEF RequestsNamed, GrantNamed, Usable
  <2>3. CallsNamed
    BY DEF CallsNamed, Unsent
  <2> QED
    BY <2>1, <2>2, <2>3 DEF ContextInvariant
<1>2. TypeOK /\ ConnectionInvariant /\ SharingInvariant /\ ContextInvariant /\ [Next]_vars
        => ContextInvariant'
  BY ContextInvariantInductive
<1>3. Spec => []ConnectionInvariant
  BY ConnectionInvariantCorrect
<1>4. Spec => []SharingInvariant
  BY SharingInvariantCorrect
<1> QED
  BY <1>1, <1>2, <1>3, <1>4, TypeCorrect, PTL DEF Spec

(***************************************************************************)
(* What threads ask of a context, shared or not, reaches a child that has  *)
(* it open.                                                                *)
(***************************************************************************)
THEOREM SharedContextCorrect ==
  ASSUME Discipline # "any", "interrupt" \notin Faults
  PROVE  Spec => []SharedContextKnown
<1>1. ContextInvariant => SharedContextKnown
  BY DEF ContextInvariant, RequestsNamed, SharedContextKnown, Requests
<1>2. Spec => []ContextInvariant
  BY ContextInvariantCorrect
<1> QED
  BY <1>1, <1>2, PTL
=============================================================================
