---------------------------- MODULE LedgerProofs ----------------------------
(* Theorems about the economy ledger, for any members, sessions, requests    *)
(* and history: what the locks of a batch protect between its checks and    *)
(* its commit, that ordered locks end every waiting, and that the levels of *)
(* members are those of the active version.                                 *)
EXTENDS Ledger, Sums

\* The phases of a transaction in which its keys, and its members, are locked.
KeyPhase == {"members", "prepared", "applied"}
RowPhase == {"prepared", "applied"}

StagedCommands(s) == {row.command : row \in Range(staged[s])}

\* Members whose rows the transaction of s can see.
Known(s) == members \cup {m \in Members : rowLock[m] = s}

\* Phases from this one on name known members, or members they insert.
NextJoin(s) == IF session[s].pc = "applied" THEN session[s].phase + 1
               ELSE session[s].phase

NamesKnown(s) ==
  session[s].pc # "idle" =>
    \A j \in session[s].phase..Len(Phases[session[s].request]) :
      Named(Phases[session[s].request][j])
        \subseteq Known(s) \cup Joined(session[s].request, NextJoin(s), j)

ScopeKnown(s) == session[s].scope \subseteq members

\* Who inserts a member holds the identity gate until the commit.
InsertedUnderGate ==
  \A m \in Members \ members :
    rowLock[m] # Free => IdentityGate \in Keys /\ keyLock[IdentityGate] = rowLock[m]

KeysHeld(s) ==
  session[s].pc \in KeyPhase => \A k \in KeysToLock(s) : keyLock[k] = s

RowsHeld(s) ==
  session[s].pc \in RowPhase => \A m \in MembersToLock(s) : rowLock[m] = s

\* What is staged and not committed is locked by its session and still new.
StagedIsHeld(s) ==
  \A c \in StagedCommands(s) :
    /\ c \in AllCommands /\ c.key \in Keys
    /\ keyLock[c.key] = s /\ c.key \notin BookedKeys
    /\ rowLock[c.member] = s

\* A new phase finds neither its keys, its activation nor its members stored.
FreshIsNew(s) ==
  session[s].pc \in KeyPhase /\ ~session[s].replay =>
    /\ Phase(s).joins \cap members # {} => session[s].pc = "applied"
    /\ Stored(s) # {} => session[s].pc = "applied"
    /\ ~Repeated(s)

\* A repeated registration finds its member.
RepeatedIsKnown(s) ==
  session[s].pc \in KeyPhase /\ session[s].replay => Phase(s).joins \subseteq members

\* A source that may be reversed is among these commands.
HasSource(c, commands) ==
  c.reverses # 0 => \E d \in commands :
    d.key = c.reverses /\ d.kind \notin TransferKinds \cup ReversalKinds

SourcesRead(s) ==
  /\ \A c \in StagedCommands(s) : HasSource(c, Visible(s))
  /\ session[s].pc \in {"keys", "members", "prepared"} =>
       \A c \in CommandSet(s) : HasSource(c, Visible(s))

BookedHaveSources == \A c \in Booked : c \in AllCommands /\ HasSource(c, Booked)

SourcesStayIntact(s) ==
  session[s].pc = "prepared" /\ ~session[s].replay => SourcesIntact(s)

StaysEntitled(s) ==
  session[s].pc \in RowPhase /\ ~session[s].replay =>
    \A c \in Transfers(s) : /\ Earned(c.member) >= Threshold
                            /\ ({c.member} \cup Recipients(s)) \cap away = {}

SessionInv(s) ==
  /\ NamesKnown(s) /\ ScopeKnown(s)
  /\ KeysHeld(s) /\ RowsHeld(s) /\ StagedIsHeld(s)
  /\ FreshIsNew(s) /\ RepeatedIsKnown(s)
  /\ SourcesRead(s) /\ SourcesStayIntact(s) /\ StaysEntitled(s)

LedgerInv ==
  /\ WorkOK
  /\ InsertedUnderGate
  /\ BookedHaveSources
  /\ \A s \in Sessions : SessionInv(s)

\* A step of the transaction of s.
StepOf(s) ==
  \/ \E r \in asked : Begin(s, r)
  \/ Resolve(s) \/ LockKey(s) \/ ReadStored(s) \/ LockMember(s)
  \/ Prepare(s) \/ Apply(s) \/ NextPhase(s)
  \/ Commit(s) \/ Refuse(s) \/ Abort(s)
-----------------------------------------------------------------------------
(* Sequences, batches and phases.                                           *)

(* A sequence over a set is a sequence over any larger set, and the other   *)
(* way round over its range.                                                *)
LEMMA SeqOverRange ==
  ASSUME NEW A, NEW q \in Seq(A)
  PROVE  IsSeq(q) /\ Range(q) \subseteq A
<1>1. Len(q) \in Nat /\ DOMAIN q = 1..Len(q) /\ \A i \in 1..Len(q) : q[i] \in A
  OBVIOUS
<1>2. q \in [1..Len(q) -> Range(q)]
  <2>1. q = [i \in DOMAIN q |-> q[i]]
    OBVIOUS
  <2> QED
    BY <1>1, <2>1 DEF Range
<1>3. q \in Seq(Range(q))
  BY <1>1, <1>2
<1> QED
  BY <1>1, <1>3 DEF IsSeq, Range

(* Appending one sequence to another.                                       *)
LEMMA Concatenation ==
  ASSUME NEW a, NEW b, IsSeq(a), IsSeq(b)
  PROVE  IsSeq(a \o b) /\ Range(a \o b) = Range(a) \cup Range(b)
<1> DEFINE S == Range(a) \cup Range(b)
<1>1. a \in Seq(S) /\ b \in Seq(S)
  <2>1. /\ Len(a) \in Nat /\ a \in [1..Len(a) -> Range(a)]
        /\ Len(b) \in Nat /\ b \in [1..Len(b) -> Range(b)]
    BY DEF IsSeq
  <2>2. a \in [1..Len(a) -> S] /\ b \in [1..Len(b) -> S]
    BY <2>1
  <2> QED
    BY <2>1, <2>2
<1>2. a \o b \in Seq(S)
  BY <1>1
<1>3. /\ Len(a \o b) = Len(a) + Len(b) /\ Len(a) \in Nat /\ Len(b) \in Nat
      /\ DOMAIN (a \o b) = 1..(Len(a) + Len(b))
      /\ DOMAIN a = 1..Len(a) /\ DOMAIN b = 1..Len(b)
      /\ \A i \in 1..Len(a) : (a \o b)[i] = a[i]
      /\ \A i \in 1..Len(b) : (a \o b)[Len(a) + i] = b[i]
  BY <1>1
<1>4. ASSUME NEW x \in S PROVE x \in Range(a \o b)
  <2>1. CASE x \in Range(a)
    <3>1. PICK i \in 1..Len(a) : x = a[i]
      BY <2>1, <1>3 DEF Range
    <3>2. i \in DOMAIN (a \o b) /\ (a \o b)[i] = x
      BY <3>1, <1>3
    <3> QED
      BY <3>2 DEF Range
  <2>2. CASE x \in Range(b)
    <3>1. PICK i \in 1..Len(b) : x = b[i]
      BY <2>2, <1>3 DEF Range
    <3>2. Len(a) + i \in DOMAIN (a \o b)
      BY <3>1, <1>3
    <3>3. (a \o b)[Len(a) + i] = x
      BY <3>1, <1>3
    <3> QED
      BY <3>2, <3>3 DEF Range
  <2> QED
    BY <2>1, <2>2
<1> QED
  BY <1>2, <1>4, SeqOverRange

(* What is known of the phase a transaction is in.                          *)
LEMMA PhaseFacts ==
  ASSUME WorkOK, NEW s \in Sessions, session[s].pc # "idle"
  PROVE  /\ Phase(s) \in AllPhases /\ IsPhase(Phase(s))
         /\ session[s].request \in Requests
         /\ session[s].phase \in 1..Len(Phases[session[s].request])
         /\ CommandSet(s) \subseteq AllCommands
         /\ \A c \in CommandSet(s) : IsCommand(c)
         /\ KeysToLock(s) \subseteq Keys
         /\ Named(Phase(s)) \subseteq Members
         /\ MembersToLock(s) \subseteq Members
         /\ \A c \in CommandSet(s) : c.member \in MembersToLock(s) /\ c.member # 0
<1>1. /\ session[s].request \in Requests
      /\ session[s].phase \in 1..Len(Phases[session[s].request])
  BY DEF WorkOK, Idle
<1>2. IsSeq(Phases[session[s].request])
  BY <1>1, LedgerAssumption DEF IsRequest
<1>3. DOMAIN Phases[session[s].request] = 1..Len(Phases[session[s].request])
  BY <1>2 DEF IsSeq
<1>4. Phase(s) \in AllPhases
  BY <1>1, <1>3 DEF Phase, AllPhases, Range
<1>5. IsPhase(Phase(s))
  BY <1>4, LedgerAssumption
<1>6. CommandSet(s) \subseteq AllCommands
  BY <1>4 DEF CommandSet, Commands, AllCommands
<1>7. \A c \in CommandSet(s) : IsCommand(c)
  BY <1>6, LedgerAssumption
<1>8. KeysToLock(s) \subseteq Keys
  BY <1>4 DEF KeysToLock, KeysOf, Keys, CommandSet, Commands
<1>9. Members \subseteq Nat \ {0}
  BY LedgerAssumption
<1>10. Named(Phase(s)) \subseteq Members
  BY <1>5, <1>7, <1>9 DEF Named, IsPhase, IsCommand, CommandSet, Commands
<1>11. session[s].scope \subseteq Members
  BY DEF WorkOK, SessionStates
<1>12. \A c \in CommandSet(s) : c.member \in MembersToLock(s) /\ c.member # 0
  BY <1>7, <1>9 DEF MembersToLock, Named, IsCommand, CommandSet, Commands
<1> QED
  BY <1>1, <1>4, <1>5, <1>6, <1>7, <1>8, <1>10, <1>11, <1>12 DEF MembersToLock

(* The rows a batch stages are its commands.                                *)
LEMMA BatchRows ==
  ASSUME WorkOK, NEW s \in Sessions, session[s].pc # "idle"
  PROVE  IsSeq(Rows(s)) /\ {row.command : row \in Range(Rows(s))} = CommandSet(s)
<1>1. IsSeq(Commands(s))
  BY PhaseFacts DEF IsPhase, Commands
<1>2. Len(Commands(s)) \in Nat /\ DOMAIN Commands(s) = 1..Len(Commands(s))
  BY <1>1 DEF IsSeq
<1>3. DOMAIN Rows(s) = 1..Len(Commands(s))
      /\ \A i \in 1..Len(Commands(s)) : Rows(s)[i].command = Commands(s)[i]
  BY DEF Rows
<1>4. Rows(s) \in Seq(Range(Rows(s)))
  <2>1. Rows(s) \in [1..Len(Commands(s)) -> Range(Rows(s))]
    BY <1>2 DEF Rows, Range
  <2> QED
    BY <2>1, <1>2
<1>5. {row.command : row \in Range(Rows(s))} \subseteq CommandSet(s)
  BY <1>2, <1>3 DEF Range, CommandSet
<1>6. CommandSet(s) \subseteq {row.command : row \in Range(Rows(s))}
  BY <1>2, <1>3 DEF Range, CommandSet
<1> QED
  BY <1>4, <1>5, <1>6 DEF IsSeq
-----------------------------------------------------------------------------
(* What a step of one transaction does to the others and to the books.      *)

(* The member a registration inserts is nobody else's.                      *)
LEMMA InsertedIsFree ==
  ASSUME LedgerInv, NEW t \in Sessions, session[t].pc = "prepared",
         ~session[t].replay, NEW m \in Phase(t).joins
  PROVE  /\ m \in Members \ members
         /\ rowLock[m] \in {Free, t}
         /\ IdentityGate \in Keys /\ keyLock[IdentityGate] = t
<1>1. WorkOK /\ InsertedUnderGate /\ KeysHeld(t) /\ FreshIsNew(t)
  BY DEF LedgerInv, SessionInv
<1>2. IsPhase(Phase(t)) /\ KeysToLock(t) \subseteq Keys
  BY <1>1, PhaseFacts
<1>3. IdentityGate \in KeysToLock(t) /\ m \in Newcomers
  BY <1>2 DEF IsPhase, KeysToLock, KeysOf
<1>4. m \in Members
  BY <1>3, LedgerAssumption
<1>5. m \notin members
  BY <1>1 DEF FreshIsNew, KeyPhase
<1>6. IdentityGate \in Keys /\ keyLock[IdentityGate] = t
  BY <1>1, <1>2, <1>3 DEF KeysHeld, KeyPhase
<1>7. rowLock[m] # Free => keyLock[IdentityGate] = rowLock[m]
  BY <1>1, <1>4, <1>5 DEF InsertedUnderGate
<1> QED
  BY <1>4, <1>5, <1>6, <1>7

(* No transaction touches the work or the locks of another.                 *)
LEMMA OthersKept ==
  ASSUME LedgerInv, NEW t \in Sessions, StepOf(t), NEW s \in Sessions, s # t
  PROVE  /\ session'[s] = session[s] /\ staged'[s] = staged[s]
         /\ \A k \in Keys : keyLock[k] = s => keyLock'[k] = s
         /\ \A m \in Members : rowLock[m] = s => rowLock'[m] = s
<1> DEFINE Goal == /\ session'[s] = session[s] /\ staged'[s] = staged[s]
                   /\ \A k \in Keys : keyLock[k] = s => keyLock'[k] = s
                   /\ \A m \in Members : rowLock[m] = s => rowLock'[m] = s
<1>u. /\ session \in [Sessions -> SessionStates] /\ DOMAIN staged = Sessions
      /\ keyLock \in [Keys -> Sessions \cup {Free}]
      /\ rowLock \in [Members -> Sessions \cup {Free}]
      /\ Free \notin Sessions
  BY LedgerAssumption DEF LedgerInv, WorkOK, Free
<1>1. ASSUME EndTransaction(t) PROVE Goal
  BY <1>1, <1>u DEF EndTransaction
<1>2. ASSUME NEW r \in asked, Begin(t, r) PROVE Goal
  BY <1>2, <1>u DEF Begin, work
<1>3. ASSUME Resolve(t) \/ ReadStored(t) \/ Prepare(t) \/ NextPhase(t) PROVE Goal
  BY <1>3, <1>u DEF Resolve, ReadStored, Prepare, NextPhase, GoTo, work
<1>4. ASSUME LockKey(t) PROVE Goal
  BY <1>4, <1>u DEF LockKey, work
<1>5. ASSUME LockMember(t) PROVE Goal
  BY <1>5, <1>u DEF LockMember, work
<1>6. ASSUME Apply(t) PROVE Goal
  <2>1. session'[s] = session[s] /\ keyLock' = keyLock
    BY <1>6, <1>u DEF Apply, GoTo
  <2>2. staged'[s] = staged[s]
    BY <1>6, <1>u DEF Apply, work
  <2>3. ASSUME NEW m \in Members, rowLock[m] = s PROVE rowLock'[m] = s
    <3>1. CASE session[t].replay
      BY <1>6, <2>3, <3>1 DEF Apply
    <3>2. CASE ~session[t].replay
      <4>1. rowLock'[m] = IF m \in Phase(t).joins THEN t ELSE rowLock[m]
        BY <1>6, <3>2 DEF Apply
      <4>2. m \notin Phase(t).joins
        BY <1>6, <2>3, <3>2, <1>u, InsertedIsFree DEF Apply
      <4> QED
        BY <2>3, <4>1, <4>2
    <3> QED
      BY <3>1, <3>2
  <2> QED
    BY <2>1, <2>2, <2>3
<1>7. ASSUME Commit(t) \/ Refuse(t) \/ Abort(t) PROVE Goal
  BY <1>7, <1>1 DEF Commit, Refuse, Abort
<1> QED
  BY <1>2, <1>3, <1>4, <1>5, <1>6, <1>7 DEF StepOf

(* What is in the books stays, and only a commit adds to them: the rows     *)
(* that were staged, members that were inserted, an activation.             *)
LEMMA BooksGrow ==
  ASSUME WorkOK, NEW t \in Sessions, StepOf(t)
  PROVE  /\ Booked \subseteq Booked' /\ Booked' \subseteq Booked \cup StagedCommands(t)
         /\ members \subseteq members'
         /\ members' \subseteq members \cup {m \in Members : rowLock[m] = t}
         /\ Range(activations') \subseteq Range(activations) \cup
              (IF session[t].pc = "applied" /\ ~session[t].replay
               THEN Range(Phase(t).activates) ELSE {})
         /\ Range(activations) \subseteq Range(activations')
         /\ IsSeq(ledger') /\ IsSeq(activations')
         /\ members' \subseteq Members
         /\ asked' = asked /\ away' = away
         /\ Commit(t) => Booked' = Booked \cup StagedCommands(t)
         /\ ~Commit(t) => Booked' = Booked
<1>u. IsSeq(ledger) /\ IsSeq(activations) /\ IsSeq(staged[t]) /\ members \subseteq Members
  BY DEF WorkOK
<1>1. CASE Commit(t)
  <2>1. /\ IsSeq(ledger') /\ Range(ledger') = Range(ledger) \cup Range(staged[t])
    BY <1>1, <1>u, Concatenation DEF Commit
  <2>2. Booked' = Booked \cup StagedCommands(t)
    BY <2>1 DEF Booked, StagedCommands
  <2>3. members' = members \cup {m \in Newcomers : rowLock[m] = t}
    BY <1>1 DEF Commit
  <2>4. Newcomers \subseteq Members
    BY LedgerAssumption
  <2>5. session[t].pc = "applied" /\ IsSeq(Phase(t).activates)
    <3>1. session[t].pc = "applied"
      BY <1>1 DEF Commit
    <3> QED
      BY <3>1, PhaseFacts DEF IsPhase
  <2>6. /\ IsSeq(activations')
        /\ Range(activations') = Range(activations) \cup
             (IF session[t].replay THEN {} ELSE Range(Phase(t).activates))
    <3>1. CASE session[t].replay
      BY <1>1, <1>u, <3>1 DEF Commit
    <3>2. CASE ~session[t].replay
      BY <1>1, <1>u, <3>2, <2>5, Concatenation DEF Commit
    <3> QED
      BY <3>1, <3>2
  <2>7. asked' = asked /\ away' = away
    BY <1>1 DEF Commit
  <2> QED
    BY <1>1, <2>1, <2>2, <2>3, <2>4, <2>5, <2>6, <2>7, <1>u
<1>2. CASE ~Commit(t)
  <2>1. UNCHANGED <<ledger, members, activations, asked, away>>
    BY <1>2 DEF StepOf, Begin, Resolve, LockKey, ReadStored, LockMember, Prepare,
                Apply, NextPhase, Refuse, Abort, books, config
  <2>2. Booked' = Booked
    BY <2>1 DEF Booked
  <2> QED
    BY <1>2, <2>1, <2>2, <1>u
<1> QED
  BY <1>1, <1>2
-----------------------------------------------------------------------------
(* Transactions, locks and rows keep their shape.                           *)

(* Whatever a transaction may become from one step to the next.             *)
LEMMA SessionShape ==
  ASSUME WorkOK, NEW t \in Sessions, StepOf(t)
  PROVE  \/ session' = [session EXCEPT ![t] = Idle]
         \/ \E state \in SessionStates :
              /\ session' = [session EXCEPT ![t] = state]
              /\ state.pc # "idle" /\ state.request \in Requests
              /\ state.phase \in 1..Len(Phases[state.request])
<1>u. /\ session \in [Sessions -> SessionStates] /\ session[t] \in SessionStates
      /\ members \subseteq Members /\ asked \subseteq Requests
  BY DEF WorkOK
<1>a. session[t].pc # "idle" =>
        /\ session[t].request \in Requests
        /\ session[t].phase \in 1..Len(Phases[session[t].request])
  BY DEF WorkOK, Idle
<1>b. \A r \in Requests : Len(Phases[r]) \in Nat /\ 1 \in 1..Len(Phases[r])
  <2>1. \A r \in Requests : IsSeq(Phases[r]) /\ Phases[r] # <<>>
    BY LedgerAssumption DEF IsRequest
  <2> QED
    BY <2>1 DEF IsSeq
<1>1. ASSUME NEW r \in asked, Begin(t, r)
      PROVE  \E state \in SessionStates :
               /\ session' = [session EXCEPT ![t] = state]
               /\ state.pc # "idle" /\ state.request \in Requests
               /\ state.phase \in 1..Len(Phases[state.request])
  <2> DEFINE state == [Idle EXCEPT !.pc = "resolve", !.request = r, !.phase = 1]
  <2>1. state.pc = "resolve" /\ state.request = r /\ state.phase = 1
    BY DEF Idle
  <2>2. state \in SessionStates /\ r \in Requests
    <3>1. r \in Requests /\ Idle \in SessionStates
      BY <1>u DEF Idle, SessionStates
    <3> QED
      BY <3>1 DEF SessionStates
  <2>3. session' = [session EXCEPT ![t] = state]
    BY <1>1 DEF Begin
  <2> HIDE DEF state
  <2> QED
    BY <2>1, <2>2, <2>3, <1>b
<1>2. ASSUME NEW pc \in {"keys", "members", "prepared", "applied"}, GoTo(t, pc),
             session[t].pc # "idle"
      PROVE  \E state \in SessionStates :
               /\ session' = [session EXCEPT ![t] = state]
               /\ state.pc # "idle" /\ state.request \in Requests
               /\ state.phase \in 1..Len(Phases[state.request])
  <2> DEFINE state == [session[t] EXCEPT !.pc = pc]
  <2>1. state \in SessionStates /\ state.pc = pc
        /\ state.request = session[t].request /\ state.phase = session[t].phase
    BY <1>u DEF SessionStates
  <2>2. session' = [session EXCEPT ![t] = state]
    BY <1>2 DEF GoTo
  <2> HIDE DEF state
  <2> QED
    BY <2>1, <2>2, <1>2, <1>a
<1>3. ASSUME ReadStored(t)
      PROVE  \E state \in SessionStates :
               /\ session' = [session EXCEPT ![t] = state]
               /\ state.pc # "idle" /\ state.request \in Requests
               /\ state.phase \in 1..Len(Phases[state.request])
  <2> DEFINE found == \/ Stored(t) # {}
                      \/ Phase(t).joins \cap members # {}
                      \/ Repeated(t)
             state == [session[t] EXCEPT !.pc = "members", !.replay = found,
                                         !.scope = Scope(t)]
  <2>1. found \in BOOLEAN /\ Scope(t) \in SUBSET Members
    BY <1>u DEF Scope, Repeated
  <2>2. session' = [session EXCEPT ![t] = state]
    BY <1>3 DEF ReadStored
  <2> HIDE DEF found
  <2>3. state \in SessionStates /\ state.pc = "members"
        /\ state.request = session[t].request /\ state.phase = session[t].phase
    BY <1>u, <2>1 DEF SessionStates
  <2> HIDE DEF state
  <2> QED
    BY <1>3, <2>2, <2>3, <1>a DEF ReadStored
<1>4. ASSUME NextPhase(t)
      PROVE  \E state \in SessionStates :
               /\ session' = [session EXCEPT ![t] = state]
               /\ state.pc # "idle" /\ state.request \in Requests
               /\ state.phase \in 1..Len(Phases[state.request])
  <2> DEFINE state == [session[t] EXCEPT !.pc = "resolve", !.phase = @ + 1,
                                         !.replay = FALSE, !.scope = {}]
  <2>1. state \in SessionStates /\ state.pc = "resolve"
        /\ state.request = session[t].request
        /\ state.phase = session[t].phase + 1
    <3>1. session[t].phase + 1 \in Nat /\ {} \in SUBSET Members
      BY <1>u DEF SessionStates
    <3>2. state = [session[t] EXCEPT !.pc = "resolve",
                                     !.phase = session[t].phase + 1,
                                     !.replay = FALSE, !.scope = {}]
      BY <1>u DEF SessionStates
    <3> HIDE DEF state
    <3> QED
      BY <1>u, <3>1, <3>2 DEF SessionStates
  <2>2. session' = [session EXCEPT ![t] = state]
    BY <1>4 DEF NextPhase
  <2>3. session[t].request \in Requests
        /\ session[t].phase \in 1..Len(Phases[session[t].request])
        /\ session[t].phase < Len(Phases[session[t].request])
    BY <1>4, <1>a DEF NextPhase
  <2>4. session[t].phase + 1 \in 1..Len(Phases[session[t].request])
    BY <2>3, <1>b
  <2> HIDE DEF state
  <2> QED
    BY <2>1, <2>2, <2>3, <2>4
<1>5. ASSUME Commit(t) \/ Refuse(t) \/ Abort(t)
      PROVE  session' = [session EXCEPT ![t] = Idle]
  BY <1>5 DEF Commit, Refuse, Abort, EndTransaction
<1>6. ASSUME LockKey(t) \/ LockMember(t)
      PROVE  session' = [session EXCEPT ![t] = session[t]] /\ session[t].pc # "idle"
  BY <1>6, <1>u DEF LockKey, LockMember
<1> QED
  BY <1>1, <1>2, <1>3, <1>4, <1>5, <1>6, <1>a, <1>u
     DEF StepOf, Resolve, Prepare, Apply

(* The lock tables keep their type.                                         *)
LEMMA LocksShape ==
  ASSUME WorkOK, NEW t \in Sessions, StepOf(t)
  PROVE  /\ keyLock' \in [Keys -> Sessions \cup {Free}]
         /\ rowLock' \in [Members -> Sessions \cup {Free}]
<1>u. /\ keyLock \in [Keys -> Sessions \cup {Free}]
      /\ rowLock \in [Members -> Sessions \cup {Free}]
  BY DEF WorkOK
<1>1. ASSUME EndTransaction(t)
      PROVE  /\ keyLock' \in [Keys -> Sessions \cup {Free}]
             /\ rowLock' \in [Members -> Sessions \cup {Free}]
  BY <1>1, <1>u DEF EndTransaction
<1>2. CASE Apply(t)
  BY <1>2, <1>u DEF Apply
<1> QED
  BY <1>1, <1>2, <1>u
     DEF StepOf, Begin, Resolve, LockKey, ReadStored, LockMember, Prepare,
         NextPhase, Commit, Refuse, Abort

(* What is staged stays a sequence.                                         *)
LEMMA StagedShape ==
  ASSUME WorkOK, NEW t \in Sessions, StepOf(t)
  PROVE  DOMAIN staged' = Sessions /\ \A s \in Sessions : IsSeq(staged'[s])
<1>u. DOMAIN staged = Sessions /\ \A s \in Sessions : IsSeq(staged[s])
  BY DEF WorkOK
<1>1. ASSUME EndTransaction(t)
      PROVE  DOMAIN staged' = Sessions /\ \A s \in Sessions : IsSeq(staged'[s])
  <2>1. IsSeq(<<>>)
    <3>1. <<>> \in Seq(Members)
      OBVIOUS
    <3> QED
      BY <3>1, SeqOverRange
  <2> QED
    BY <1>1, <1>u, <2>1 DEF EndTransaction
<1>2. ASSUME Apply(t)
      PROVE  DOMAIN staged' = Sessions /\ \A s \in Sessions : IsSeq(staged'[s])
  <2>1. session[t].pc # "idle"
    BY <1>2 DEF Apply
  <2>2. IsSeq(staged[t] \o Rows(t))
    BY <2>1, <1>u, BatchRows, Concatenation
  <2>3. staged' = staged \/ staged' = [staged EXCEPT ![t] = staged[t] \o Rows(t)]
    BY <1>2 DEF Apply, work
  <2> QED
    BY <1>u, <2>2, <2>3
<1>3. ASSUME UNCHANGED staged
      PROVE  DOMAIN staged' = Sessions /\ \A s \in Sessions : IsSeq(staged'[s])
  BY <1>3, <1>u
<1> QED
  BY <1>1, <1>2, <1>3
     DEF StepOf, Begin, Resolve, LockKey, ReadStored, LockMember, Prepare,
         NextPhase, Commit, Refuse, Abort, work

(* A status change elsewhere, or nothing at all, leaves all of this alone.  *)
LEMMA Elsewhere ==
  ASSUME (\E m \in Members : ChangeStatus(m)) \/ UNCHANGED vars
  PROVE  UNCHANGED <<ledger, members, activations, asked, session, staged,
                     keyLock, rowLock>>
BY DEF ChangeStatus, vars, books, config, work

(* Every step keeps the shape.                                              *)
LEMMA WorkStep == WorkOK /\ [Next]_vars => WorkOK'
<1> SUFFICES ASSUME WorkOK, [Next]_vars PROVE WorkOK'
  OBVIOUS
<1>1. ASSUME NEW t \in Sessions, StepOf(t) PROVE WorkOK'
  <2>1. session' \in [Sessions -> SessionStates]
    <3>1. Idle \in SessionStates
      BY DEF Idle, SessionStates
    <3> QED
      BY <3>1, <1>1, SessionShape DEF WorkOK
  <2>2. ASSUME NEW s \in Sessions, session'[s] # Idle
        PROVE  /\ session'[s].pc # "idle" /\ session'[s].request \in Requests
               /\ session'[s].phase \in 1..Len(Phases[session'[s].request])
    <3>1. CASE s = t
      BY <3>1, <2>2, <1>1, SessionShape DEF WorkOK
    <3>2. CASE s # t
      <4>1. session'[s] = session[s]
        BY <3>2, <1>1, SessionShape DEF WorkOK
      <4> QED
        BY <4>1, <2>2 DEF WorkOK
    <3> QED
      BY <3>1, <3>2
  <2>3. asked' \subseteq Requests
    BY <1>1, BooksGrow DEF WorkOK
  <2> QED
    BY <1>1, <2>1, <2>2, <2>3, BooksGrow, LocksShape, StagedShape DEF WorkOK
<1>2. ASSUME (\E m \in Members : ChangeStatus(m)) \/ UNCHANGED vars PROVE WorkOK'
  BY <1>2, Elsewhere DEF WorkOK, IsSeq
<1> QED
  BY <1>1, <1>2 DEF Next, StepOf
-----------------------------------------------------------------------------
(* A step of one transaction leaves what another one relies on.             *)

(* A session that does not move keeps its phase and what it asks for.       *)
LEMMA SamePhase ==
  ASSUME NEW s \in Sessions, session'[s] = session[s]
  PROVE  /\ Phase(s)' = Phase(s) /\ CommandSet(s)' = CommandSet(s)
         /\ KeysToLock(s)' = KeysToLock(s) /\ MembersToLock(s)' = MembersToLock(s)
         /\ Transfers(s)' = Transfers(s) /\ Recipients(s)' = Recipients(s)
         /\ NextJoin(s)' = NextJoin(s)
BY DEF Phase, CommandSet, Commands, KeysToLock, KeysOf, MembersToLock, Transfers,
       Recipients, NextJoin

(* What a member has earned changes only by a transaction that holds the    *)
(* member's row: neither a reward nor a reversal of one commits meanwhile.  *)
LEMMA EarnedKept ==
  ASSUME LedgerInv, NEW t \in Sessions, StepOf(t), NEW m, rowLock[m] # t
  PROVE  Earned(m)' = Earned(m)
<1> DEFINE counts(c, commands) ==
      /\ c.member = m
      /\ \/ c.kind \in RewardKinds
         \/ \E d \in commands : d.key = c.reverses /\ d.kind \in RewardKinds
<1>u. /\ Booked \subseteq Booked' /\ Booked' \subseteq Booked \cup StagedCommands(t)
      /\ StagedIsHeld(t) /\ BookedHaveSources
  BY BooksGrow DEF LedgerInv, SessionInv
<1>1. \A c \in Booked' : c.member = m => c \in Booked
  BY <1>u DEF StagedIsHeld
<1>2. ASSUME NEW c \in Booked, NEW d \in Booked', d.key = c.reverses
      PROVE  d \in Booked
  <2>1. SUFFICES ASSUME d \in StagedCommands(t) PROVE FALSE
    BY <1>u
  <2>2. d.key \notin BookedKeys /\ d \in AllCommands
    BY <2>1, <1>u DEF StagedIsHeld
  <2>3. c.reverses # 0
    BY <1>2, <2>2, LedgerAssumption DEF IsCommand
  <2>4. c.reverses \in BookedKeys
    BY <2>3, <1>u DEF BookedHaveSources, HasSource, BookedKeys
  <2> QED
    BY <1>2, <2>2, <2>4
<1>3. \A c \in Booked : counts(c, Booked') <=> counts(c, Booked)
  BY <1>u, <1>2
<1>4. {c \in Booked' : counts(c, Booked')} = {c \in Booked : counts(c, Booked)}
  BY <1>u, <1>1, <1>3
<1>5. EarnedIn(Booked', m) = EarnedIn(Booked, m)
  BY <1>4 DEF EarnedIn
<1>6. Earned(m)' = EarnedIn(Booked', m)
  BY DEF Earned
<1> QED
  BY <1>5, <1>6 DEF Earned

(* The keys, members and activations of a new phase stay unstored.          *)
LEMMA OthersFresh ==
  ASSUME LedgerInv, NEW t \in Sessions, StepOf(t), NEW s \in Sessions, s # t
  PROVE  FreshIsNew(s)'
<1>u. /\ WorkOK /\ InsertedUnderGate /\ KeysHeld(s) /\ KeysHeld(t)
      /\ StagedIsHeld(t) /\ FreshIsNew(s)
  BY DEF LedgerInv, SessionInv
<1>a. session'[s] = session[s] /\ staged'[s] = staged[s]
  BY OthersKept
<1> SUFFICES ASSUME session[s].pc \in KeyPhase, ~session[s].replay
             PROVE  /\ (Phase(s).joins \cap members # {})' => session[s].pc = "applied"
                    /\ (Stored(s) # {})' => session[s].pc = "applied"
                    /\ ~Repeated(s)'
  BY <1>a DEF FreshIsNew
<1>b. /\ Phase(s)' = Phase(s) /\ CommandSet(s)' = CommandSet(s)
      /\ KeysToLock(s)' = KeysToLock(s)
  BY <1>a, SamePhase
<1>c. /\ IsPhase(Phase(s)) /\ KeysToLock(s) \subseteq Keys
      /\ \A k \in KeysToLock(s) : keyLock[k] = s
  BY <1>u, PhaseFacts DEF KeysHeld, KeyPhase
<1>1. ASSUME NEW m \in Phase(s).joins, m \in members' PROVE m \in members
  <2>1. SUFFICES ASSUME m \notin members PROVE FALSE
    OBVIOUS
  <2>2. m \in Members /\ rowLock[m] = t
    BY <1>1, <1>u, <2>1, BooksGrow
  <2>3. keyLock[IdentityGate] = t
    BY <2>1, <2>2, <1>u, LedgerAssumption DEF InsertedUnderGate, Free
  <2>4. IdentityGate \in KeysToLock(s)
    BY <1>1, <1>c DEF IsPhase, KeysToLock, KeysOf
  <2> QED
    BY <2>3, <2>4, <1>c
<1>2. ASSUME NEW c \in CommandSet(s), NEW d \in Visible(s)', d.key = c.key
      PROVE  d \in Visible(s)
  <2>1. SUFFICES ASSUME d \in StagedCommands(t) PROVE FALSE
    BY <1>2, <1>u, <1>a, BooksGrow DEF Visible
  <2>2. keyLock[d.key] = t
    BY <2>1, <1>u DEF StagedIsHeld
  <2>3. c.key \in KeysToLock(s)
    BY DEF KeysToLock, KeysOf, CommandSet, Commands
  <2> QED
    BY <1>2, <2>2, <2>3, <1>c
<1>3. Stored(s)' \subseteq Stored(s)
  BY <1>2, <1>b DEF Stored
<1>4. ASSUME NEW a \in Range(Phase(s).activates), a \in Range(activations')
      PROVE  a \in Range(activations)
  <2>1. SUFFICES ASSUME a \notin Range(activations) PROVE FALSE
    OBVIOUS
  <2>2. session[t].pc = "applied" /\ a \in Range(Phase(t).activates)
    BY <1>4, <1>u, <2>1, BooksGrow
  <2>3. IsPhase(Phase(t)) /\ \A k \in KeysToLock(t) : keyLock[k] = t
    BY <1>u, <2>2, PhaseFacts DEF KeysHeld, KeyPhase
  <2>4. Range(<<>>) = {}
    BY DEF Range
  <2>5. ConfigGate \in KeysToLock(t)
    BY <2>2, <2>3, <2>4 DEF IsPhase, KeysToLock, KeysOf
  <2>6. ConfigGate \in KeysToLock(s)
    BY <1>c, <2>4 DEF IsPhase, KeysToLock, KeysOf
  <2> QED
    BY <2>3, <2>5, <2>6, <1>c
<1> QED
  BY <1>1, <1>3, <1>4, <1>b, <1>u DEF FreshIsNew, Repeated

(* All that another transaction relies on survives the step.                *)
LEMMA OthersStep ==
  ASSUME LedgerInv, NEW t \in Sessions, StepOf(t), NEW s \in Sessions, s # t
  PROVE  SessionInv(s)'
<1>u. WorkOK /\ SessionInv(s) /\ SessionInv(t) /\ BookedHaveSources
  BY DEF LedgerInv
<1>a. /\ session'[s] = session[s] /\ staged'[s] = staged[s]
      /\ \A k \in Keys : keyLock[k] = s => keyLock'[k] = s
      /\ \A m \in Members : rowLock[m] = s => rowLock'[m] = s
  BY OthersKept
<1>b. /\ Phase(s)' = Phase(s) /\ CommandSet(s)' = CommandSet(s)
      /\ KeysToLock(s)' = KeysToLock(s) /\ MembersToLock(s)' = MembersToLock(s)
      /\ Transfers(s)' = Transfers(s) /\ Recipients(s)' = Recipients(s)
      /\ NextJoin(s)' = NextJoin(s)
  BY <1>a, SamePhase
<1>c. /\ Booked \subseteq Booked' /\ Booked' \subseteq Booked \cup StagedCommands(t)
      /\ members \subseteq members' /\ away' = away
  BY <1>u, BooksGrow
<1>d. StagedCommands(s)' = StagedCommands(s)
  BY <1>a DEF StagedCommands
<1>e. Visible(s) \subseteq Visible(s)' /\ Visible(s)' \subseteq Visible(s) \cup StagedCommands(t)
  BY <1>a, <1>c DEF Visible
<1>f. \A c \in AllCommands : IsCommand(c)
  BY LedgerAssumption
<1>g. StagedIsHeld(t)
  BY <1>u DEF SessionInv
<1>1. NamesKnown(s)'
  <2>1. Known(s) \subseteq Known(s)'
    BY <1>a, <1>c DEF Known
  <2> QED
    BY <1>a, <1>b, <2>1, <1>u DEF NamesKnown, SessionInv
<1>2. ScopeKnown(s)'
  BY <1>a, <1>c, <1>u DEF ScopeKnown, SessionInv
<1>3. KeysHeld(s)'
  <2>1. session[s].pc \in KeyPhase => KeysToLock(s) \subseteq Keys
    BY <1>u, PhaseFacts DEF KeyPhase
  <2> QED
    BY <1>a, <1>b, <2>1, <1>u DEF KeysHeld, SessionInv
<1>4. RowsHeld(s)'
  <2>1. session[s].pc \in RowPhase => MembersToLock(s) \subseteq Members
    BY <1>u, PhaseFacts DEF RowPhase
  <2> QED
    BY <1>a, <1>b, <2>1, <1>u DEF RowsHeld, SessionInv
<1>5. StagedIsHeld(s)'
  <2> SUFFICES ASSUME NEW c \in StagedCommands(s)
               PROVE  /\ c \in AllCommands /\ c.key \in Keys
                      /\ keyLock'[c.key] = s /\ c.key \notin BookedKeys'
                      /\ rowLock'[c.member] = s
    BY <1>d DEF StagedIsHeld
  <2>1. /\ c \in AllCommands /\ c.key \in Keys
        /\ keyLock[c.key] = s /\ c.key \notin BookedKeys
        /\ rowLock[c.member] = s
    BY <1>u DEF SessionInv, StagedIsHeld
  <2>2. c.member \in Members
    BY <2>1, <1>f DEF IsCommand
  <2>3. c.key \notin BookedKeys'
    BY <2>1, <1>c, <1>g DEF BookedKeys, StagedIsHeld
  <2> QED
    BY <2>1, <2>2, <2>3, <1>a
<1>6. FreshIsNew(s)'
  BY OthersFresh
<1>7. RepeatedIsKnown(s)'
  BY <1>a, <1>b, <1>c, <1>u DEF RepeatedIsKnown, SessionInv
<1>8. SourcesRead(s)'
  BY <1>a, <1>b, <1>d, <1>e, <1>u DEF SourcesRead, HasSource, SessionInv
<1>9. SourcesStayIntact(s)'
  <2> SUFFICES ASSUME session[s].pc = "prepared", ~session[s].replay,
                      NEW c \in CommandSet(s), c.reverses # 0,
                      NEW d \in Visible(s)' \cup (CommandSet(s) \ {c})
               PROVE  d.reverses # c.reverses
    BY <1>a, <1>b DEF SourcesStayIntact, SourcesIntact
  <2>1. CASE d \in Visible(s) \cup (CommandSet(s) \ {c})
    BY <2>1, <1>u DEF SourcesStayIntact, SourcesIntact, SessionInv
  <2>2. CASE d \in StagedCommands(t)
    <3>1. d \in AllCommands /\ rowLock[d.member] = t
      BY <2>2, <1>g DEF StagedIsHeld
    <3>2. c \in AllCommands /\ rowLock[c.member] = s
      BY <1>u, PhaseFacts DEF SessionInv, RowsHeld, RowPhase
    <3> QED
      BY <3>1, <3>2, LedgerAssumption DEF SourcesNamed
  <2> QED
    BY <2>1, <2>2, <1>e
<1>10. StaysEntitled(s)'
  <2> SUFFICES ASSUME session[s].pc \in RowPhase, ~session[s].replay,
                      NEW c \in Transfers(s)
               PROVE  /\ Earned(c.member)' >= Threshold
                      /\ ({c.member} \cup Recipients(s)) \cap away = {}
    BY <1>a, <1>b, <1>c DEF StaysEntitled
  <2>1. Earned(c.member) >= Threshold
        /\ ({c.member} \cup Recipients(s)) \cap away = {}
    BY <1>u DEF SessionInv, StaysEntitled
  <2>2. rowLock[c.member] = s
    BY <1>u, PhaseFacts DEF SessionInv, RowsHeld, RowPhase, Transfers
  <2>3. Earned(c.member)' = Earned(c.member)
    BY <2>2, EarnedKept
  <2> QED
    BY <2>1, <2>3
<1> QED
  BY <1>1, <1>2, <1>3, <1>4, <1>5, <1>6, <1>7, <1>8, <1>9, <1>10 DEF SessionInv
-----------------------------------------------------------------------------
(* A step of a transaction establishes what it relies on next.              *)

(* The phase a transaction is in is given by two fields of its state.       *)
LEMMA PhaseOfState ==
  ASSUME NEW s \in Sessions, session'[s].request = session[s].request,
         session'[s].phase = session[s].phase
  PROVE  /\ Phase(s)' = Phase(s) /\ CommandSet(s)' = CommandSet(s)
         /\ KeysToLock(s)' = KeysToLock(s)
         /\ Transfers(s)' = Transfers(s) /\ Recipients(s)' = Recipients(s)
         /\ session'[s].scope = session[s].scope => MembersToLock(s)' = MembersToLock(s)
BY DEF Phase, CommandSet, Commands, KeysToLock, KeysOf, MembersToLock, Transfers, Recipients

(* A transaction that moves on keeps the rest of its state.                 *)
LEMMA Moved ==
  ASSUME WorkOK, NEW t \in Sessions, NEW pc, GoTo(t, pc)
  PROVE  /\ session'[t].pc = pc
         /\ session'[t].request = session[t].request
         /\ session'[t].phase = session[t].phase
         /\ session'[t].replay = session[t].replay
         /\ session'[t].scope = session[t].scope
BY DEF WorkOK, SessionStates, GoTo

(* A transaction that has ended relies on nothing.                          *)
LEMMA EndedInv ==
  ASSUME WorkOK, NEW t \in Sessions, EndTransaction(t)
  PROVE  SessionInv(t)'
<1>1. session'[t] = Idle /\ staged'[t] = <<>>
  BY DEF EndTransaction, WorkOK
<1>2. StagedCommands(t)' = {}
  BY <1>1 DEF StagedCommands, Range
<1> QED
  BY <1>1, <1>2
     DEF SessionInv, Idle, NamesKnown, ScopeKnown, KeysHeld, RowsHeld, StagedIsHeld,
         FreshIsNew, RepeatedIsKnown, SourcesRead, SourcesStayIntact, StaysEntitled,
         KeyPhase, RowPhase

(* Rows once staged stay locked, new and with their sources while their     *)
(* transaction takes more locks.                                            *)
LEMMA StagedKept ==
  ASSUME LedgerInv, NEW t \in Sessions, UNCHANGED <<ledger, staged>>,
         \A k \in Keys : keyLock[k] = t => keyLock'[k] = t,
         \A m \in Members : rowLock[m] = t => rowLock'[m] = t
  PROVE  /\ StagedIsHeld(t)'
         /\ Visible(t)' = Visible(t) /\ Booked' = Booked
         /\ \A c \in StagedCommands(t)' : HasSource(c, Visible(t))
<1>1. StagedIsHeld(t) /\ SourcesRead(t)
  BY DEF LedgerInv, SessionInv
<1>2. StagedCommands(t)' = StagedCommands(t) /\ Booked' = Booked
  BY DEF StagedCommands, Booked
<1>3. \A c \in AllCommands : c.member \in Members
  BY LedgerAssumption DEF IsCommand
<1>4. Visible(t)' = Visible(t) /\ BookedKeys' = BookedKeys
  BY <1>2 DEF Visible, BookedKeys
<1>5. StagedIsHeld(t)'
  BY <1>1, <1>2, <1>3, <1>4 DEF StagedIsHeld
<1> QED
  BY <1>1, <1>2, <1>4, <1>5 DEF SourcesRead

(* A transaction begins, resolves its commands and takes key locks.         *)
LEMMA EarlyStep ==
  ASSUME LedgerInv, NEW t \in Sessions,
         (\E r \in asked : Begin(t, r)) \/ Resolve(t) \/ LockKey(t) \/ NextPhase(t)
  PROVE  SessionInv(t)'
<1>u. WorkOK /\ SessionInv(t)
  BY DEF LedgerInv
<1>a. /\ UNCHANGED <<ledger, staged, members, rowLock>>
      /\ \A k \in Keys : keyLock[k] = t => keyLock'[k] = t
  <2>1. Free # t
    BY LedgerAssumption DEF Free
  <2> QED
    BY <1>u, <2>1
       DEF Begin, Resolve, LockKey, NextPhase, books, config, work, WorkOK
<1>b. /\ StagedIsHeld(t)' /\ Visible(t)' = Visible(t)
      /\ \A c \in StagedCommands(t)' : HasSource(c, Visible(t))
  BY <1>a, StagedKept
<1>c. Known(t)' = Known(t)
  BY <1>a DEF Known
<1>d. ASSUME (\E r \in asked : Begin(t, r)) \/ NextPhase(t)
      PROVE  session'[t].pc = "resolve" /\ session'[t].scope = {}
  <2>1. ASSUME NEW r \in asked, Begin(t, r)
        PROVE  session'[t].pc = "resolve" /\ session'[t].scope = {}
    BY <2>1, <1>u DEF Begin, WorkOK, Idle
  <2>2. ASSUME NextPhase(t)
        PROVE  session'[t].pc = "resolve" /\ session'[t].scope = {}
    BY <2>2, <1>u DEF NextPhase, WorkOK, SessionStates
  <2> QED
    BY <1>d, <2>1, <2>2
<1>e. ASSUME Resolve(t)
      PROVE  session'[t].pc = "keys" /\ session'[t].scope = session[t].scope
  BY <1>e, <1>u, Moved DEF Resolve
<1>f. ASSUME LockKey(t) PROVE session'[t] = session[t] /\ session[t].pc = "keys"
  BY <1>f DEF LockKey
<1>1. session'[t].pc \in {"resolve", "keys"}
  BY <1>d, <1>e, <1>f
<1>2. NamesKnown(t)'
  <2>1. ASSUME NEW r \in asked, Begin(t, r) PROVE NamesKnown(t)'
    <3>1. session'[t].request = r /\ session'[t].phase = 1
      BY <2>1, <1>u DEF Begin, WorkOK, SessionStates, Idle
    <3>2. \A j \in 1..Len(Phases[r]) :
            Named(Phases[r][j]) \subseteq members \cup Joined(r, 1, j)
      BY <2>1 DEF Begin, MayBegin
    <3>3. NextJoin(t)' = 1
      BY <1>1, <3>1 DEF NextJoin
    <3> QED
      BY <1>a, <3>1, <3>2, <3>3 DEF NamesKnown, Known
  <2>2. ASSUME Resolve(t) \/ LockKey(t) PROVE NamesKnown(t)'
    <3>1. /\ session'[t].request = session[t].request
          /\ session'[t].phase = session[t].phase
          /\ session[t].pc \in {"resolve", "keys"}
      BY <2>2, <1>u, Moved DEF Resolve, LockKey
    <3>2. NextJoin(t)' = NextJoin(t)
      BY <1>1, <3>1 DEF NextJoin
    <3> QED
      BY <1>c, <1>u, <3>1, <3>2 DEF NamesKnown, SessionInv
  <2>3. ASSUME NextPhase(t) PROVE NamesKnown(t)'
    <3>1. /\ session'[t].request = session[t].request
          /\ session'[t].phase = session[t].phase + 1
          /\ session[t].pc = "applied" /\ session[t].phase \in Nat
      BY <2>3, <1>u DEF NextPhase, WorkOK, SessionStates
    <3>2. NextJoin(t)' = NextJoin(t)
      BY <1>1, <3>1 DEF NextJoin
    <3>3. \A j \in (session[t].phase + 1)..Len(Phases[session[t].request]) :
            j \in session[t].phase..Len(Phases[session[t].request])
      BY <3>1
    <3> QED
      BY <1>c, <1>u, <3>1, <3>2, <3>3 DEF NamesKnown, SessionInv
  <2> QED
    BY <2>1, <2>2, <2>3
<1>3. ScopeKnown(t)'
  <2>1. session'[t].scope = session[t].scope \/ session'[t].scope = {}
    BY <1>d, <1>e, <1>f
  <2> QED
    BY <1>a, <1>u, <2>1 DEF ScopeKnown, SessionInv
<1>4. SourcesRead(t)'
  <2>1. ASSUME session'[t].pc = "keys"
        PROVE  \A c \in CommandSet(t)' : HasSource(c, Visible(t))
    <3>1. CASE Resolve(t)
      <4>1. CommandSet(t)' = CommandSet(t)
        BY <3>1, <1>u, Moved, PhaseOfState DEF Resolve
      <4>2. Resolvable(t)
        BY <3>1 DEF Resolve
      <4> QED
        BY <4>1, <4>2 DEF Resolvable, HasSource
    <3>2. CASE LockKey(t)
      <4>1. session'[t] = session[t]
        BY <3>2 DEF LockKey
      <4>2. CommandSet(t)' = CommandSet(t)
        BY <4>1, SamePhase
      <4> QED
        BY <2>1, <4>1, <4>2, <1>u DEF SourcesRead, SessionInv
    <3>3. CASE (\E r \in asked : Begin(t, r)) \/ NextPhase(t)
      BY <2>1, <3>3, <1>d
    <3> QED
      BY <3>1, <3>2, <3>3
  <2> QED
    BY <1>1, <1>b, <2>1 DEF SourcesRead
<1> QED
  BY <1>1, <1>2, <1>3, <1>4, <1>b
     DEF SessionInv, KeysHeld, RowsHeld, FreshIsNew, RepeatedIsKnown,
         SourcesStayIntact, StaysEntitled, KeyPhase, RowPhase

(* Once all keys are locked, what is stored under them is known.            *)
LEMMA ReadStep ==
  ASSUME LedgerInv, NEW t \in Sessions, ReadStored(t)
  PROVE  SessionInv(t)'
<1>u. WorkOK /\ SessionInv(t)
  BY DEF LedgerInv
<1>a. UNCHANGED <<ledger, staged, members, activations, rowLock, keyLock>>
  BY DEF ReadStored, books, config, work
<1>b. /\ StagedIsHeld(t)' /\ Visible(t)' = Visible(t)
      /\ \A c \in StagedCommands(t)' : HasSource(c, Visible(t))
  BY <1>a, StagedKept
<1>c. /\ session[t].pc = "keys" /\ session'[t].pc = "members"
      /\ session'[t].request = session[t].request
      /\ session'[t].phase = session[t].phase
      /\ session'[t].scope = Scope(t)
  BY <1>u DEF ReadStored, WorkOK, SessionStates
<1>d. session'[t].replay = (\/ Stored(t) # {}
                            \/ Phase(t).joins \cap members # {}
                            \/ Repeated(t))
  BY <1>u DEF ReadStored, WorkOK, SessionStates
<1>e. /\ Phase(t)' = Phase(t) /\ CommandSet(t)' = CommandSet(t)
      /\ KeysToLock(t)' = KeysToLock(t)
  BY <1>c, PhaseOfState
<1>1. NamesKnown(t)'
  <2>1. NextJoin(t)' = NextJoin(t) /\ Known(t)' = Known(t)
    BY <1>a, <1>c DEF NextJoin, Known
  <2> QED
    BY <1>c, <1>u, <2>1 DEF NamesKnown, SessionInv
<1>2. ScopeKnown(t)'
  BY <1>a, <1>c DEF ScopeKnown, Scope
<1>3. KeysHeld(t)'
  <2>1. \A k \in KeysToLock(t) : keyLock[k] = t
    BY DEF ReadStored, MissingKeys
  <2> QED
    BY <1>a, <1>e, <2>1 DEF KeysHeld
<1>4. Stored(t)' = Stored(t) /\ Repeated(t)' = Repeated(t)
  BY <1>a, <1>b, <1>e DEF Stored, Repeated
<1>5. FreshIsNew(t)'
  BY <1>a, <1>d, <1>e, <1>4 DEF FreshIsNew
<1>6. RepeatedIsKnown(t)'
  <2>1. SUFFICES ASSUME session'[t].replay, NEW m \in Phase(t).joins
                 PROVE  m \in members
    BY <1>a, <1>e DEF RepeatedIsKnown
  <2>2. IsPhase(Phase(t))
    BY <1>c, <1>u, PhaseFacts
  <2>3. Phase(t).commands = <<>> /\ Phase(t).activates = <<>> /\ Phase(t).joins = {m}
    BY <2>1, <2>2 DEF IsPhase
  <2>4. Range(<<>>) = {}
    BY DEF Range
  <2>5. Stored(t) = {} /\ ~Repeated(t)
    BY <2>3, <2>4 DEF Stored, Repeated, CommandSet, Commands
  <2> QED
    BY <2>1, <2>3, <2>5, <1>d
<1>7. SourcesRead(t)'
  <2>1. \A c \in CommandSet(t) : HasSource(c, Visible(t))
    BY <1>c, <1>u DEF SourcesRead, SessionInv
  <2> QED
    BY <1>b, <1>e, <2>1 DEF SourcesRead
<1> QED
  BY <1>1, <1>2, <1>3, <1>5, <1>6, <1>7, <1>b, <1>c
     DEF SessionInv, RowsHeld, SourcesStayIntact, StaysEntitled, RowPhase

(* Member rows are locked under unchanged keys.                             *)
LEMMA LockMemberStep ==
  ASSUME LedgerInv, NEW t \in Sessions, LockMember(t)
  PROVE  SessionInv(t)'
<1>u. WorkOK /\ SessionInv(t)
  BY DEF LedgerInv
<1>a. UNCHANGED <<ledger, staged, members, activations, keyLock, session>>
      /\ session[t].pc = "members"
  BY DEF LockMember, books, config, work
<1>b. \A m \in Members : rowLock[m] = t => rowLock'[m] = t
  <2>1. Free # t
    BY LedgerAssumption DEF Free
  <2> QED
    BY <1>u, <2>1 DEF LockMember, WorkOK
<1>c. /\ StagedIsHeld(t)' /\ Visible(t)' = Visible(t)
      /\ \A c \in StagedCommands(t)' : HasSource(c, Visible(t))
  BY <1>a, <1>b, StagedKept
<1>d. /\ Phase(t)' = Phase(t) /\ CommandSet(t)' = CommandSet(t)
      /\ KeysToLock(t)' = KeysToLock(t) /\ NextJoin(t)' = NextJoin(t)
  BY <1>a, SamePhase
<1>1. NamesKnown(t)'
  <2>1. Known(t) \subseteq Known(t)'
    BY <1>a, <1>b DEF Known
  <2> QED
    BY <1>a, <1>d, <1>u, <2>1 DEF NamesKnown, SessionInv
<1>2. ScopeKnown(t)' /\ KeysHeld(t)' /\ RepeatedIsKnown(t)'
  BY <1>a, <1>d, <1>u DEF ScopeKnown, KeysHeld, RepeatedIsKnown, SessionInv
<1>3. Stored(t)' = Stored(t) /\ Repeated(t)' = Repeated(t)
  BY <1>a, <1>c, <1>d DEF Stored, Repeated
<1>4. FreshIsNew(t)'
  BY <1>a, <1>d, <1>3, <1>u DEF FreshIsNew, SessionInv
<1>5. SourcesRead(t)'
  BY <1>a, <1>c, <1>d, <1>u DEF SourcesRead, SessionInv
<1> QED
  BY <1>1, <1>2, <1>4, <1>5, <1>a, <1>c
     DEF SessionInv, RowsHeld, SourcesStayIntact, StaysEntitled, RowPhase

(* The checks of a batch run with all its rows locked.                      *)
LEMMA PrepareStep ==
  ASSUME LedgerInv, NEW t \in Sessions, Prepare(t)
  PROVE  SessionInv(t)'
<1>u. WorkOK /\ SessionInv(t)
  BY DEF LedgerInv
<1>a. UNCHANGED <<ledger, staged, members, activations, away, keyLock, rowLock>>
  BY DEF Prepare, books, config, work
<1>b. /\ session[t].pc = "members" /\ session'[t].pc = "prepared"
      /\ session'[t].request = session[t].request
      /\ session'[t].phase = session[t].phase
      /\ session'[t].replay = session[t].replay
      /\ session'[t].scope = session[t].scope
  BY <1>u, Moved DEF Prepare
<1>c. /\ StagedIsHeld(t)' /\ Visible(t)' = Visible(t) /\ Booked' = Booked
      /\ \A c \in StagedCommands(t)' : HasSource(c, Visible(t))
  BY <1>a, StagedKept
<1>d. /\ Phase(t)' = Phase(t) /\ CommandSet(t)' = CommandSet(t)
      /\ KeysToLock(t)' = KeysToLock(t) /\ MembersToLock(t)' = MembersToLock(t)
      /\ Transfers(t)' = Transfers(t) /\ Recipients(t)' = Recipients(t)
  BY <1>b, PhaseOfState
<1>e. /\ \A m \in MembersToLock(t) : rowLock[m] = t
      /\ Allowed(t)
  BY DEF Prepare, MissingRows
<1>1. NamesKnown(t)'
  <2>1. Known(t)' = Known(t) /\ NextJoin(t)' = NextJoin(t)
    BY <1>a, <1>b DEF Known, NextJoin
  <2> QED
    BY <1>b, <1>u, <2>1 DEF NamesKnown, SessionInv
<1>2. ScopeKnown(t)' /\ KeysHeld(t)' /\ RepeatedIsKnown(t)'
  BY <1>a, <1>b, <1>d, <1>u
     DEF ScopeKnown, KeysHeld, RepeatedIsKnown, SessionInv, KeyPhase
<1>3. RowsHeld(t)'
  BY <1>a, <1>d, <1>e DEF RowsHeld
<1>4. Stored(t)' = Stored(t) /\ Repeated(t)' = Repeated(t)
  BY <1>a, <1>c, <1>d DEF Stored, Repeated
<1>5. FreshIsNew(t)'
  BY <1>a, <1>b, <1>d, <1>4, <1>u DEF FreshIsNew, SessionInv, KeyPhase
<1>6. SourcesRead(t)'
  BY <1>b, <1>c, <1>d, <1>u DEF SourcesRead, SessionInv
<1>7. SourcesStayIntact(t)'
  BY <1>b, <1>c, <1>d, <1>e DEF SourcesStayIntact, SourcesIntact, Allowed
<1>8. StaysEntitled(t)'
  <2> SUFFICES ASSUME ~session[t].replay, NEW c \in Transfers(t)
               PROVE  /\ Earned(c.member)' >= Threshold
                      /\ ({c.member} \cup Recipients(t)) \cap away = {}
    BY <1>a, <1>b, <1>d DEF StaysEntitled
  <2>1. SenderActive(t) /\ Entitled(t)
    BY <1>e DEF Allowed
  <2>2. Earned(c.member)' = Earned(c.member)
    BY <1>c DEF Earned
  <2> QED
    BY <2>1, <2>2 DEF SenderActive, Entitled
<1> QED
  BY <1>1, <1>2, <1>3, <1>5, <1>6, <1>7, <1>8, <1>c DEF SessionInv

(* What a batch books is staged, unless it is a repeated one.               *)
LEMMA AppliedIsStaged ==
  ASSUME WorkOK, NEW t \in Sessions, Apply(t)
  PROVE  StagedCommands(t)' = StagedCommands(t)
           \cup (IF session[t].replay THEN {} ELSE CommandSet(t))
<1>1. CASE session[t].replay
  BY <1>1 DEF Apply, work, StagedCommands
<1>2. CASE ~session[t].replay
  <2>1. staged'[t] = staged[t] \o Rows(t)
    BY <1>2 DEF Apply, WorkOK
  <2>2. IsSeq(staged[t]) /\ IsSeq(Rows(t))
        /\ {row.command : row \in Range(Rows(t))} = CommandSet(t)
    BY BatchRows DEF Apply, WorkOK
  <2>3. Range(staged'[t]) = Range(staged[t]) \cup Range(Rows(t))
    BY <2>1, <2>2, Concatenation
  <2>4. StagedCommands(t)' = {row.command : row \in Range(staged'[t])}
    BY DEF StagedCommands
  <2>5. StagedCommands(t)' = StagedCommands(t) \cup {row.command : row \in Range(Rows(t))}
    BY <2>3, <2>4 DEF StagedCommands
  <2> QED
    BY <1>2, <2>2, <2>5
<1> QED
  BY <1>1, <1>2

(* Staging a batch: its rows join those of the phases before.               *)
LEMMA ApplyStep ==
  ASSUME LedgerInv, NEW t \in Sessions, Apply(t)
  PROVE  SessionInv(t)'
<1>u. WorkOK /\ SessionInv(t)
  BY DEF LedgerInv
<1>a. UNCHANGED <<ledger, members, activations, away, keyLock>>
  BY DEF Apply, books, config
<1>b. /\ session[t].pc = "prepared" /\ session'[t].pc = "applied"
      /\ session'[t].request = session[t].request
      /\ session'[t].phase = session[t].phase
      /\ session'[t].replay = session[t].replay
      /\ session'[t].scope = session[t].scope
  BY <1>u, Moved DEF Apply
<1>c. \A m \in Members : /\ rowLock[m] = t => rowLock'[m] = t
                         /\ ~session[t].replay /\ m \in Phase(t).joins
                              => rowLock'[m] = t
  BY DEF Apply
<1>d. /\ Phase(t)' = Phase(t) /\ CommandSet(t)' = CommandSet(t)
      /\ KeysToLock(t)' = KeysToLock(t) /\ MembersToLock(t)' = MembersToLock(t)
      /\ Transfers(t)' = Transfers(t) /\ Recipients(t)' = Recipients(t)
  BY <1>b, PhaseOfState
<1>e. /\ IsPhase(Phase(t)) /\ MembersToLock(t) \subseteq Members
      /\ session[t].phase \in 1..Len(Phases[session[t].request])
      /\ CommandSet(t) \subseteq AllCommands /\ KeysToLock(t) \subseteq Keys
      /\ \A c \in CommandSet(t) : c.member \in MembersToLock(t)
  BY <1>b, <1>u, PhaseFacts
<1>f. Booked' = Booked /\ BookedKeys' = BookedKeys
  BY <1>a DEF Booked, BookedKeys
<1>g. StagedCommands(t)' = StagedCommands(t)
        \cup (IF session[t].replay THEN {} ELSE CommandSet(t))
  BY <1>u, AppliedIsStaged
<1>1. NamesKnown(t)'
  <2> DEFINE r == session[t].request
             f == session[t].phase
  <2>1. f \in Nat /\ NextJoin(t)' = f + 1 /\ NextJoin(t) = f
        /\ Phase(t) = Phases[r][f]
    BY <1>b, <1>u, <1>e DEF NextJoin, Phase, WorkOK, SessionStates
  <2>2. Known(t) \subseteq Known(t)'
    BY <1>a, <1>c DEF Known
  <2>3. Phase(t).joins \subseteq Known(t)'
    <3>1. CASE session[t].replay
      BY <1>a, <1>b, <1>u, <3>1 DEF RepeatedIsKnown, SessionInv, KeyPhase, Known
    <3>2. CASE ~session[t].replay
      BY <1>b, <1>c, <3>2, InsertedIsFree DEF Known
    <3> QED
      BY <3>1, <3>2
  <2>4. ASSUME NEW j \in f..Len(Phases[r])
        PROVE  Joined(r, f, j) \subseteq Phase(t).joins \cup Joined(r, f + 1, j)
    <3>1. \A k \in f..(j - 1) : k = f \/ k \in (f + 1)..(j - 1)
      BY <2>1
    <3> QED
      BY <2>1, <3>1 DEF Joined
  <2>5. ASSUME NEW j \in f..Len(Phases[r])
        PROVE  Named(Phases[r][j]) \subseteq Known(t)' \cup Joined(r, f + 1, j)
    <3>1. Named(Phases[r][j]) \subseteq Known(t) \cup Joined(r, f, j)
      BY <1>b, <1>u, <2>1 DEF NamesKnown, SessionInv
    <3> QED
      BY <2>2, <2>3, <2>4, <3>1
  <2> QED
    BY <1>b, <2>1, <2>5 DEF NamesKnown
<1>2. ScopeKnown(t)' /\ KeysHeld(t)' /\ RepeatedIsKnown(t)'
  BY <1>a, <1>b, <1>d, <1>u
     DEF ScopeKnown, KeysHeld, RepeatedIsKnown, SessionInv, KeyPhase
<1>3. RowsHeld(t)'
  BY <1>b, <1>c, <1>d, <1>e, <1>u DEF RowsHeld, SessionInv, RowPhase
<1>4. StagedIsHeld(t)'
  <2> SUFFICES ASSUME NEW c \in StagedCommands(t)'
               PROVE  /\ c \in AllCommands /\ c.key \in Keys
                      /\ keyLock[c.key] = t /\ c.key \notin BookedKeys
                      /\ rowLock'[c.member] = t
    BY <1>a, <1>f DEF StagedIsHeld
  <2>1. CASE c \in StagedCommands(t)
    <3>1. /\ c \in AllCommands /\ c.key \in Keys /\ keyLock[c.key] = t
          /\ c.key \notin BookedKeys /\ rowLock[c.member] = t
      BY <2>1, <1>u DEF SessionInv, StagedIsHeld
    <3>2. c.member \in Members
      BY <3>1, LedgerAssumption DEF IsCommand
    <3> QED
      BY <3>1, <3>2, <1>c
  <2>2. CASE ~session[t].replay /\ c \in CommandSet(t)
    <3>1. c \in AllCommands /\ c.key \in KeysToLock(t) /\ c.member \in MembersToLock(t)
      BY <2>2, <1>e DEF KeysToLock, KeysOf, CommandSet, Commands
    <3>2. keyLock[c.key] = t /\ rowLock[c.member] = t
      BY <3>1, <1>b, <1>u DEF KeysHeld, RowsHeld, SessionInv, KeyPhase, RowPhase
    <3>3. c.key \notin BookedKeys
      BY <2>2, <1>b, <1>u DEF FreshIsNew, SessionInv, KeyPhase, Stored, Visible, BookedKeys
    <3> QED
      BY <3>1, <3>2, <3>3, <1>c, <1>e
  <2> QED
    BY <2>1, <2>2, <1>g
<1>5. FreshIsNew(t)'
  <2>1. Repeated(t)' = Repeated(t)
    BY <1>a, <1>d DEF Repeated
  <2> QED
    BY <1>b, <2>1, <1>u DEF FreshIsNew, SessionInv, KeyPhase
<1>6. SourcesRead(t)'
  <2>1. Visible(t) \subseteq Visible(t)'
    BY <1>f, <1>g DEF Visible, StagedCommands
  <2>2. \A c \in StagedCommands(t) \cup CommandSet(t) : HasSource(c, Visible(t))
    BY <1>b, <1>u DEF SourcesRead, SessionInv
  <2>3. \A c \in StagedCommands(t)' : HasSource(c, Visible(t)')
    BY <1>g, <2>1, <2>2 DEF HasSource
  <2> QED
    BY <1>b, <2>3 DEF SourcesRead
<1>7. StaysEntitled(t)'
  <2> SUFFICES ASSUME ~session[t].replay, NEW c \in Transfers(t)
               PROVE  /\ Earned(c.member)' >= Threshold
                      /\ ({c.member} \cup Recipients(t)) \cap away = {}
    BY <1>a, <1>b, <1>d DEF StaysEntitled
  <2>1. Earned(c.member)' = Earned(c.member)
    BY <1>f DEF Earned
  <2> QED
    BY <2>1, <1>b, <1>u DEF StaysEntitled, SessionInv, RowPhase
<1>8. SourcesStayIntact(t)'
  BY <1>b DEF SourcesStayIntact
<1> QED
  BY <1>1, <1>2, <1>3, <1>4, <1>5, <1>6, <1>7, <1>8 DEF SessionInv
-----------------------------------------------------------------------------
(* The invariant of the whole.                                              *)

(* The smallest of a set of numbers.                                        *)
LEMMA MinIsSmallest ==
  ASSUME NEW S, S \subseteq Nat, S # {}
  PROVE  Min(S) \in S /\ \A y \in S : Min(S) =< y
<1>1. PICK x \in S : \A y \in S : ~(<<y, x>> \in OpToRel(<, Nat))
  BY NatLessThanWellFounded, WFMin
<1>2. \A y \in S : ~(y < x)
  BY <1>1 DEF OpToRel
<1>3. \A y \in S : x =< y
  <2> TAKE y \in S
  <2>1. x \in Nat /\ y \in Nat /\ ~(y < x)
    BY <1>2
  <2> QED
    BY <2>1
<1> QED
  BY <1>3 DEF Min

(* The row to be locked next is missing, and that of a member who is        *)
(* registered: who inserts one has its row.                                 *)
LEMMA WantedIsKnown ==
  ASSUME LedgerInv, NEW t \in Sessions, session[t].pc = "members", MissingRows(t) # {}
  PROVE  /\ NextRow(t) \in MissingRows(t) /\ NextRow(t) \in members
         /\ \A m \in MissingRows(t) : NextRow(t) =< m
<1>u. WorkOK /\ NamesKnown(t) /\ ScopeKnown(t)
  BY DEF LedgerInv, SessionInv
<1>1. /\ MembersToLock(t) \subseteq Members
      /\ session[t].phase \in 1..Len(Phases[session[t].request])
  BY <1>u, PhaseFacts
<1>2. NextRow(t) \in MissingRows(t) /\ \A m \in MissingRows(t) : NextRow(t) =< m
  <2>1. MissingRows(t) \subseteq Nat
    BY <1>1, LedgerAssumption DEF MissingRows
  <2> QED
    BY <2>1, MinIsSmallest DEF NextRow
<1>3. NextRow(t) \in MembersToLock(t) /\ rowLock[NextRow(t)] # t
  BY <1>2 DEF MissingRows
<1>4. CASE NextRow(t) \in session[t].scope
  BY <1>2, <1>4, <1>u DEF ScopeKnown
<1>5. CASE NextRow(t) \in Named(Phase(t))
  <2> DEFINE f == session[t].phase
  <2>1. f \in Nat /\ f \in f..Len(Phases[session[t].request]) /\ NextJoin(t) = f
    BY <1>1, <1>u DEF NextJoin, WorkOK, SessionStates
  <2>2. Joined(session[t].request, f, f) = {}
    BY <2>1 DEF Joined
  <2>3. Named(Phase(t)) \subseteq Known(t)
    BY <1>u, <2>1, <2>2 DEF NamesKnown, Phase
  <2> QED
    BY <1>2, <1>3, <1>5, <2>3 DEF Known
<1> QED
  BY <1>3, <1>4, <1>5 DEF MembersToLock

(* An uncommitted registration is under the identity gate until it ends.    *)
LEMMA GateStep ==
  ASSUME LedgerInv, NEW t \in Sessions, StepOf(t)
  PROVE  InsertedUnderGate'
<1>u. WorkOK /\ InsertedUnderGate /\ Free \notin Sessions
  BY LedgerAssumption DEF LedgerInv, Free
<1> SUFFICES ASSUME NEW m \in Members, m \notin members', rowLock'[m] # Free
             PROVE  IdentityGate \in Keys /\ keyLock'[IdentityGate] = rowLock'[m]
  BY DEF InsertedUnderGate
<1>1. m \notin members
  BY <1>u, BooksGrow
<1>2. rowLock'[m] \in Sessions
  BY <1>u, LocksShape
<1>3. ASSUME rowLock'[m] = rowLock[m], rowLock[m] # t
      PROVE  IdentityGate \in Keys /\ keyLock'[IdentityGate] = rowLock'[m]
  <2>1. IdentityGate \in Keys /\ keyLock[IdentityGate] = rowLock[m]
    BY <1>1, <1>3, <1>u DEF InsertedUnderGate
  <2> QED
    BY <2>1, <1>2, <1>3, OthersKept
<1>4. ASSUME rowLock'[m] = rowLock[m], rowLock[m] = t, UNCHANGED keyLock
      PROVE  IdentityGate \in Keys /\ keyLock'[IdentityGate] = rowLock'[m]
  BY <1>1, <1>4, <1>u DEF InsertedUnderGate
<1>5. CASE Apply(t)
  <2>1. CASE ~session[t].replay /\ m \in Phase(t).joins
    <3>1. rowLock'[m] = t /\ keyLock' = keyLock /\ session[t].pc = "prepared"
      BY <1>5, <2>1 DEF Apply
    <3> QED
      BY <2>1, <3>1, InsertedIsFree
  <2>2. CASE ~(~session[t].replay /\ m \in Phase(t).joins)
    BY <1>3, <1>4, <1>5, <2>2 DEF Apply, work
  <2> QED
    BY <2>1, <2>2
<1>6. CASE LockMember(t)
  <2>1. NextRow(t) # m
    BY <1>1, <1>6, WantedIsKnown DEF LockMember
  <2>2. rowLock'[m] = rowLock[m] /\ keyLock' = keyLock
    BY <1>6, <1>u, <2>1 DEF LockMember, WorkOK
  <2> QED
    BY <2>2, <1>3, <1>4
<1>7. CASE LockKey(t)
  <2>1. rowLock' = rowLock
    BY <1>7 DEF LockKey
  <2>2. \A k \in Keys : keyLock[k] = t => keyLock'[k] = t
    BY <1>7, <1>u DEF LockKey, WorkOK
  <2>3. rowLock[m] = t => IdentityGate \in Keys /\ keyLock[IdentityGate] = t
    BY <1>1, <1>u, <2>1 DEF InsertedUnderGate
  <2> QED
    BY <1>3, <2>1, <2>2, <2>3
<1>8. CASE EndTransaction(t)
  <2>1. rowLock'[m] = rowLock[m] /\ rowLock[m] # t
    BY <1>8, <1>u DEF EndTransaction
  <2> QED
    BY <2>1, <1>3
<1>9. ASSUME UNCHANGED <<rowLock, keyLock>>
      PROVE  IdentityGate \in Keys /\ keyLock'[IdentityGate] = rowLock'[m]
  BY <1>3, <1>4, <1>9
<1> QED
  BY <1>5, <1>6, <1>7, <1>8, <1>9
     DEF StepOf, Begin, Resolve, ReadStored, Prepare, NextPhase, Commit, Refuse, Abort

(* A reversal is booked after, or together with, its source.                *)
LEMMA SourcesStep ==
  ASSUME LedgerInv, NEW t \in Sessions, StepOf(t)
  PROVE  BookedHaveSources'
<1>u. BookedHaveSources /\ SourcesRead(t) /\ StagedIsHeld(t) /\ WorkOK
  BY DEF LedgerInv, SessionInv
<1>1. CASE Commit(t)
  <2>1. Booked' = Visible(t) /\ Booked' = Booked \cup StagedCommands(t)
    BY <1>1, <1>u, BooksGrow DEF Visible, StagedCommands
  <2>2. \A c \in StagedCommands(t) : c \in AllCommands /\ HasSource(c, Visible(t))
    BY <1>u DEF SourcesRead, StagedIsHeld
  <2>3. \A c \in Booked : c \in AllCommands /\ HasSource(c, Booked')
    BY <1>u, <2>1 DEF BookedHaveSources, HasSource
  <2> QED
    BY <2>1, <2>2, <2>3 DEF BookedHaveSources
<1>2. CASE ~Commit(t)
  <2>1. Booked' = Booked
    BY <1>2, <1>u, BooksGrow
  <2> QED
    BY <1>u, <2>1 DEF BookedHaveSources
<1> QED
  BY <1>1, <1>2

(* A status change elsewhere concerns members whose rows are free.          *)
LEMMA ElsewhereStep ==
  ASSUME LedgerInv, (\E m \in Members : ChangeStatus(m)) \/ UNCHANGED vars,
         NEW s \in Sessions
  PROVE  SessionInv(s)'
<1>u. WorkOK /\ SessionInv(s)
  BY DEF LedgerInv
<1>a. UNCHANGED <<ledger, members, activations, asked, session, staged, keyLock,
                  rowLock>>
  BY Elsewhere
<1>b. /\ Phase(s)' = Phase(s) /\ CommandSet(s)' = CommandSet(s)
      /\ KeysToLock(s)' = KeysToLock(s) /\ MembersToLock(s)' = MembersToLock(s)
      /\ Transfers(s)' = Transfers(s) /\ Recipients(s)' = Recipients(s)
      /\ NextJoin(s)' = NextJoin(s)
  BY <1>a, SamePhase
<1>c. /\ Booked' = Booked /\ StagedCommands(s)' = StagedCommands(s)
      /\ Visible(s)' = Visible(s) /\ BookedKeys' = BookedKeys /\ Known(s)' = Known(s)
  BY <1>a DEF Booked, StagedCommands, Visible, BookedKeys, Known
<1>d. Stored(s)' = Stored(s) /\ Repeated(s)' = Repeated(s)
  BY <1>a, <1>b, <1>c DEF Stored, Repeated
<1>1. NamesKnown(s)' /\ ScopeKnown(s)' /\ KeysHeld(s)' /\ RowsHeld(s)'
  BY <1>a, <1>b, <1>c, <1>u
     DEF SessionInv, NamesKnown, ScopeKnown, KeysHeld, RowsHeld
<1>2. StagedIsHeld(s)' /\ FreshIsNew(s)' /\ RepeatedIsKnown(s)'
  BY <1>a, <1>b, <1>c, <1>d, <1>u
     DEF SessionInv, StagedIsHeld, FreshIsNew, RepeatedIsKnown
<1>3. SourcesRead(s)' /\ SourcesStayIntact(s)'
  BY <1>a, <1>b, <1>c, <1>u
     DEF SessionInv, SourcesRead, SourcesStayIntact, SourcesIntact
<1>4. StaysEntitled(s)'
  <2> SUFFICES ASSUME session[s].pc \in RowPhase, ~session[s].replay,
                      NEW c \in Transfers(s)
               PROVE  /\ Earned(c.member)' >= Threshold
                      /\ ({c.member} \cup Recipients(s)) \cap away' = {}
    BY <1>a, <1>b DEF StaysEntitled
  <2>1. Earned(c.member) >= Threshold
        /\ ({c.member} \cup Recipients(s)) \cap away = {}
    BY <1>u DEF SessionInv, StaysEntitled
  <2>2. Earned(c.member)' = Earned(c.member)
    BY <1>c DEF Earned
  <2>3. \A m \in {c.member} \cup Recipients(s) : rowLock[m] = s
    <3>1. \A d \in CommandSet(s) : rowLock[d.member] = s
      BY <1>u, PhaseFacts DEF SessionInv, RowsHeld, RowPhase
    <3> QED
      BY <3>1 DEF Transfers, Recipients
  <2>4. s # Free
    BY LedgerAssumption DEF Free
  <2>5. \A m \in away' : m \in away \/ rowLock[m] = Free
    BY DEF ChangeStatus, vars
  <2> QED
    BY <2>1, <2>2, <2>3, <2>4, <2>5
<1> QED
  BY <1>1, <1>2, <1>3, <1>4 DEF SessionInv

(* The invariant is inductive.                                              *)
LEMMA LedgerStep == LedgerInv /\ [Next]_vars => LedgerInv'
<1> SUFFICES ASSUME LedgerInv, [Next]_vars PROVE LedgerInv'
  OBVIOUS
<1>u. WorkOK /\ InsertedUnderGate /\ BookedHaveSources
  BY DEF LedgerInv
<1>1. WorkOK'
  BY <1>u, WorkStep
<1>2. ASSUME NEW t \in Sessions, StepOf(t) PROVE LedgerInv'
  <2>1. SessionInv(t)'
    BY <1>u, <1>2, EarlyStep, ReadStep, LockMemberStep, PrepareStep, ApplyStep,
       EndedInv DEF StepOf, Commit, Refuse, Abort
  <2>2. \A s \in Sessions : SessionInv(s)'
    BY <1>2, <2>1, OthersStep
  <2> QED
    BY <1>1, <1>2, <2>2, GateStep, SourcesStep DEF LedgerInv
<1>3. ASSUME (\E m \in Members : ChangeStatus(m)) \/ UNCHANGED vars
      PROVE  LedgerInv'
  <2>1. UNCHANGED <<ledger, members, keyLock, rowLock>>
    BY <1>3, Elsewhere
  <2>2. InsertedUnderGate' /\ BookedHaveSources'
    BY <1>u, <2>1 DEF InsertedUnderGate, BookedHaveSources, Booked
  <2> QED
    BY <1>1, <1>3, <2>2, ElsewhereStep DEF LedgerInv
<1> QED
  BY <1>2, <1>3 DEF Next, StepOf

(* The books open with the history before.                                  *)
LEMMA OpeningIsBooked == Init => Booked = Range(Opening)
<1> SUFFICES ASSUME Init PROVE Booked = Range(Opening)
  OBVIOUS
<1>1. DOMAIN Opening = 1..Len(Opening)
  BY LedgerAssumption DEF IsSeq
<1>2. /\ DOMAIN ledger = 1..Len(Opening)
      /\ \A i \in 1..Len(Opening) : ledger[i].command = Opening[i]
  BY DEF Init
<1>3. Booked \subseteq Range(Opening)
  BY <1>1, <1>2 DEF Booked, Range
<1>4. Range(Opening) \subseteq Booked
  BY <1>1, <1>2 DEF Booked, Range
<1> QED
  BY <1>3, <1>4

(* At first nothing is locked or staged, and history has its sources.       *)
LEMMA LedgerInit == Init => LedgerInv
<1> SUFFICES ASSUME Init PROVE LedgerInv
  OBVIOUS
<1>1. IsSeq(<<>>)
  <2>1. <<>> \in Seq(Members)
    OBVIOUS
  <2> QED
    BY <2>1, SeqOverRange
<1>2. IsSeq(Opening)
  BY LedgerAssumption
<1>3. Len(Opening) \in Nat /\ DOMAIN Opening = 1..Len(Opening)
  BY <1>2 DEF IsSeq
<1>4. IsSeq(ledger)
  <2>1. ledger \in [1..Len(Opening) -> Range(ledger)]
    BY DEF Init, Range
  <2> QED
    BY <1>3, <2>1 DEF IsSeq
<1>5. Booked = Range(Opening)
  BY OpeningIsBooked
<1>6. BookedHaveSources
  BY <1>5, LedgerAssumption DEF BookedHaveSources, HasSource, SourcesNamed, AllCommands
<1>7. WorkOK
  <2>1. Idle \in SessionStates
    BY DEF Idle, SessionStates
  <2>2. \E x \in Mixes : asked = x.asked /\ activations = x.opened
    BY DEF Init
  <2>3. asked \subseteq Requests /\ IsSeq(activations)
    BY <2>2, LedgerAssumption DEF Requests
  <2> QED
    BY <1>1, <1>4, <2>1, <2>3 DEF Init, WorkOK
<1>8. ASSUME NEW s \in Sessions PROVE SessionInv(s)
  <2>1. session[s] = Idle /\ staged[s] = <<>>
    BY DEF Init
  <2>2. StagedCommands(s) = {}
    BY <2>1 DEF StagedCommands, Range
  <2> QED
    BY <2>1, <2>2
       DEF SessionInv, Idle, NamesKnown, ScopeKnown, KeysHeld, RowsHeld, StagedIsHeld,
           FreshIsNew, RepeatedIsKnown, SourcesRead, SourcesStayIntact,
           StaysEntitled, KeyPhase, RowPhase
<1>9. InsertedUnderGate
  BY DEF Init, InsertedUnderGate
<1> QED
  BY <1>6, <1>7, <1>8, <1>9 DEF LedgerInv

(* The invariant, always.                                                   *)
LEMMA LedgerAlways == Spec => []LedgerInv
BY LedgerInit, LedgerStep, PTL DEF Spec

(* Transactions, locks and staged rows are always well formed.              *)
THEOREM WellFormed == Spec => []WorkOK
<1>1. LedgerInv => WorkOK
  BY DEF LedgerInv
<1> QED
  BY <1>1, LedgerAlways, PTL

(* A batch that passed its checks meets no unique constraint of the ledger, *)
(* whatever else is committed before it books its rows: nobody else could   *)
(* book one of its keys, or reverse one of its sources.                     *)
THEOREM Collisions == Spec => []NoCollision
<1>1. LedgerInv => NoCollision
  <2> SUFFICES ASSUME LedgerInv, NEW s \in Sessions, session[s].pc = "prepared",
                      ~session[s].replay, NEW c \in CommandSet(s)
               PROVE  /\ c.key \notin BookedKeys
                      /\ \A d \in Booked : c.reverses = 0 \/ d.reverses # c.reverses
    BY DEF NoCollision
  <2>1. FreshIsNew(s) /\ SourcesStayIntact(s)
    BY DEF LedgerInv, SessionInv
  <2>2. Stored(s) = {}
    BY <2>1 DEF FreshIsNew, KeyPhase
  <2> QED
    BY <2>1, <2>2
       DEF Stored, Visible, BookedKeys, SourcesStayIntact, SourcesIntact
<1> QED
  BY <1>1, LedgerAlways, PTL

(* From its check to its commit a transfer stays entitled: the sender has   *)
(* earned the threshold, and neither side leaves.                           *)
THEOREM Entitlement == Spec => []TransferStaysEntitled
<1>1. LedgerInv => TransferStaysEntitled
  BY DEF LedgerInv, SessionInv, StaysEntitled, TransferStaysEntitled, RowPhase
<1> QED
  BY <1>1, LedgerAlways, PTL

\* One step of StoredIsNeverRefused.
RepeatsAnswered == \A s \in Sessions : Refuse(s) /\ IsStored(s) => ~SenderActive(s)

(* A transaction all of whose request is stored passes every check but that *)
(* of its sender's status, also if it read before its twin committed.       *)
LEMMA StoredStep == LedgerInv => RepeatsAnswered
<1> SUFFICES ASSUME LedgerInv, NEW s \in Sessions, Refuse(s), IsStored(s),
                    SenderActive(s)
             PROVE  FALSE
  BY DEF RepeatsAnswered
<1>u. WorkOK /\ SessionInv(s) /\ BookedHaveSources
  BY DEF LedgerInv
<1>a. session[s].pc # "idle"
  BY DEF Refuse
<1>b. /\ session[s].phase \in 1..Len(Phases[session[s].request])
      /\ session[s].request \in Requests /\ IsPhase(Phase(s))
  BY <1>a, <1>u, PhaseFacts
<1>c. Phase(s) \in PhasesOf(s)
  <2>1. IsSeq(Phases[session[s].request])
    BY <1>b, LedgerAssumption DEF IsRequest
  <2>2. DOMAIN Phases[session[s].request] = 1..Len(Phases[session[s].request])
    BY <2>1 DEF IsSeq
  <2> QED
    BY <1>b, <2>2 DEF PhasesOf, Phase, Range
<1>d. /\ CommandSet(s) \subseteq Booked
      /\ Range(Phase(s).activates) \subseteq Range(activations)
  BY <1>c DEF IsStored, CommandSet, Commands
<1>e. CommandSet(s) \subseteq Visible(s) /\ Booked \subseteq Visible(s)
  BY <1>d DEF Visible
<1>f. Stored(s) = CommandSet(s)
  BY <1>e DEF Stored
<1>g. Commands(s) = <<>> <=> CommandSet(s) = {}
  <2>1. IsSeq(Commands(s))
    BY <1>b DEF IsPhase, Commands
  <2> QED
    BY <2>1 DEF IsSeq, CommandSet, Range
<1>1. Resolvable(s)
  BY <1>d, <1>e, <1>u DEF Resolvable, BookedHaveSources, HasSource
<1>2. Consistent(s)
  BY <1>e, <1>f DEF Consistent
<1>3. ASSUME session[s].pc \in {"members", "prepared"}, ~session[s].replay
      PROVE  CommandSet(s) = {} /\ Phase(s).activates = <<>>
  <2>1. Stored(s) = {} /\ ~Repeated(s)
    BY <1>3, <1>u DEF SessionInv, FreshIsNew, KeyPhase
  <2>2. Range(Phase(s).activates) = {}
    BY <1>d, <2>1 DEF Repeated
  <2>3. IsSeq(Phase(s).activates)
    BY <1>b DEF IsPhase
  <2> DEFINE q == Phase(s).activates
  <2>4. q \in Seq(Range(q)) /\ Range(q) = {}
    BY <2>2, <2>3 DEF IsSeq
  <2>5. Len(q) = 0
    <3>1. DOMAIN q = {}
      BY <2>4 DEF Range
    <3>2. DOMAIN q = 1..Len(q) /\ Len(q) \in Nat
      BY <2>4
    <3> HIDE DEF q
    <3>3. ~(1 \in 1..Len(q))
      BY <3>1, <3>2
    <3> QED
      BY <3>2, <3>3
  <2>6. q = <<>>
    BY <2>4, <2>5
  <2> QED
    BY <2>1, <2>6, <1>f
<1>4. ASSUME session[s].pc = "members" PROVE Allowed(s)
  <2>1. SUFFICES ASSUME ~session[s].replay
                 PROVE  SourcesIntact(s) /\ ActorsActive(s) /\ Entitled(s)
                        /\ Activatable(s)
    BY DEF Allowed
  <2>2. CommandSet(s) = {} /\ Phase(s).activates = <<>>
    BY <1>3, <1>4, <2>1
  <2>3. Range(<<>>) = {}
    BY DEF Range
  <2> QED
    BY <2>2, <2>3
       DEF SourcesIntact, ActorsActive, Entitled, Transfers, Activatable
<1>5. ASSUME session[s].pc = "prepared", ~session[s].replay
      PROVE  Affordable(s) /\ Payable(s)
  <2>1. Commands(s) = <<>> /\ CommandSet(s) = {}
    BY <1>3, <1>5, <1>g
  <2> QED
    BY <2>1 DEF Affordable, Payable
<1> QED
  BY <1>1, <1>2, <1>4, <1>5 DEF Refuse

(* A repeated request whose rows are stored is answered from them, whatever *)
(* has been earned, spent, reversed or activated since.                     *)
THEOREM Repeats == Spec => StoredIsNeverRefused
<1>1. LedgerInv /\ [Next]_vars => [RepeatsAnswered]_vars
  BY StoredStep
<1> QED
  BY <1>1, LedgerAlways, PTL DEF Spec, StoredIsNeverRefused, RepeatsAnswered

-----------------------------------------------------------------------------
(* Running totals over a sequence of commands.                              *)

\* The places of a member among the first n commands.
Places(c, m, n) == {i \in 1..n : c[i].member = m}

\* The commands of a sequence of rows.
CommandsOf(rows) == [i \in 1..Len(rows) |-> rows[i].command]

\* Every row's balance_after is the running total from a balance on.
AddsUp(rows, from) ==
  \A i \in 1..Len(rows) :
    rows[i].after = from[rows[i].command.member]
                      + SumFor(CommandsOf(rows), rows[i].command.member, i)

\* What a transaction staged continues the cached balances, and affords it.
StagedAddsUp(s) ==
  /\ AddsUp(staged[s], balance)
  /\ \A i \in 1..Len(staged[s]) : staged[s][i].after >= 0

HistoryInv ==
  /\ LedgerInv
  /\ HistoryAddsUp
  /\ \A s \in Sessions : StagedAddsUp(s)

\* The recursion by which SumFor is computed.
IsCreditSum(g, c, S) ==
  g = [s \in SUBSET S |->
         IF s = {} THEN 0 ELSE c[Picked(s)].credit + g[s \ {Picked(s)}]]

LEMMA SumUnfolded ==
  ASSUME NEW c, NEW m, NEW n
  PROVE  SumFor(c, m, n) =
           (CHOOSE g : IsCreditSum(g, c, Places(c, m, n)))[Places(c, m, n)]
BY Zenon DEF SumFor, Places, MapThenSumSet, MapThenFoldSet, IsCreditSum, Picked

LEMMA PlacesAreFinite ==
  ASSUME NEW c, NEW m, NEW n \in Nat
  PROVE  IsFiniteSet(Places(c, m, n)) /\ Places(c, m, n) \subseteq 1..n
<1>1. IsFiniteSet(1..n)
  BY FS_Interval
<1>2. Places(c, m, n) \subseteq 1..n
  BY DEF Places
<1> QED
  BY <1>1, <1>2, FS_Subset

(* A running total is the sum of the function of the credits at its places. *)
LEMMA SumForIsTotal ==
  ASSUME NEW c, NEW m, NEW n \in Nat
  PROVE  SumFor(c, m, n) =
           Total([i \in Places(c, m, n) |-> c[i].credit], Places(c, m, n))
<1> DEFINE S == Places(c, m, n)
           f == [i \in S |-> c[i].credit]
           h == CHOOSE g : IsCreditSum(g, c, S)
<1>0. IsFiniteSet(S)
  BY PlacesAreFinite
<1>1. \A g : IsCreditSum(g, c, S) <=> IsSum(g, f, S)
  <2> TAKE g
  <2> HIDE DEF S
  <2>1. \A s \in SUBSET S : s # {} => f[Picked(s)] = c[Picked(s)].credit
    BY DEF Picked
  <2>2. [s \in SUBSET S |->
           IF s = {} THEN 0 ELSE c[Picked(s)].credit + g[s \ {Picked(s)}]]
         = [s \in SUBSET S |->
              IF s = {} THEN 0 ELSE f[Picked(s)] + g[s \ {Picked(s)}]]
    BY <2>1
  <2> QED
    BY <2>2 DEF IsCreditSum, IsSum
<1> HIDE DEF f, S
<1>2. \E g : IsCreditSum(g, c, S)
  BY <1>0, <1>1, SumsExist
<1>3. IsSum(h, f, S)
  BY <1>1, <1>2
<1> HIDE DEF h
<1>4. Total(f, S) = h[S]
  BY <1>0, <1>3, TotalIsSum
<1> QED
  BY <1>4, SumUnfolded DEF h, f, S

(* It is a number, and nothing before the first command.                    *)
LEMMA SumForType ==
  ASSUME NEW c, NEW m, NEW n \in Nat, \A i \in 1..n : c[i].credit \in Int
  PROVE  SumFor(c, m, n) \in Int
<1> DEFINE S == Places(c, m, n)
           f == [i \in S |-> c[i].credit]
<1>1. IsFiniteSet(S) /\ S \subseteq 1..n
  BY PlacesAreFinite
<1> HIDE DEF S
<1>2. \A i \in S : f[i] \in Int
  BY <1>1
<1> HIDE DEF f
<1>3. Total(f, S) \in Int
  BY <1>1, <1>2, TotalType
<1> QED
  BY <1>3, SumForIsTotal DEF f, S

LEMMA SumForNone ==
  ASSUME NEW c, NEW m
  PROVE  SumFor(c, m, 0) = 0
<1>1. Places(c, m, 0) = {}
  BY DEF Places
<1>2. SumFor(c, m, 0) = Total([i \in Places(c, m, 0) |-> c[i].credit], Places(c, m, 0))
  BY SumForIsTotal
<1> QED
  BY <1>1, <1>2, TotalEmpty, Zenon

(* It depends on the commands summed only.                                  *)
LEMMA SumForAgrees ==
  ASSUME NEW c, NEW d, NEW m, NEW n \in Nat,
         \A i \in 1..n : c[i].credit = d[i].credit /\ c[i].member = d[i].member
  PROVE  SumFor(c, m, n) = SumFor(d, m, n)
<1> DEFINE S == Places(c, m, n)
           f == [i \in S |-> c[i].credit]
           g == [i \in S |-> d[i].credit]
<1>1. IsFiniteSet(S) /\ S \subseteq 1..n
  BY PlacesAreFinite
<1>2. Places(d, m, n) = S
  BY DEF Places
<1> HIDE DEF S
<1>3. \A i \in S : f[i] = g[i]
  BY <1>1
<1>4. SumFor(d, m, n) = Total(g, S)
  <2>1. SumFor(d, m, n) =
          Total([i \in Places(d, m, n) |-> d[i].credit], Places(d, m, n))
    BY SumForIsTotal
  <2> QED
    BY <1>2, <2>1, Zenon
<1>5. SumFor(c, m, n) = Total(f, S)
  BY SumForIsTotal DEF S
<1> HIDE DEF f, g
<1> QED
  BY <1>1, <1>3, <1>4, <1>5, TotalAgrees

(* One more command adds its credits if it is the member's.                 *)
LEMMA SumForNext ==
  ASSUME NEW c, NEW m, NEW n \in Nat, \A i \in 1..(n + 1) : c[i].credit \in Int
  PROVE  SumFor(c, m, n + 1) =
           SumFor(c, m, n) + (IF c[n + 1].member = m THEN c[n + 1].credit ELSE 0)
<1> DEFINE S == Places(c, m, n)
           T == Places(c, m, n + 1)
           f == [i \in S |-> c[i].credit]
           g == [i \in T |-> c[i].credit]
<1>1. IsFiniteSet(S) /\ S \subseteq 1..n /\ IsFiniteSet(T) /\ T \subseteq 1..(n + 1)
  BY PlacesAreFinite
<1>2. T = IF c[n + 1].member = m THEN S \cup {n + 1} ELSE S
  <2>1. \A i : i \in 1..(n + 1) <=> i \in 1..n \/ i = n + 1
    OBVIOUS
  <2> QED
    BY <2>1 DEF Places
<1>3. SumFor(c, m, n) = Total(f, S) /\ SumFor(c, m, n + 1) = Total(g, T)
  BY SumForIsTotal
<1>4. SumFor(c, m, n) \in Int
  BY SumForType
<1> HIDE DEF S, T
<1>5. \A i \in S : f[i] = g[i]
  BY <1>2
<1>6. \A i \in T : g[i] \in Int /\ g[i] = c[i].credit
  BY <1>1
<1>7. S \subseteq T /\ n + 1 \notin S
  BY <1>1, <1>2
<1> HIDE DEF f, g
<1>8. Total(f, S) = Total(g, S)
  BY <1>1, <1>5, TotalAgrees
<1>9. CASE c[n + 1].member = m
  <2>1. T = S \cup {n + 1}
    BY <1>2, <1>9
  <2>2. ASSUME NEW i \in S \cup {n + 1} PROVE g[i] \in Int
    <3>1. i \in T
      BY <2>1
    <3> QED
      BY <3>1, <1>6
  <2>3. Total(g, S \cup {n + 1}) = Total(g, S) + g[n + 1]
    <3> DEFINE x == n + 1
    <3>1. x \notin S /\ \A i \in S \cup {x} : g[i] \in Int
      BY <1>7, <2>2
    <3> HIDE DEF x
    <3>2. Total(g, S \cup {x}) = Total(g, S) + g[x]
      BY <1>1, <3>1, TotalAdd
    <3> QED
      BY <3>2 DEF x
  <2>4. g[n + 1] = c[n + 1].credit
    BY <1>6, <2>1
  <2> QED
    BY <1>3, <1>8, <1>9, <2>1, <2>3, <2>4
<1>10. CASE c[n + 1].member # m
  BY <1>2, <1>3, <1>4, <1>8, <1>10
<1> QED
  BY <1>9, <1>10

(* A property of 0 that passes from each number to the next holds of all up *)
(* to a bound.                                                              *)
LEMMA Upwards ==
  ASSUME NEW n \in Nat, NEW Good, 0 \in Good,
         \A k \in 0..n : k \in Good /\ k < n => k + 1 \in Good
  PROVE  0..n \subseteq Good
<1> DEFINE Bad == {k \in 0..n : k \notin Good}
<1>1. SUFFICES ASSUME Bad # {}
               PROVE  FALSE
  OBVIOUS
<1>2. Bad \subseteq Nat
  OBVIOUS
<1>3. PICK k \in Bad : \A j \in Bad : ~(<<j, k>> \in OpToRel(<, Nat))
  BY <1>1, <1>2, NatLessThanWellFounded, WFMin
<1>4. \A j \in Bad : ~(j < k)
  BY <1>2, <1>3 DEF OpToRel
<1>5. k # 0 /\ k \in 1..n
  OBVIOUS
<1>6. k - 1 \in 0..n /\ k - 1 < k /\ k - 1 < n /\ (k - 1) + 1 = k
  BY <1>5
<1>7. k - 1 \in Good
  BY <1>4, <1>6
<1> QED
  BY <1>6, <1>7

(* What follows the last command of a member adds nothing to his total.     *)
LEMMA SumForIdle ==
  ASSUME NEW c, NEW m, NEW n \in Nat, NEW k \in 0..n,
         \A i \in (k + 1)..n : c[i].member # m
  PROVE  SumFor(c, m, n) = SumFor(c, m, k)
<1>1. Places(c, m, n) = Places(c, m, k)
  <2>1. \A i \in 1..n : i \in 1..k \/ i \in (k + 1)..n
    OBVIOUS
  <2>2. \A i \in 1..k : i \in 1..n
    OBVIOUS
  <2> QED
    BY <2>1, <2>2 DEF Places
<1>2. k \in Nat
  OBVIOUS
<1>3. /\ SumFor(c, m, n) = Total([i \in Places(c, m, n) |-> c[i].credit], Places(c, m, n))
      /\ SumFor(c, m, k) = Total([i \in Places(c, m, k) |-> c[i].credit], Places(c, m, k))
  BY <1>2, SumForIsTotal
<1> QED
  BY <1>1, <1>3, Zenon

\* The commands of c are those of a and then those of b.
Joins(c, a, k, b, l) ==
  /\ \A i \in 1..k : /\ c[i].credit = a[i].credit /\ c[i].member = a[i].member
                     /\ a[i].credit \in Int
  /\ \A i \in 1..l : /\ c[k + i].credit = b[i].credit /\ c[k + i].member = b[i].member
                     /\ b[i].credit \in Int

(* The totals of a sequence that continues another one.                     *)
LEMMA SumForJoined ==
  ASSUME NEW c, NEW a, NEW k \in Nat, NEW b, NEW l \in Nat, Joins(c, a, k, b, l), NEW m
  PROVE  /\ \A i \in 0..k : SumFor(c, m, i) = SumFor(a, m, i)
         /\ \A j \in 0..l : SumFor(c, m, k + j) = SumFor(a, m, k) + SumFor(b, m, j)
<1>1. ASSUME NEW i \in 0..k PROVE SumFor(c, m, i) = SumFor(a, m, i)
  <2>1. i \in Nat /\ \A x \in 1..i : x \in 1..k
    OBVIOUS
  <2>2. \A x \in 1..i : c[x].credit = a[x].credit /\ c[x].member = a[x].member
    BY <2>1 DEF Joins
  <2> QED
    BY <2>1, <2>2, SumForAgrees
<1>2. SumFor(a, m, k) \in Int
  BY SumForType DEF Joins
<1> DEFINE Good == {j \in 0..l : SumFor(c, m, k + j) = SumFor(a, m, k) + SumFor(b, m, j)}
<1>3. 0 \in Good
  <2>1. SumFor(b, m, 0) = 0 /\ k + 0 = k /\ 0 \in 0..l /\ k \in 0..k
    BY SumForNone
  <2>2. SumFor(c, m, k) = SumFor(a, m, k)
    BY <1>1, <2>1
  <2> QED
    BY <1>2, <2>1, <2>2
<1>4. ASSUME NEW j \in 0..l, j \in Good, j < l PROVE j + 1 \in Good
  <2>1. j \in Nat /\ j + 1 \in 1..l /\ k + j \in Nat /\ k + (j + 1) = (k + j) + 1
        /\ j + 1 \in 0..l
    BY <1>4
  <2>2. \A i \in 1..(j + 1) : b[i].credit \in Int
    BY <2>1 DEF Joins
  <2>3. SumFor(b, m, j + 1) =
          SumFor(b, m, j) + (IF b[j + 1].member = m THEN b[j + 1].credit ELSE 0)
    BY <2>1, <2>2, SumForNext
  <2>4. \A i \in 1..((k + j) + 1) : c[i].credit \in Int
    <3> SUFFICES ASSUME NEW i \in 1..((k + j) + 1) PROVE c[i].credit \in Int
      OBVIOUS
    <3>1. CASE i \in 1..k
      BY <3>1 DEF Joins
    <3>2. CASE i \notin 1..k
      <4>1. i - k \in 1..l /\ k + (i - k) = i
        BY <3>2, <2>1
      <4>2. c[k + (i - k)].credit \in Int
        BY <4>1 DEF Joins
      <4> QED
        BY <4>1, <4>2
    <3> QED
      BY <3>1, <3>2
  <2>5. SumFor(c, m, (k + j) + 1) =
          SumFor(c, m, k + j)
            + (IF c[(k + j) + 1].member = m THEN c[(k + j) + 1].credit ELSE 0)
    BY <2>1, <2>4, SumForNext
  <2>6. /\ c[k + (j + 1)].credit = b[j + 1].credit
        /\ c[k + (j + 1)].member = b[j + 1].member /\ b[j + 1].credit \in Int
    BY <2>1 DEF Joins
  <2>7. SumFor(b, m, j) \in Int
    BY <2>1, <2>2, SumForType
  <2>8. SumFor(c, m, k + j) = SumFor(a, m, k) + SumFor(b, m, j)
    BY <1>4
  <2>9. SumFor(c, m, k + (j + 1)) = SumFor(a, m, k) + SumFor(b, m, j + 1)
    BY <1>2, <2>1, <2>3, <2>5, <2>6, <2>7, <2>8
  <2> QED
    BY <2>1, <2>9
<1>5. 0..l \subseteq Good
  <2> HIDE DEF Good
  <2> QED
    BY <1>3, <1>4, Upwards
<1> QED
  BY <1>1, <1>5

\* Rows whose commands carry whole credits.
AreRows(rows) ==
  IsSeq(rows) /\ \A i \in 1..Len(rows) : rows[i].command.credit \in Int

(* Rows that continue others from the totals they reached add up with them. *)
LEMMA AddsUpJoined ==
  ASSUME NEW p, NEW q, AreRows(p), AreRows(q), NEW from, AddsUp(p, from),
         NEW reached, AddsUp(q, reached), NEW M,
         \A m \in M : from[m] \in Int /\
           reached[m] = from[m] + SumFor(CommandsOf(p), m, Len(p)),
         \A i \in 1..Len(q) : q[i].command.member \in M
  PROVE  /\ AreRows(p \o q) /\ Len(p \o q) = Len(p) + Len(q)
         /\ AddsUp(p \o q, from)
         /\ \A m \in M : from[m] + SumFor(CommandsOf(p \o q), m, Len(p \o q))
                           = reached[m] + SumFor(CommandsOf(q), m, Len(q))
<1> DEFINE r == p \o q
           c == CommandsOf(r)
           a == CommandsOf(p)
           b == CommandsOf(q)
<1>1. IsSeq(p) /\ IsSeq(q) /\ Len(p) \in Nat /\ Len(q) \in Nat
  BY DEF AreRows, IsSeq
<1>2. /\ IsSeq(r) /\ Len(r) = Len(p) + Len(q)
      /\ \A i \in 1..Len(p) : r[i] = p[i]
      /\ \A i \in 1..Len(q) : r[Len(p) + i] = q[i]
  <2>1. IsSeq(r) /\ Range(r) = Range(p) \cup Range(q)
    BY <1>1, Concatenation
  <2>2. p \in Seq(Range(r)) /\ q \in Seq(Range(r))
    <3>1. /\ p \in [1..Len(p) -> Range(p)] /\ q \in [1..Len(q) -> Range(q)]
      BY <1>1 DEF IsSeq
    <3>2. p \in [1..Len(p) -> Range(r)] /\ q \in [1..Len(q) -> Range(r)]
      BY <2>1, <3>1
    <3> QED
      BY <1>1, <3>2
  <2> QED
    BY <2>1, <2>2
<1> HIDE DEF r
<1>3. \A i \in 1..Len(r) : i \in 1..Len(p) \/ (i - Len(p)) \in 1..Len(q)
  BY <1>1, <1>2
<1>4. /\ \A i \in 1..Len(p) : i \in 1..Len(r)
      /\ \A i \in 1..Len(q) : Len(p) + i \in 1..Len(r)
  BY <1>1, <1>2
<1>5. /\ \A i \in 1..Len(p) : c[i] = a[i] /\ a[i] = p[i].command
      /\ \A i \in 1..Len(q) : c[Len(p) + i] = b[i] /\ b[i] = q[i].command
  BY <1>2, <1>4 DEF CommandsOf
<1> HIDE DEF a, b, c
<1>6. Joins(c, a, Len(p), b, Len(q))
  BY <1>5 DEF Joins, AreRows
<1>7. AreRows(r)
  <2> SUFFICES ASSUME NEW i \in 1..Len(r) PROVE r[i].command.credit \in Int
    BY <1>2 DEF AreRows
  <2>1. CASE i \in 1..Len(p)
    BY <2>1, <1>2 DEF AreRows
  <2>2. CASE (i - Len(p)) \in 1..Len(q)
    <3>1. r[Len(p) + (i - Len(p))] = q[i - Len(p)] /\ Len(p) + (i - Len(p)) = i
      BY <2>2, <1>1, <1>2
    <3> QED
      BY <2>2, <3>1 DEF AreRows
  <2> QED
    BY <2>1, <2>2, <1>3
<1>8. ASSUME NEW m
      PROVE  /\ \A i \in 0..Len(p) : SumFor(c, m, i) = SumFor(a, m, i)
             /\ \A j \in 0..Len(q) : SumFor(c, m, Len(p) + j)
                                       = SumFor(a, m, Len(p)) + SumFor(b, m, j)
  BY <1>1, <1>6, SumForJoined
<1>9. ASSUME NEW m
      PROVE  /\ SumFor(a, m, Len(p)) \in Int
             /\ \A j \in 0..Len(q) : SumFor(b, m, j) \in Int
  <2>1. \A i \in 1..Len(p) : a[i].credit \in Int
    BY <1>6 DEF Joins
  <2>2. \A i \in 1..Len(q) : b[i].credit \in Int
    BY <1>6 DEF Joins
  <2>3. ASSUME NEW j \in 0..Len(q) PROVE SumFor(b, m, j) \in Int
    <3>1. j \in Nat /\ \A i \in 1..j : i \in 1..Len(q)
      BY <1>1
    <3> QED
      BY <2>2, <3>1, SumForType
  <2> QED
    BY <1>1, <2>1, <2>3, SumForType
<1>10. AddsUp(r, from)
  <2> SUFFICES ASSUME NEW i \in 1..Len(r)
               PROVE  r[i].after = from[r[i].command.member]
                                     + SumFor(c, r[i].command.member, i)
    BY DEF AddsUp, c
  <2>1. CASE i \in 1..Len(p)
    <3>1. r[i] = p[i] /\ i \in 0..Len(p)
      BY <2>1, <1>1, <1>2
    <3>2. p[i].after = from[p[i].command.member] + SumFor(a, p[i].command.member, i)
      BY <2>1 DEF AddsUp, a
    <3> QED
      BY <3>1, <3>2, <1>8
  <2>2. CASE (i - Len(p)) \in 1..Len(q)
    <3> DEFINE j == i - Len(p)
               m == q[j].command.member
    <3>1. j \in 1..Len(q) /\ j \in 0..Len(q) /\ Len(p) + j = i /\ r[i] = q[j]
      BY <2>2, <1>1, <1>2
    <3> HIDE DEF j
    <3>2. q[j].after = reached[m] + SumFor(b, m, j)
      BY <3>1 DEF AddsUp, b
    <3>3. m \in M /\ from[m] \in Int
          /\ reached[m] = from[m] + SumFor(a, m, Len(p))
      BY <3>1 DEF a
    <3>4. SumFor(c, m, i) = SumFor(a, m, Len(p)) + SumFor(b, m, j)
      BY <3>1, <1>8
    <3>5. SumFor(a, m, Len(p)) \in Int /\ SumFor(b, m, j) \in Int
      BY <3>1, <1>9
    <3> HIDE DEF m
    <3>6. q[j].after = from[m] + SumFor(c, m, i)
      BY <3>2, <3>3, <3>4, <3>5
    <3> QED
      BY <3>1, <3>6 DEF m
  <2> QED
    BY <2>1, <2>2, <1>3
<1>11. ASSUME NEW m \in M
       PROVE  from[m] + SumFor(c, m, Len(r)) = reached[m] + SumFor(b, m, Len(q))
  <2>1. /\ SumFor(c, m, Len(p) + Len(q)) = SumFor(a, m, Len(p)) + SumFor(b, m, Len(q))
        /\ SumFor(a, m, Len(p)) \in Int /\ SumFor(b, m, Len(q)) \in Int
    BY <1>1, <1>8, <1>9
  <2>2. from[m] \in Int /\ reached[m] = from[m] + SumFor(a, m, Len(p))
    BY DEF a
  <2> QED
    BY <2>1, <2>2, <1>2
<1> QED
  BY <1>2, <1>7, <1>10, <1>11 DEF r, c, b

(* The last of finitely many numbers.                                       *)
LEMMA MaxIsLast ==
  ASSUME NEW n \in Nat, NEW S \in SUBSET (1..n), S # {}
  PROVE  Max(S) \in S /\ \A y \in S : y <= Max(S)
<1> DEFINE D == {n - x : x \in S}
<1>1. D \subseteq Nat /\ D # {}
  <2>1. \A x \in S : n - x \in Nat
    OBVIOUS
  <2>2. PICK x \in S : TRUE
    OBVIOUS
  <2>3. n - x \in D
    OBVIOUS
  <2> QED
    BY <2>1, <2>3
<1>2. PICK d \in D : \A e \in D : ~(<<e, d>> \in OpToRel(<, Nat))
  <2> HIDE DEF D
  <2> QED
    BY <1>1, NatLessThanWellFounded, WFMin
<1>3. \A e \in D : ~(e < d)
  BY <1>1, <1>2 DEF OpToRel
<1>4. PICK x \in S : d = n - x
  OBVIOUS
<1>5. \A y \in S : y <= x
  <2> TAKE y \in S
  <2>1. ~(n - y < n - x) /\ x \in Nat /\ y \in Nat
    BY <1>3, <1>4
  <2> QED
    BY <2>1
<1> HIDE DEF D
<1>6. \E z \in S : \A y \in S : z >= y
  <2>1. \A y \in S : x >= y
    BY <1>5
  <2> QED
    BY <2>1
<1>7. Max(S) \in S /\ \A y \in S : Max(S) >= y
  BY <1>6, Zenon DEF Max
<1>8. \A y \in S : y <= Max(S)
  BY <1>7
<1> QED
  BY <1>7, <1>8

-----------------------------------------------------------------------------
(* The ledger explains every balance.                                       *)

Nothing == [m \in Members |-> 0]

\* The rows are about members.
OfMembers(rows) ==
  AreRows(rows) /\ \A i \in 1..Len(rows) : rows[i].command.member \in Members

(* What is booked, staged or about to be staged are rows about members; the *)
(* members of what is staged are locked.                                    *)
LEMMA RowsAre ==
  ASSUME LedgerInv
  PROVE  /\ OfMembers(ledger)
         /\ \A s \in Sessions :
              /\ OfMembers(staged[s])
              /\ \A i \in 1..Len(staged[s]) : rowLock[staged[s][i].command.member] = s
              /\ session[s].pc # "idle" => OfMembers(Rows(s))
<1>u. WorkOK /\ BookedHaveSources
  BY DEF LedgerInv
<1>a. \A c \in AllCommands : c.credit \in Int /\ c.member \in Members
  BY LedgerAssumption DEF IsCommand
<1>b. \A q : IsSeq(q) => DOMAIN q = 1..Len(q)
  BY DEF IsSeq
<1>1. OfMembers(ledger)
  <2>1. IsSeq(ledger)
    BY <1>u DEF WorkOK
  <2>2. \A i \in 1..Len(ledger) : ledger[i].command \in Booked
    BY <2>1, <1>b DEF Booked, Range
  <2> QED
    BY <2>1, <2>2, <1>a, <1>u DEF BookedHaveSources, OfMembers, AreRows
<1>2. ASSUME NEW s \in Sessions
      PROVE  /\ OfMembers(staged[s])
             /\ \A i \in 1..Len(staged[s]) : rowLock[staged[s][i].command.member] = s
  <2>1. IsSeq(staged[s]) /\ StagedIsHeld(s)
    BY <1>u DEF WorkOK, LedgerInv, SessionInv
  <2>2. \A i \in 1..Len(staged[s]) : staged[s][i].command \in StagedCommands(s)
    BY <2>1, <1>b DEF StagedCommands, Range
  <2> QED
    BY <2>1, <2>2, <1>a DEF StagedIsHeld, OfMembers, AreRows
<1>3. ASSUME NEW s \in Sessions, session[s].pc # "idle" PROVE OfMembers(Rows(s))
  <2>1. /\ IsSeq(Rows(s)) /\ {row.command : row \in Range(Rows(s))} = CommandSet(s)
        /\ CommandSet(s) \subseteq AllCommands
    BY <1>3, <1>u, BatchRows, PhaseFacts
  <2>2. \A i \in 1..Len(Rows(s)) : Rows(s)[i] \in Range(Rows(s))
    BY <2>1, <1>b DEF Range
  <2>3. \A i \in 1..Len(Rows(s)) : Rows(s)[i].command \in AllCommands
    BY <2>1, <2>2
  <2> QED
    BY <2>1, <2>3, <1>a DEF OfMembers, AreRows
<1> QED
  BY <1>1, <1>2, <1>3

(* The sums of rows are numbers.                                            *)
LEMMA RowSums ==
  ASSUME NEW q, OfMembers(q), NEW m
  PROVE  \A i \in 0..Len(q) : SumFor(CommandsOf(q), m, i) \in Int
<1>1. Len(q) \in Nat
  BY DEF OfMembers, AreRows, IsSeq
<1> TAKE i \in 0..Len(q)
<1>2. i \in Nat /\ \A j \in 1..i : j \in 1..Len(q)
  BY <1>1
<1>3. \A j \in 1..i : CommandsOf(q)[j].credit \in Int
  BY <1>2 DEF CommandsOf, OfMembers, AreRows
<1> QED
  BY <1>2, <1>3, SumForType

(* The history adds up when its rows do, from nothing on.                   *)
LEMMA FromNothing ==
  ASSUME NEW q, OfMembers(q)
  PROVE  AddsUp(q, Nothing) <=>
           \A i \in 1..Len(q) :
             q[i].after = SumFor(CommandsOf(q), q[i].command.member, i)
<1>1. Len(q) \in Nat /\ \A i \in 1..Len(q) : i \in 0..Len(q)
  BY DEF OfMembers, AreRows, IsSeq
<1>2. \A i \in 1..Len(q) : Nothing[q[i].command.member] = 0
  BY DEF OfMembers, Nothing
<1>3. \A i \in 1..Len(q) : SumFor(CommandsOf(q), q[i].command.member, i) \in Int
  BY <1>1, RowSums
<1>4. \A i \in 1..Len(q) :
        Nothing[q[i].command.member] + SumFor(CommandsOf(q), q[i].command.member, i)
          = SumFor(CommandsOf(q), q[i].command.member, i)
  BY <1>2, <1>3
<1> QED
  BY <1>4 DEF AddsUp

(* A commit leaves in the cache what the rows it books add up to.           *)
LEMMA CachedIsSum ==
  ASSUME LedgerInv, NEW t \in Sessions, StagedAddsUp(t), NEW m \in Members,
         balance[m] \in Int, balance[m] >= 0
  PROVE  /\ CachedAfter(t, m) =
              balance[m] + SumFor(CommandsOf(staged[t]), m, Len(staged[t]))
         /\ CachedAfter(t, m) >= 0
<1> DEFINE q == staged[t]
           c == CommandsOf(q)
           mine == {i \in 1..Len(q) : q[i].command.member = m}
<1>1. OfMembers(q) /\ Len(q) \in Nat
  BY RowsAre DEF OfMembers, AreRows, IsSeq
<1>2. \A i \in 1..Len(q) : c[i].member = q[i].command.member
  BY DEF CommandsOf
<1>3. CachedAfter(t, m) = IF mine = {} THEN balance[m] ELSE q[Max(mine)].after
  BY DEF CachedAfter
<1>4. CASE mine = {}
  <2>1. 0 \in 0..Len(q) /\ \A i \in (0 + 1)..Len(q) : c[i].member # m
    BY <1>1, <1>2, <1>4
  <2> HIDE DEF c, q
  <2>2. SumFor(c, m, Len(q)) = SumFor(c, m, 0)
    BY <1>1, <2>1, SumForIdle
  <2> QED
    BY <1>3, <1>4, <2>2, SumForNone DEF c, q
<1>5. CASE mine # {}
  <2> DEFINE x == Max(mine)
  <2>1. x \in mine /\ \A y \in mine : y <= x
    BY <1>1, <1>5, MaxIsLast
  <2> HIDE DEF x
  <2>2. x \in 1..Len(q) /\ q[x].command.member = m
    BY <2>1
  <2>3. x \in 0..Len(q) /\ \A i \in (x + 1)..Len(q) : c[i].member # m
    BY <1>1, <1>2, <2>1, <2>2
  <2>4. q[x].after = balance[m] + SumFor(c, m, x) /\ q[x].after >= 0
    BY <2>2 DEF StagedAddsUp, AddsUp
  <2> HIDE DEF c, q, mine
  <2>5. SumFor(c, m, Len(q)) = SumFor(c, m, x)
    BY <1>1, <2>3, SumForIdle
  <2> QED
    BY <1>3, <1>5, <2>4, <2>5 DEF x, c, q
<1> QED
  BY <1>4, <1>5

(* No rows add up from whatever balances.                                   *)
LEMMA NoRows == \A from : AddsUp(<<>>, from)
BY DEF AddsUp

(* Rows keep adding up when the balances of their members stay.             *)
LEMMA StaysAdded ==
  ASSUME NEW q, NEW from, NEW to, AddsUp(q, from),
         \A i \in 1..Len(q) : to[q[i].command.member] = from[q[i].command.member]
  PROVE  AddsUp(q, to)
BY DEF AddsUp

(* HistoryAddsUp in terms of rows.                                          *)
LEMMA HistoryIsSum ==
  ASSUME LedgerInv
  PROVE  HistoryAddsUp <=>
           /\ AddsUp(ledger, Nothing)
           /\ \A m \in Members :
                /\ balance[m] = SumFor(CommandsOf(ledger), m, Len(ledger))
                /\ balance[m] >= 0
<1>1. OfMembers(ledger)
  BY RowsAre
<1> QED
  BY <1>1, FromNothing DEF HistoryAddsUp, CommandsOf

(* Cached balances are numbers.                                             *)
LEMMA BalanceType ==
  ASSUME LedgerInv, HistoryAddsUp
  PROVE  \A m \in Members : balance[m] \in Int /\ balance[m] >= 0
<1>1. OfMembers(ledger) /\ Len(ledger) \in 0..Len(ledger)
  BY RowsAre DEF OfMembers, AreRows, IsSeq
<1> QED
  BY <1>1, HistoryIsSum, RowSums

(* A batch stages rows that continue what its transaction staged before.    *)
LEMMA StagingAddsUp ==
  ASSUME HistoryInv, NEW t \in Sessions, Apply(t)
  PROVE  AddsUp(staged'[t], balance) /\ \A i \in 1..Len(staged'[t]) : staged'[t][i].after >= 0
<1> DEFINE p == staged[t]
           q == Rows(t)
           reached == [m \in Members |-> BalanceIn(t, m)]
<1>u. /\ LedgerInv /\ HistoryAddsUp /\ StagedAddsUp(t) /\ WorkOK
  BY DEF HistoryInv, LedgerInv
<1>1. CASE session[t].replay
  <2>1. staged'[t] = staged[t]
    BY <1>1 DEF Apply, work
  <2> QED
    BY <2>1, <1>u DEF StagedAddsUp
<1>2. CASE ~session[t].replay
  <2>1. /\ session[t].pc # "idle" /\ Affordable(t) /\ staged'[t] = p \o q
    BY <1>2, <1>u DEF Apply, WorkOK
  <2>2. OfMembers(p) /\ OfMembers(q)
    BY <1>u, <2>1, RowsAre
  <2>3. /\ IsSeq(Commands(t)) /\ Len(Commands(t)) \in Nat
        /\ Len(q) = Len(Commands(t))
        /\ \A i \in 1..Len(Commands(t)) : /\ q[i].command = Commands(t)[i]
                                          /\ q[i].after = TotalAfter(t, i)
    <3>1. IsSeq(Commands(t))
      BY <1>u, <2>1, PhaseFacts DEF IsPhase, Commands
    <3>2. Len(Commands(t)) \in Nat
      BY <3>1 DEF IsSeq
    <3>3. DOMAIN q = 1..Len(Commands(t))
      BY DEF Rows
    <3>4. IsSeq(q)
      BY <2>2 DEF OfMembers, AreRows
    <3>5. Len(q) = Len(Commands(t))
      BY <3>2, <3>3, <3>4 DEF IsSeq
    <3> QED
      BY <3>1, <3>2, <3>5 DEF Rows
  <2>4. /\ \A m \in Members : balance[m] \in Int
        /\ \A m \in Members : BalanceIn(t, m) = balance[m] + SumFor(CommandsOf(p), m, Len(p))
    <3>1. Len(CommandsOf(p)) = Len(p)
      <4>1. Len(p) \in Nat
        BY <2>2 DEF OfMembers, AreRows, IsSeq
      <4> QED
        BY <4>1 DEF CommandsOf
    <3> QED
      BY <1>u, <3>1, BalanceType DEF BalanceIn, CommandsOf
  <2>5. AddsUp(q, reached)
    <3> SUFFICES ASSUME NEW i \in 1..Len(q)
                 PROVE  q[i].after = reached[q[i].command.member]
                                       + SumFor(CommandsOf(q), q[i].command.member, i)
      BY DEF AddsUp
    <3> DEFINE m == q[i].command.member
    <3>1. m \in Members /\ i \in Nat /\ i \in 1..Len(Commands(t)) /\ m = Commands(t)[i].member
      BY <2>2, <2>3 DEF OfMembers
    <3>2. \A j \in 1..i : CommandsOf(q)[j] = Commands(t)[j]
      <4>1. \A j \in 1..i : j \in 1..Len(q) /\ q[j].command = Commands(t)[j]
        BY <2>3
      <4> HIDE DEF q
      <4> QED
        BY <4>1 DEF CommandsOf
    <3>3. SumFor(CommandsOf(q), m, i) = SumFor(Commands(t), m, i)
      BY <3>1, <3>2, SumForAgrees
    <3>4. q[i].after = BalanceIn(t, m) + SumFor(Commands(t), m, i)
      BY <2>3, <3>1 DEF TotalAfter
    <3>5. reached[m] = BalanceIn(t, m)
      BY <3>1
    <3> HIDE DEF q, reached
    <3> QED
      BY <3>3, <3>4, <3>5 DEF m
  <2>6. AddsUp(p, balance)
    BY <1>u DEF StagedAddsUp
  <2>7. \A m \in Members : balance[m] \in Int /\
          reached[m] = balance[m] + SumFor(CommandsOf(p), m, Len(p))
    BY <2>4
  <2>8. \A i \in 1..Len(p) : p[i].after >= 0
    BY <1>u DEF StagedAddsUp
  <2>9. \A i \in 1..Len(q) : q[i].after >= 0
    BY <2>1, <2>3 DEF Affordable
  <2> HIDE DEF p, q, reached
  <2>10. AddsUp(p \o q, balance)
    BY <2>2, <2>5, <2>6, <2>7, AddsUpJoined DEF OfMembers
  <2>11. \A i \in 1..Len(p \o q) : (p \o q)[i].after >= 0
    <3>1. /\ IsSeq(p) /\ IsSeq(q)
      BY <2>2 DEF OfMembers, AreRows
    <3>2. Range(p \o q) = Range(p) \cup Range(q) /\ IsSeq(p \o q)
      BY <3>1, Concatenation
    <3>3. \A r \in Range(p) \cup Range(q) : r.after >= 0
      <4>1. DOMAIN p = 1..Len(p) /\ DOMAIN q = 1..Len(q)
        BY <3>1 DEF IsSeq
      <4> QED
        BY <2>8, <2>9, <4>1 DEF Range
    <3>4. \A i \in 1..Len(p \o q) : (p \o q)[i] \in Range(p \o q)
      BY <3>2 DEF IsSeq, Range
    <3> QED
      BY <3>2, <3>3, <3>4
  <2> QED
    BY <2>1, <2>10, <2>11
<1> QED
  BY <1>1, <1>2

(* A commit books rows that continue the history.                           *)
LEMMA CommitAddsUp ==
  ASSUME HistoryInv, NEW t \in Sessions, Commit(t), LedgerInv'
  PROVE  HistoryAddsUp' /\ \A s \in Sessions : StagedAddsUp(s)'
<1> DEFINE p == ledger
           q == staged[t]
<1>u. /\ LedgerInv /\ HistoryAddsUp /\ StagedAddsUp(t) /\ WorkOK
  BY DEF HistoryInv, LedgerInv
<1>a. /\ ledger' = p \o q
      /\ \A m \in Members : balance'[m] = CachedAfter(t, m)
      /\ \A s \in Sessions : staged'[s] = IF s = t THEN <<>> ELSE staged[s]
  BY <1>u DEF Commit, EndTransaction, WorkOK
<1>b. /\ OfMembers(p) /\ OfMembers(q) /\ OfMembers(ledger')
  <2>1. OfMembers(p) /\ OfMembers(q)
    BY <1>u, RowsAre
  <2> HIDE DEF p, q
  <2>2. IsSeq(p) /\ IsSeq(q)
    BY <2>1 DEF OfMembers, AreRows
  <2>3. Range(p \o q) = Range(p) \cup Range(q) /\ IsSeq(p \o q)
    BY <2>2, Concatenation
  <2>4. \A r \in Range(p) \cup Range(q) : r.command.credit \in Int /\ r.command.member \in Members
    <3>1. DOMAIN p = 1..Len(p) /\ DOMAIN q = 1..Len(q)
      BY <2>2 DEF IsSeq
    <3> QED
      BY <2>1, <3>1 DEF Range, OfMembers, AreRows
  <2>5. \A i \in 1..Len(p \o q) : (p \o q)[i] \in Range(p \o q)
    <3>1. DOMAIN (p \o q) = 1..Len(p \o q)
      BY <2>3 DEF IsSeq
    <3> QED
      BY <3>1 DEF Range
  <2>6. OfMembers(p \o q)
    BY <2>3, <2>4, <2>5 DEF OfMembers, AreRows
  <2> QED
    BY <1>a, <2>1, <2>6
<1>c. \A m \in Members :
        /\ balance[m] \in Int /\ balance[m] >= 0
        /\ balance[m] = SumFor(CommandsOf(p), m, Len(p))
        /\ SumFor(CommandsOf(q), m, Len(q)) \in Int
  <2>1. Len(q) \in 0..Len(q)
    BY <1>b DEF OfMembers, AreRows, IsSeq
  <2> QED
    BY <1>b, <1>u, <2>1, BalanceType, HistoryIsSum, RowSums
<1>d. \A m \in Members : /\ balance'[m] = balance[m] + SumFor(CommandsOf(q), m, Len(q))
                         /\ balance'[m] >= 0
  BY <1>a, <1>c, <1>u, CachedIsSum
<1>1. /\ AddsUp(p \o q, Nothing)
      /\ \A m \in Members : Nothing[m] + SumFor(CommandsOf(p \o q), m, Len(p \o q))
                              = balance[m] + SumFor(CommandsOf(q), m, Len(q))
  <2>1. AddsUp(p, Nothing) /\ AddsUp(q, balance)
    BY <1>u, HistoryIsSum DEF StagedAddsUp
  <2>2. \A m \in Members : /\ Nothing[m] \in Int
                           /\ balance[m] = Nothing[m] + SumFor(CommandsOf(p), m, Len(p))
    <3>1. \A m \in Members : Nothing[m] = 0
      BY DEF Nothing
    <3> QED
      BY <1>c, <3>1
  <2>3. AreRows(p) /\ AreRows(q) /\ \A i \in 1..Len(q) : q[i].command.member \in Members
    BY <1>b DEF OfMembers
  <2> HIDE DEF p, q
  <2> QED
    BY <2>1, <2>2, <2>3, AddsUpJoined
<1>2. \A m \in Members : balance'[m] = SumFor(CommandsOf(ledger'), m, Len(ledger'))
  <2> TAKE m \in Members
  <2>1. Nothing[m] = 0 /\ Len(ledger') \in 0..Len(ledger')
    BY <1>b DEF Nothing, OfMembers, AreRows, IsSeq
  <2>2. SumFor(CommandsOf(ledger'), m, Len(ledger')) \in Int
    BY <1>b, <2>1, RowSums
  <2> HIDE DEF p, q
  <2>3. Nothing[m] + SumFor(CommandsOf(ledger'), m, Len(ledger')) = balance'[m]
    BY <1>1, <1>a, <1>d
  <2> QED
    BY <2>1, <2>2, <2>3
<1>3. \A i \in 1..Len(ledger') :
        ledger'[i].after = SumFor(CommandsOf(ledger'), ledger'[i].command.member, i)
  BY <1>1, <1>a, <1>b, FromNothing
<1>4. HistoryAddsUp'
  BY <1>2, <1>3, <1>d DEF HistoryAddsUp, CommandsOf
<1>5. ASSUME NEW s \in Sessions PROVE StagedAddsUp(s)'
  <2>1. CASE s = t
    <3>1. staged'[s] = <<>>
      BY <1>a, <2>1
    <3> QED
      BY <3>1, NoRows DEF StagedAddsUp
  <2>2. CASE s # t
    <3>1. staged'[s] = staged[s]
      BY <1>a, <2>2
    <3>2. /\ OfMembers(staged[s]) /\ StagedAddsUp(s)
          /\ \A i \in 1..Len(staged[s]) : rowLock[staged[s][i].command.member] = s
          /\ \A i \in 1..Len(q) : rowLock[q[i].command.member] = t
      BY <1>u, RowsAre DEF HistoryInv
    <3>3. \A i \in 1..Len(staged[s]) :
            balance'[staged[s][i].command.member] = balance[staged[s][i].command.member]
      <4> SUFFICES ASSUME NEW i \in 1..Len(staged[s])
                   PROVE  balance'[staged[s][i].command.member]
                            = balance[staged[s][i].command.member]
        OBVIOUS
      <4> DEFINE m == staged[s][i].command.member
      <4>1. m \in Members /\ rowLock[m] = s
        BY <3>2 DEF OfMembers
      <4> HIDE DEF m
      <4>2. {j \in 1..Len(q) : q[j].command.member = m} = {}
        BY <2>2, <3>2, <4>1
      <4>3. CachedAfter(t, m) = balance[m]
        BY <4>2 DEF CachedAfter
      <4> QED
        BY <1>a, <4>1, <4>3 DEF m
    <3>4. AddsUp(staged[s], balance')
      BY <3>2, <3>3, StaysAdded DEF StagedAddsUp
    <3> QED
      BY <3>1, <3>2, <3>4 DEF StagedAddsUp
  <2> QED
    BY <2>1, <2>2
<1> QED
  BY <1>4, <1>5

(* The history is inductive.                                                *)
LEMMA HistoryStep == HistoryInv /\ [Next]_vars => HistoryInv'
<1> SUFFICES ASSUME HistoryInv, [Next]_vars PROVE HistoryInv'
  OBVIOUS
<1>u. LedgerInv /\ HistoryAddsUp /\ \A s \in Sessions : StagedAddsUp(s)
  BY DEF HistoryInv
<1>1. LedgerInv'
  BY <1>u, LedgerStep
<1>2. ASSUME NEW t \in Sessions, Commit(t) PROVE HistoryInv'
  BY <1>1, <1>2, CommitAddsUp DEF HistoryInv
<1>3. ASSUME UNCHANGED <<ledger, balance>>,
             \A s \in Sessions : /\ AddsUp(staged'[s], balance)
                                 /\ \A i \in 1..Len(staged'[s]) : staged'[s][i].after >= 0
      PROVE  HistoryInv'
  <2>1. HistoryAddsUp'
    BY <1>3, <1>u DEF HistoryAddsUp
  <2>2. \A s \in Sessions : StagedAddsUp(s)'
    BY <1>3 DEF StagedAddsUp
  <2> QED
    BY <1>1, <2>1, <2>2 DEF HistoryInv
<1>4. ASSUME NEW t \in Sessions, StepOf(t), ~Commit(t) PROVE HistoryInv'
  <2>1. UNCHANGED <<ledger, balance>>
    BY <1>4 DEF StepOf, Begin, Resolve, LockKey, ReadStored, LockMember, Prepare,
                Apply, NextPhase, Refuse, Abort, books
  <2>2. ASSUME NEW s \in Sessions
        PROVE  /\ AddsUp(staged'[s], balance)
               /\ \A i \in 1..Len(staged'[s]) : staged'[s][i].after >= 0
    <3>1. CASE staged'[s] = staged[s]
      BY <3>1, <1>u DEF StagedAddsUp
    <3>2. CASE staged'[s] = <<>>
      BY <3>2, NoRows
    <3>3. CASE s = t /\ Apply(t)
      BY <3>3, StagingAddsUp
    <3>4. staged'[s] = staged[s] \/ staged'[s] = <<>> \/ (s = t /\ Apply(t))
      <4>1. CASE s # t
        BY <4>1, <1>4, <1>u, OthersKept
      <4>2. CASE s = t
        BY <4>2, <1>4, <1>u
           DEF StepOf, Begin, Resolve, LockKey, ReadStored, LockMember, Prepare,
               NextPhase, Refuse, Abort, EndTransaction, work, LedgerInv, WorkOK
      <4> QED
        BY <4>1, <4>2
    <3> QED
      BY <3>1, <3>2, <3>3, <3>4
  <2> QED
    BY <1>3, <2>1, <2>2
<1>5. ASSUME (\E m \in Members : ChangeStatus(m)) \/ UNCHANGED vars
      PROVE  HistoryInv'
  <2>1. UNCHANGED <<ledger, balance, staged>>
    BY <1>5 DEF ChangeStatus, vars, books, work
  <2>2. \A s \in Sessions : /\ AddsUp(staged'[s], balance)
                            /\ \A i \in 1..Len(staged'[s]) : staged'[s][i].after >= 0
    BY <2>1, <1>u DEF StagedAddsUp
  <2> QED
    BY <1>3, <2>1, <2>2
<1> QED
  BY <1>2, <1>4, <1>5 DEF Next, StepOf

LEMMA HistoryInit == Init => HistoryInv
<1> SUFFICES ASSUME Init PROVE HistoryInv
  OBVIOUS
<1>1. LedgerInv
  BY LedgerInit
<1>2. IsSeq(Opening) /\ Len(Opening) \in Nat
  BY LedgerAssumption DEF IsSeq
<1>3. /\ Len(ledger) = Len(Opening)
      /\ \A i \in 1..Len(Opening) :
           /\ ledger[i].command = Opening[i]
           /\ ledger[i].after = SumFor(Opening, Opening[i].member, i)
  <2>1. DOMAIN ledger = 1..Len(Opening)
    BY DEF Init
  <2>2. Len(ledger) = Len(Opening)
    BY <1>1, <1>2, <2>1 DEF LedgerInv, WorkOK, IsSeq
  <2> QED
    BY <2>2 DEF Init
<1>4. ASSUME NEW m, NEW n \in 0..Len(Opening)
      PROVE  SumFor(CommandsOf(ledger), m, n) = SumFor(Opening, m, n)
  <2>1. n \in Nat /\ \A i \in 1..n : i \in 1..Len(Opening)
    BY <1>2
  <2>2. \A i \in 1..n : CommandsOf(ledger)[i] = Opening[i]
    BY <1>3, <2>1 DEF CommandsOf
  <2> QED
    BY <2>1, <2>2, SumForAgrees
<1>5. \A m \in Members : /\ balance[m] = SumFor(CommandsOf(ledger), m, Len(ledger))
                         /\ balance[m] >= 0
  <2> TAKE m \in Members
  <2>1. balance[m] = SumFor(Opening, m, Len(Opening)) /\ Len(Opening) \in 0..Len(Opening)
    BY <1>2 DEF Init
  <2> QED
    BY <2>1, <1>3, <1>4, OpeningAssumption
<1>6. \A i \in 1..Len(ledger) :
        ledger[i].after = SumFor(CommandsOf(ledger), ledger[i].command.member, i)
  <2> TAKE i \in 1..Len(ledger)
  <2>1. i \in 0..Len(Opening) /\ i \in 1..Len(Opening)
    BY <1>2, <1>3
  <2> QED
    BY <2>1, <1>3, <1>4
<1>7. HistoryAddsUp
  BY <1>5, <1>6 DEF HistoryAddsUp, CommandsOf
<1>8. \A s \in Sessions : StagedAddsUp(s)
  BY NoRows DEF Init, StagedAddsUp
<1> QED
  BY <1>1, <1>7, <1>8 DEF HistoryInv

(* Whatever transactions do at the same time, every cached balance is the   *)
(* sum of its member's rows, every row's balance_after the sum up to it in  *)
(* the order of the commits, and no balance is negative: the row locks keep *)
(* a balance from changing between the reading of a batch and its commit.   *)
THEOREM History == Spec => []HistoryAddsUp
<1>1. HistoryInv => HistoryAddsUp
  BY DEF HistoryInv
<1> QED
  BY HistoryInit, HistoryStep, <1>1, PTL DEF Spec

-----------------------------------------------------------------------------
(* The order of locks.                                                      *)

Request(s) == session[s].request
At(s) == session[s].phase

\* Who activates or locks all members has read who they are.
ScopeRead(s) ==
  session[s].pc \in KeyPhase =>
    /\ Phase(s).everyone => Members \ Newcomers \subseteq session[s].scope
    /\ ~Phase(s).everyone => session[s].scope = {}

\* The keys and rows a transaction holds are those of the phases behind it and
\* of the present one, smallest first; those behind it, it holds for certain.
HoldsKeys(s) ==
  /\ session[s].pc = "idle" => \A k \in Keys : keyLock[k] # s
  /\ session[s].pc # "idle" =>
       /\ \A k \in KeysBefore(Request(s), At(s)) : keyLock[k] = s
       /\ \A k \in Keys : keyLock[k] = s =>
            \/ k \in KeysBefore(Request(s), At(s))
            \/ /\ session[s].pc # "resolve" /\ k \in KeysToLock(s)
               /\ session[s].pc = "keys" => \A w \in MissingKeys(s) : k < w

HoldsRows(s) ==
  /\ session[s].pc = "idle" => \A m \in Members : rowLock[m] # s
  /\ session[s].pc # "idle" =>
       /\ \A m \in CertainBefore(Request(s), At(s)) : rowLock[m] = s
       /\ \A m \in members : rowLock[m] = s =>
            \/ m \in PossibleBefore(Request(s), At(s))
            \/ /\ session[s].pc \in KeyPhase /\ m \in Possible(Phase(s))
               /\ session[s].pc = "members" => \A w \in MissingRows(s) : m < w

OrderInv ==
  /\ LedgerInv
  /\ Members \ Newcomers \subseteq members
  /\ \A s \in Sessions : ScopeRead(s) /\ HoldsKeys(s) /\ HoldsRows(s)

-----------------------------------------------------------------------------
(* What a phase after the next holds for certain, and may hold.             *)
LEMMA BeforeNext ==
  ASSUME NEW r, NEW j \in Nat \ {0}
  PROVE  /\ KeysBefore(r, j + 1) = KeysBefore(r, j) \cup KeysOf(Phases[r][j])
         /\ CertainBefore(r, j + 1) = CertainBefore(r, j) \cup Certain(Phases[r][j])
         /\ PossibleBefore(r, j + 1) = PossibleBefore(r, j) \cup Possible(Phases[r][j])
<1>1. 1..((j + 1) - 1) = 1..(j - 1) \cup {j}
  OBVIOUS
<1> QED
  BY <1>1 DEF KeysBefore, CertainBefore, PossibleBefore

LEMMA BeforeFirst ==
  ASSUME NEW r
  PROVE  KeysBefore(r, 1) = {} /\ CertainBefore(r, 1) = {} /\ PossibleBefore(r, 1) = {}
<1>1. 1..(1 - 1) = {}
  OBVIOUS
<1> QED
  BY <1>1 DEF KeysBefore, CertainBefore, PossibleBefore

(* The locks of a request are keys and members.                             *)
LEMMA LocksOfRequest ==
  ASSUME NEW r \in Requests, NEW j \in 1..Len(Phases[r])
  PROVE  /\ KeysOf(Phases[r][j]) \subseteq Keys
         /\ Named(Phases[r][j]) \subseteq Members
         /\ Certain(Phases[r][j]) \subseteq Members /\ Possible(Phases[r][j]) \subseteq Members
         /\ KeysBefore(r, j) \subseteq Keys /\ CertainBefore(r, j) \subseteq Members
         /\ j \in Nat \ {0} /\ Len(Phases[r]) \in Nat
<1>1. IsSeq(Phases[r])
  BY LedgerAssumption DEF IsRequest
<1>2. DOMAIN Phases[r] = 1..Len(Phases[r]) /\ Len(Phases[r]) \in Nat
  BY <1>1 DEF IsSeq
<1>3. ASSUME NEW i \in 1..Len(Phases[r])
      PROVE  /\ KeysOf(Phases[r][i]) \subseteq Keys
             /\ Named(Phases[r][i]) \subseteq Members
  <2>1. Phases[r][i] \in AllPhases
    BY <1>2 DEF AllPhases, Range
  <2>2. \A c \in Range(Phases[r][i].commands) : IsCommand(c)
    BY <2>1, LedgerAssumption DEF AllCommands
  <2>3. Phases[r][i].also \subseteq Members
    BY <2>1, LedgerAssumption DEF IsPhase
  <2> QED
    BY <2>1, <2>2, <2>3 DEF Keys, Named, IsCommand
<1>4. \A i \in 1..Len(Phases[r]) : /\ Certain(Phases[r][i]) \subseteq Members
                                   /\ Possible(Phases[r][i]) \subseteq Members
  BY <1>3 DEF Certain, Possible
<1>5. \A i \in 1..(j - 1) : i \in 1..Len(Phases[r])
  BY <1>2
<1>6. KeysBefore(r, j) \subseteq Keys /\ CertainBefore(r, j) \subseteq Members
  BY <1>3, <1>4, <1>5 DEF KeysBefore, CertainBefore
<1> QED
  BY <1>2, <1>3, <1>4, <1>6

LEMMA KeysAreNumbers == Keys \subseteq Nat
<1>1. ASSUME NEW p \in AllPhases PROVE KeysOf(p) \subseteq Nat
  <2>1. IsPhase(p) /\ \A c \in Range(p.commands) : IsCommand(c)
    BY LedgerAssumption DEF AllCommands
  <2> QED
    BY <2>1 DEF IsPhase, IsCommand, KeysOf, ConfigGate, IdentityGate
<1> QED
  BY <1>1 DEF Keys

(* A step of one transaction gives no lock to another.                      *)
LEMMA OthersGainNothing ==
  ASSUME LedgerInv, NEW t \in Sessions, StepOf(t), NEW s \in Sessions, s # t
  PROVE  /\ \A k \in Keys : keyLock'[k] = s <=> keyLock[k] = s
         /\ \A m \in Members : rowLock'[m] = s <=> rowLock[m] = s
<1>u. /\ keyLock \in [Keys -> Sessions \cup {Free}]
      /\ rowLock \in [Members -> Sessions \cup {Free}]
      /\ Free \notin Sessions
  BY LedgerAssumption DEF LedgerInv, WorkOK, Free
<1>1. /\ \A k \in Keys : keyLock'[k] \in {keyLock[k], t, Free}
      /\ \A m \in Members : rowLock'[m] \in {rowLock[m], t, Free}
  <2>1. ASSUME EndTransaction(t)
        PROVE  /\ \A k \in Keys : keyLock'[k] \in {keyLock[k], t, Free}
               /\ \A m \in Members : rowLock'[m] \in {rowLock[m], t, Free}
    BY <2>1 DEF EndTransaction
  <2>2. CASE LockKey(t)
    BY <2>2, <1>u DEF LockKey
  <2>3. CASE LockMember(t)
    BY <2>3, <1>u DEF LockMember
  <2>4. CASE Apply(t)
    BY <2>4, <1>u DEF Apply, work
  <2>5. CASE UNCHANGED <<keyLock, rowLock>>
    BY <2>5
  <2> QED
    BY <2>1, <2>2, <2>3, <2>4, <2>5
       DEF StepOf, Begin, Resolve, ReadStored, Prepare, NextPhase, Commit, Refuse, Abort
<1> QED
  BY <1>1, <1>u, OthersKept

(* What another transaction holds, and waits for, stays in order.           *)
LEMMA OthersOrder ==
  ASSUME OrderInv, NEW t \in Sessions, StepOf(t), NEW s \in Sessions, s # t
  PROVE  ScopeRead(s)' /\ HoldsKeys(s)' /\ HoldsRows(s)'
<1>u. LedgerInv /\ WorkOK /\ ScopeRead(s) /\ HoldsKeys(s) /\ HoldsRows(s)
  BY DEF OrderInv, LedgerInv
<1>a. session'[s] = session[s]
  BY <1>u, OthersKept
<1>b. /\ Phase(s)' = Phase(s) /\ Request(s)' = Request(s) /\ At(s)' = At(s)
      /\ KeysToLock(s)' = KeysToLock(s) /\ MembersToLock(s)' = MembersToLock(s)
  BY <1>a, SamePhase DEF Request, At
<1>c. /\ \A k \in Keys : keyLock'[k] = s <=> keyLock[k] = s
      /\ \A m \in Members : rowLock'[m] = s <=> rowLock[m] = s
  BY <1>u, OthersGainNothing
<1>d. \A m \in members' : rowLock[m] = s => m \in members
  BY <1>u, BooksGrow
<1>e. session[s].pc # "idle" =>
        /\ MissingKeys(s)' = MissingKeys(s) /\ MissingRows(s)' = MissingRows(s)
        /\ KeysBefore(Request(s), At(s)) \subseteq Keys
        /\ CertainBefore(Request(s), At(s)) \subseteq Members
  <2> HAVE session[s].pc # "idle"
  <2>1. /\ KeysToLock(s) \subseteq Keys /\ MembersToLock(s) \subseteq Members
        /\ Request(s) \in Requests /\ At(s) \in 1..Len(Phases[Request(s)])
    BY <1>u, PhaseFacts DEF Request, At
  <2> QED
    BY <2>1, <1>b, <1>c, LocksOfRequest DEF MissingKeys, MissingRows
<1>1. ScopeRead(s)'
  BY <1>a, <1>b, <1>u DEF ScopeRead
<1>2. HoldsKeys(s)'
  BY <1>a, <1>b, <1>c, <1>e, <1>u DEF HoldsKeys
<1>3. HoldsRows(s)'
  <2>1. members' \subseteq Members
    BY <1>u, BooksGrow
  <2> QED
    BY <2>1, <1>a, <1>b, <1>c, <1>d, <1>e, <1>u DEF HoldsRows
<1> QED
  BY <1>1, <1>2, <1>3

(* A request begins with its first phase.                                   *)
LEMMA Begun ==
  ASSUME WorkOK, NEW t \in Sessions, NEW r, Begin(t, r)
  PROVE  /\ session[t].pc = "idle" /\ UNCHANGED <<books, keyLock, rowLock, work>>
         /\ session'[t].pc = "resolve" /\ session'[t].request = r /\ session'[t].phase = 1
         /\ session'[t].scope = {}
BY DEF WorkOK, Begin, Idle

(* A transaction that begins, or is done, holds nothing; one that goes on   *)
(* with its next phase has all the locks of this one.                       *)
LEMMA TurnsOrder ==
  ASSUME OrderInv, NEW t \in Sessions,
         (\E r \in asked : Begin(t, r)) \/ NextPhase(t) \/ Commit(t) \/ Refuse(t) \/ Abort(t)
  PROVE  ScopeRead(t)' /\ HoldsKeys(t)' /\ HoldsRows(t)'
<1>u. /\ LedgerInv /\ WorkOK /\ SessionInv(t) /\ ScopeRead(t) /\ HoldsKeys(t) /\ HoldsRows(t)
      /\ session \in [Sessions -> SessionStates] /\ Free # t /\ members \subseteq Members
  BY LedgerAssumption DEF OrderInv, LedgerInv, WorkOK, Free
<1>1. ASSUME EndTransaction(t) PROVE ScopeRead(t)' /\ HoldsKeys(t)' /\ HoldsRows(t)'
  <2>1. session'[t].pc = "idle"
    BY <1>1, <1>u DEF EndTransaction, Idle
  <2>2. (\A k \in Keys : keyLock'[k] # t) /\ \A m \in Members : rowLock'[m] # t
    BY <1>1, <1>u DEF EndTransaction
  <2> QED
    BY <2>1, <2>2 DEF ScopeRead, HoldsKeys, HoldsRows, KeyPhase
<1>2. ASSUME NEW r \in asked, Begin(t, r) PROVE ScopeRead(t)' /\ HoldsKeys(t)' /\ HoldsRows(t)'
  <2>1. /\ session[t].pc = "idle" /\ UNCHANGED <<keyLock, rowLock, members>>
        /\ session'[t].pc = "resolve" /\ Request(t)' = r /\ At(t)' = 1
    BY <1>2, <1>u, Begun DEF books, config, Request, At
  <2>2. (\A k \in Keys : keyLock[k] # t) /\ \A m \in Members : rowLock[m] # t
    BY <2>1, <1>u DEF HoldsKeys, HoldsRows
  <2> QED
    BY <2>1, <2>2, <1>u, BeforeFirst DEF ScopeRead, HoldsKeys, HoldsRows, KeyPhase
<1>3. ASSUME NextPhase(t) PROVE ScopeRead(t)' /\ HoldsKeys(t)' /\ HoldsRows(t)'
  <2> DEFINE r == Request(t)
             j == At(t)
  <2>1. /\ session[t].pc = "applied" /\ UNCHANGED <<keyLock, rowLock, members>>
        /\ session'[t].pc = "resolve" /\ Request(t)' = r /\ At(t)' = j + 1
    BY <1>3, <1>u DEF NextPhase, books, config, Request, At, SessionStates
  <2>2. r \in Requests /\ j \in 1..Len(Phases[r]) /\ Phase(t) = Phases[r][j]
    BY <2>1, <1>u, PhaseFacts DEF Request, At, Phase
  <2>3. j \in Nat \ {0}
    BY <2>2, LocksOfRequest
  <2>4. /\ \A k \in KeysToLock(t) : keyLock[k] = t
        /\ \A m \in MembersToLock(t) : rowLock[m] = t
    BY <2>1, <1>u DEF SessionInv, KeysHeld, RowsHeld, KeyPhase, RowPhase
  <2>5. Certain(Phase(t)) \subseteq MembersToLock(t)
    BY <2>1, <1>u DEF ScopeRead, KeyPhase, Certain, MembersToLock
  <2>6. HoldsKeys(t)'
    <3>1. KeysBefore(r, j + 1) = KeysBefore(r, j) \cup KeysToLock(t)
      BY <2>2, <2>3, BeforeNext DEF KeysToLock
    <3>2. /\ \A k \in KeysBefore(r, j) : keyLock[k] = t
          /\ \A k \in Keys : keyLock[k] = t => k \in KeysBefore(r, j) \/ k \in KeysToLock(t)
      BY <2>1, <1>u DEF HoldsKeys
    <3> QED
      BY <3>1, <3>2, <2>1, <2>4 DEF HoldsKeys
  <2>7. HoldsRows(t)'
    <3>1. /\ CertainBefore(r, j + 1) = CertainBefore(r, j) \cup Certain(Phase(t))
          /\ PossibleBefore(r, j + 1) = PossibleBefore(r, j) \cup Possible(Phase(t))
      BY <2>2, <2>3, BeforeNext
    <3>2. /\ \A m \in CertainBefore(r, j) : rowLock[m] = t
          /\ \A m \in members : rowLock[m] = t =>
               m \in PossibleBefore(r, j) \/ m \in Possible(Phase(t))
      BY <2>1, <1>u DEF HoldsRows
    <3>3. \A m \in Certain(Phase(t)) : rowLock[m] = t
      BY <2>4, <2>5
    <3> QED
      BY <3>1, <3>2, <3>3, <2>1 DEF HoldsRows
  <2> QED
    BY <2>1, <2>6, <2>7 DEF ScopeRead, KeyPhase
<1> QED
  BY <1>1, <1>2, <1>3 DEF Commit, Refuse, Abort

(* Within a phase the locks are taken from the smallest up.                 *)
LEMMA PhaseOrder ==
  ASSUME OrderInv, NEW t \in Sessions,
         Resolve(t) \/ LockKey(t) \/ ReadStored(t) \/ LockMember(t) \/ Prepare(t) \/ Apply(t)
  PROVE  ScopeRead(t)' /\ HoldsKeys(t)' /\ HoldsRows(t)'
<1>u. /\ LedgerInv /\ WorkOK /\ SessionInv(t) /\ ScopeRead(t) /\ HoldsKeys(t) /\ HoldsRows(t)
      /\ session \in [Sessions -> SessionStates] /\ members \subseteq Members
      /\ keyLock \in [Keys -> Sessions \cup {Free}] /\ rowLock \in [Members -> Sessions \cup {Free}]
      /\ Members \ Newcomers \subseteq members /\ Members \subseteq Nat
  BY LedgerAssumption DEF OrderInv, LedgerInv, WorkOK
<1>a. /\ session[t].pc \notin {"idle"} /\ Request(t)' = Request(t) /\ At(t)' = At(t)
      /\ Phase(t)' = Phase(t) /\ KeysToLock(t)' = KeysToLock(t) /\ members' = members
  <2>1. /\ session[t].pc # "idle" /\ members' = members
        /\ session'[t].request = session[t].request /\ session'[t].phase = session[t].phase
    <3>1. CASE Resolve(t) \/ Prepare(t) \/ Apply(t)
      BY <3>1, <1>u, Moved DEF Resolve, Prepare, Apply, books, config
    <3>2. CASE LockKey(t) \/ LockMember(t)
      BY <3>2 DEF LockKey, LockMember, books, config
    <3>3. CASE ReadStored(t)
      BY <3>3, <1>u DEF ReadStored, SessionStates, books, config
    <3> QED
      BY <3>1, <3>2, <3>3
  <2> QED
    BY <2>1, PhaseOfState DEF Request, At
<1>b. /\ KeysToLock(t) \subseteq Keys /\ MembersToLock(t) \subseteq Members
      /\ Request(t) \in Requests /\ At(t) \in 1..Len(Phases[Request(t)])
      /\ Phase(t) = Phases[Request(t)][At(t)]
  BY <1>a, <1>u, PhaseFacts DEF Request, At, Phase
<1>c. /\ KeysBefore(Request(t), At(t)) \subseteq Keys
      /\ CertainBefore(Request(t), At(t)) \subseteq Members
      /\ \A k \in KeysBefore(Request(t), At(t)) : keyLock[k] = t
      /\ \A m \in CertainBefore(Request(t), At(t)) : rowLock[m] = t
  BY <1>a, <1>b, <1>u, LocksOfRequest DEF HoldsKeys, HoldsRows
<1>1. ASSUME Resolve(t) PROVE ScopeRead(t)' /\ HoldsKeys(t)' /\ HoldsRows(t)'
  <2>1. session[t].pc = "resolve" /\ session'[t].pc = "keys" /\ UNCHANGED <<keyLock, rowLock>>
    BY <1>1, <1>u, Moved DEF Resolve
  <2> QED
    BY <2>1, <1>a, <1>u DEF ScopeRead, HoldsKeys, HoldsRows, KeyPhase
<1>2. ASSUME LockKey(t) PROVE ScopeRead(t)' /\ HoldsKeys(t)' /\ HoldsRows(t)'
  <2> DEFINE n == NextKey(t)
  <2>1. /\ session[t].pc = "keys" /\ session' = session /\ rowLock' = rowLock
        /\ MissingKeys(t) # {} /\ keyLock' = [keyLock EXCEPT ![n] = t]
    BY <1>2 DEF LockKey
  <2>2. n \in MissingKeys(t) /\ (\A k \in MissingKeys(t) : n =< k) /\ MissingKeys(t) \subseteq Keys
    <3>1. MissingKeys(t) \subseteq Keys
      BY <1>b DEF MissingKeys
    <3> QED
      BY <3>1, <2>1, KeysAreNumbers, MinIsSmallest DEF NextKey
  <2> HIDE DEF n
  <2>3. n \in KeysToLock(t) /\ n \in Keys /\ n \in Nat
    BY <2>2, KeysAreNumbers DEF MissingKeys
  <2>4. \A k \in Keys : keyLock'[k] = IF k = n THEN t ELSE keyLock[k]
    BY <2>1, <1>u
  <2>5. MissingKeys(t)' \subseteq MissingKeys(t) \ {n}
    BY <2>3, <2>4, <1>a, <1>b DEF MissingKeys
  <2>6. \A w \in MissingKeys(t)' : w \in Nat /\ n < w
    <3> TAKE w \in MissingKeys(t)'
    <3>1. w \in Nat /\ n =< w /\ w # n
      BY <2>2, <2>5, KeysAreNumbers
    <3> QED
      BY <2>3, <3>1
  <2>7. ASSUME NEW k \in Keys, keyLock'[k] = t, k \notin KeysBefore(Request(t), At(t))
        PROVE  k \in KeysToLock(t) /\ \A w \in MissingKeys(t)' : k < w
    <3>1. CASE k = n
      BY <3>1, <2>3, <2>6
    <3>2. CASE k # n
      BY <3>2, <2>1, <2>4, <2>5, <2>7, <1>u DEF HoldsKeys
    <3> QED
      BY <3>1, <3>2
  <2>8. HoldsKeys(t)'
    BY <2>1, <2>4, <2>7, <1>a, <1>c DEF HoldsKeys
  <2> QED
    BY <2>1, <2>8, <1>a, <1>u DEF ScopeRead, HoldsRows, KeyPhase
<1>3. ASSUME ReadStored(t) PROVE ScopeRead(t)' /\ HoldsKeys(t)' /\ HoldsRows(t)'
  <2>1. /\ session[t].pc = "keys" /\ session'[t].pc = "members" /\ UNCHANGED <<keyLock, rowLock>>
        /\ session'[t].scope = Scope(t)
    BY <1>3, <1>u DEF ReadStored, SessionStates
  <2> QED
    BY <2>1, <1>a, <1>u DEF ScopeRead, HoldsKeys, HoldsRows, KeyPhase, Scope
<1>4. ASSUME LockMember(t) PROVE ScopeRead(t)' /\ HoldsKeys(t)' /\ HoldsRows(t)'
  <2> DEFINE n == NextRow(t)
  <2>1. /\ session[t].pc = "members" /\ session' = session /\ keyLock' = keyLock
        /\ MissingRows(t) # {} /\ rowLock' = [rowLock EXCEPT ![n] = t]
    BY <1>4 DEF LockMember
  <2>2. /\ n \in MissingRows(t) /\ \A m \in MissingRows(t) : n =< m
        /\ MissingRows(t) \subseteq Members
    BY <2>1, <1>b, <1>u, WantedIsKnown DEF MissingRows
  <2> HIDE DEF n
  <2>3. n \in MembersToLock(t) /\ n \in Members /\ n \in Nat
    BY <2>2, <1>u DEF MissingRows
  <2>4. \A m \in Members : rowLock'[m] = IF m = n THEN t ELSE rowLock[m]
    BY <2>1, <1>u
  <2>5. MembersToLock(t)' = MembersToLock(t) /\ MembersToLock(t) \subseteq Possible(Phase(t))
    <3>1. session[t].scope \subseteq Members
      BY <1>u DEF SessionStates
    <3> QED
      BY <2>1, <3>1, <1>u, SamePhase DEF MembersToLock, Possible, ScopeRead, KeyPhase
  <2>6. MissingRows(t)' \subseteq MissingRows(t) \ {n}
    BY <2>3, <2>4, <2>5, <1>b DEF MissingRows
  <2>7. \A w \in MissingRows(t)' : n < w
    <3> TAKE w \in MissingRows(t)'
    <3>1. w \in Nat /\ n =< w /\ w # n
      BY <2>2, <2>6, <1>u
    <3> QED
      BY <2>3, <3>1
  <2>8. ASSUME NEW m \in members, rowLock'[m] = t, m \notin PossibleBefore(Request(t), At(t))
        PROVE  m \in Possible(Phase(t)) /\ \A w \in MissingRows(t)' : m < w
    <3>1. CASE m = n
      BY <3>1, <2>3, <2>5, <2>7
    <3>2. CASE m # n
      BY <3>2, <2>1, <2>4, <2>6, <2>8, <1>u DEF HoldsRows
    <3> QED
      BY <3>1, <3>2
  <2>9. HoldsRows(t)'
    BY <2>1, <2>4, <2>8, <1>a, <1>c DEF HoldsRows, KeyPhase
  <2> QED
    BY <2>1, <2>9, <1>a, <1>u DEF ScopeRead, HoldsKeys, KeyPhase
<1>5. ASSUME Prepare(t) PROVE ScopeRead(t)' /\ HoldsKeys(t)' /\ HoldsRows(t)'
  <2>1. /\ session[t].pc = "members" /\ session'[t].pc = "prepared" /\ UNCHANGED <<keyLock, rowLock>>
        /\ session'[t].scope = session[t].scope
    BY <1>5, <1>u, Moved DEF Prepare
  <2> QED
    BY <2>1, <1>a, <1>u DEF ScopeRead, HoldsKeys, HoldsRows, KeyPhase
<1>6. ASSUME Apply(t) PROVE ScopeRead(t)' /\ HoldsKeys(t)' /\ HoldsRows(t)'
  <2>1. /\ session[t].pc = "prepared" /\ session'[t].pc = "applied" /\ keyLock' = keyLock
        /\ session'[t].scope = session[t].scope
    BY <1>6, <1>u, Moved DEF Apply
  <2>2. \A m \in members : rowLock'[m] = rowLock[m]
    <3>1. CASE session[t].replay
      BY <1>6, <3>1 DEF Apply
    <3>2. CASE ~session[t].replay
      <4>1. \A m \in Members : rowLock'[m] = IF m \in Phase(t).joins THEN t ELSE rowLock[m]
        BY <1>6, <3>2 DEF Apply
      <4>2. \A m \in Phase(t).joins : m \notin members
        BY <2>1, <3>2, <1>u, InsertedIsFree
      <4> QED
        BY <4>1, <4>2, <1>u
    <3> QED
      BY <3>1, <3>2
  <2>3. \A m \in CertainBefore(Request(t), At(t)) : rowLock'[m] = t
    <3>1. CASE session[t].replay
      BY <1>6, <3>1, <1>c DEF Apply
    <3>2. CASE ~session[t].replay
      BY <1>6, <3>2, <1>c DEF Apply
    <3> QED
      BY <3>1, <3>2
  <2>4. HoldsRows(t)'
    BY <2>1, <2>2, <2>3, <1>a, <1>u DEF HoldsRows, KeyPhase
  <2> QED
    BY <2>1, <2>4, <1>a, <1>u DEF ScopeRead, HoldsKeys, KeyPhase
<1> QED
  BY <1>1, <1>2, <1>3, <1>4, <1>5, <1>6

LEMMA OrderStep == OrderInv /\ [Next]_vars => OrderInv'
<1> SUFFICES ASSUME OrderInv, [Next]_vars PROVE OrderInv'
  OBVIOUS
<1>u. LedgerInv /\ WorkOK /\ Members \ Newcomers \subseteq members
  BY DEF OrderInv, LedgerInv
<1>1. LedgerInv'
  BY <1>u, LedgerStep
<1>2. ASSUME NEW t \in Sessions, StepOf(t) PROVE OrderInv'
  <2>1. ScopeRead(t)' /\ HoldsKeys(t)' /\ HoldsRows(t)'
    BY <1>2, TurnsOrder, PhaseOrder DEF StepOf
  <2>2. \A s \in Sessions : ScopeRead(s)' /\ HoldsKeys(s)' /\ HoldsRows(s)'
    BY <1>2, <2>1, OthersOrder
  <2>3. (Members \ Newcomers \subseteq members)'
    BY <1>2, <1>u, BooksGrow
  <2> QED
    BY <1>1, <2>2, <2>3 DEF OrderInv
<1>3. ASSUME (\E m \in Members : ChangeStatus(m)) \/ UNCHANGED vars
      PROVE  OrderInv'
  <2>1. UNCHANGED <<members, session, keyLock, rowLock>>
    BY <1>3, Elsewhere
  <2>2. ASSUME NEW s \in Sessions
        PROVE  ScopeRead(s)' /\ HoldsKeys(s)' /\ HoldsRows(s)'
    <3>1. ScopeRead(s) /\ HoldsKeys(s) /\ HoldsRows(s)
      BY DEF OrderInv
    <3>2. /\ Phase(s)' = Phase(s) /\ Request(s)' = Request(s) /\ At(s)' = At(s)
          /\ KeysToLock(s)' = KeysToLock(s) /\ MembersToLock(s)' = MembersToLock(s)
      BY <2>1, SamePhase DEF Request, At
    <3>3. MissingKeys(s)' = MissingKeys(s) /\ MissingRows(s)' = MissingRows(s)
      BY <2>1, <3>2 DEF MissingKeys, MissingRows
    <3> QED
      BY <2>1, <3>1, <3>2, <3>3 DEF ScopeRead, HoldsKeys, HoldsRows
  <2> QED
    BY <1>1, <1>u, <2>1, <2>2 DEF OrderInv
<1> QED
  BY <1>2, <1>3 DEF Next, StepOf

LEMMA OrderInit == Init => OrderInv
<1> SUFFICES ASSUME Init PROVE OrderInv
  OBVIOUS
<1>1. members = Members \ Newcomers
  BY DEF Init
<1>2. ASSUME NEW s \in Sessions PROVE ScopeRead(s) /\ HoldsKeys(s) /\ HoldsRows(s)
  <2>1. /\ session[s].pc = "idle"
        /\ \A k \in Keys : keyLock[k] = Free
        /\ \A m \in Members : rowLock[m] = Free
    BY DEF Init, Idle
  <2>2. s # Free
    BY LedgerAssumption DEF Free
  <2> QED
    BY <2>1, <2>2 DEF ScopeRead, HoldsKeys, HoldsRows, KeyPhase
<1> QED
  BY <1>1, <1>2, LedgerInit DEF OrderInv

-----------------------------------------------------------------------------
(* Who waits, waits for more than he holds.                                 *)

\* The rank of the lock a transaction waits for.
WantedRank(s, rank) == IF session[s].pc = "keys" THEN rank.key[NextKey(s)]
                       ELSE rank.row[NextRow(s)]

Waits(s) == \/ session[s].pc = "keys" /\ MissingKeys(s) # {}
            \/ session[s].pc = "members" /\ MissingRows(s) # {}

LEMMA WantedKey ==
  ASSUME OrderInv, NEW rank, OneLockOrder(rank), NEW t \in Sessions,
         session[t].pc = "keys", MissingKeys(t) # {}
  PROVE  /\ NextKey(t) \in Keys /\ rank.key[NextKey(t)] \in Nat
         /\ \A k \in Keys : keyLock[k] = t => rank.key[k] < rank.key[NextKey(t)]
         /\ \A m \in members : rowLock[m] = t => rank.row[m] < rank.key[NextKey(t)]
<1> DEFINE r == Request(t)
           j == At(t)
           n == NextKey(t)
<1>u. LedgerInv /\ WorkOK /\ HoldsKeys(t) /\ HoldsRows(t)
  BY DEF OrderInv, LedgerInv
<1>1. /\ KeysToLock(t) \subseteq Keys /\ r \in Requests /\ j \in 1..Len(Phases[r])
      /\ KeysToLock(t) = KeysOf(Phases[r][j])
  BY <1>u, PhaseFacts DEF Request, At, KeysToLock, Phase
<1>2. n \in MissingKeys(t)
  <2>1. MissingKeys(t) \subseteq Nat
    BY <1>1, KeysAreNumbers DEF MissingKeys
  <2> QED
    BY <2>1, MinIsSmallest DEF NextKey
<1>3. n \in KeysOf(Phases[r][j]) /\ n \in Keys /\ keyLock[n] # t
  BY <1>1, <1>2 DEF MissingKeys
<1>4. n \notin KeysBefore(r, j)
  BY <1>3, <1>u DEF HoldsKeys
<1>5. rank.key \in [Keys -> Nat] /\ Follows(r, rank)
  BY <1>1 DEF OneLockOrder
<1> HIDE DEF n
<1>6. /\ \A m \in PossibleBefore(r, j) : rank.row[m] < rank.key[n]
      /\ \A h \in KeysBefore(r, j) \cup {h \in KeysOf(Phases[r][j]) : h < n} :
           rank.key[h] < rank.key[n]
  BY <1>1, <1>3, <1>4, <1>5 DEF Follows
<1>7. \A k \in Keys : keyLock[k] = t =>
        k \in KeysBefore(r, j) \/ (k \in KeysOf(Phases[r][j]) /\ k < n)
  BY <1>1, <1>2, <1>u DEF HoldsKeys
<1>8. \A m \in members : rowLock[m] = t => m \in PossibleBefore(r, j)
  BY <1>u DEF HoldsRows, KeyPhase
<1>9. NextKey(t) = n
  BY DEF n
<1> HIDE DEF r, j
<1> QED
  BY <1>3, <1>5, <1>6, <1>7, <1>8, <1>9

LEMMA WantedRow ==
  ASSUME OrderInv, NEW rank, OneLockOrder(rank), NEW t \in Sessions,
         session[t].pc = "members", MissingRows(t) # {}
  PROVE  /\ NextRow(t) \in members /\ rank.row[NextRow(t)] \in Nat
         /\ \A k \in Keys : keyLock[k] = t => rank.key[k] < rank.row[NextRow(t)]
         /\ \A m \in members : rowLock[m] = t => rank.row[m] < rank.row[NextRow(t)]
<1> DEFINE r == Request(t)
           j == At(t)
           n == NextRow(t)
<1>u. /\ LedgerInv /\ WorkOK /\ HoldsKeys(t) /\ HoldsRows(t) /\ ScopeRead(t)
      /\ members \subseteq Members /\ session \in [Sessions -> SessionStates]
  BY DEF OrderInv, LedgerInv, WorkOK
<1>1. /\ r \in Requests /\ j \in 1..Len(Phases[r])
      /\ Phase(t) = Phases[r][j] /\ KeysToLock(t) = KeysOf(Phases[r][j])
  BY <1>u, PhaseFacts DEF Request, At, KeysToLock, Phase
<1>2. n \in MissingRows(t) /\ n \in members
  BY <1>u, WantedIsKnown
<1>3. n \in Possible(Phases[r][j]) /\ n \in Members /\ rowLock[n] # t
  <2>1. session[t].scope \subseteq Members
    BY <1>u DEF SessionStates
  <2>2. MembersToLock(t) \subseteq Possible(Phase(t))
    BY <2>1, <1>u DEF MembersToLock, Possible, ScopeRead, KeyPhase
  <2> QED
    BY <1>1, <1>2, <1>u, <2>2 DEF MissingRows
<1>4. n \notin CertainBefore(r, j)
  BY <1>3, <1>u DEF HoldsRows
<1>5. rank.row \in [Members -> Nat] /\ Follows(r, rank)
  BY <1>1 DEF OneLockOrder
<1> HIDE DEF n
<1>6. /\ \A k \in KeysBefore(r, j) \cup KeysOf(Phases[r][j]) : rank.key[k] < rank.row[n]
      /\ \A h \in (PossibleBefore(r, j) \cup {h \in Possible(Phases[r][j]) : h < n}) \ {n} :
           rank.row[h] < rank.row[n]
  BY <1>1, <1>3, <1>4, <1>5 DEF Follows
<1>7. \A k \in Keys : keyLock[k] = t => k \in KeysBefore(r, j) \cup KeysOf(Phases[r][j])
  BY <1>1, <1>u DEF HoldsKeys
<1>8. \A m \in members : rowLock[m] = t =>
        /\ m # n
        /\ m \in PossibleBefore(r, j) \/ (m \in Possible(Phases[r][j]) /\ m < n)
  BY <1>1, <1>2, <1>3, <1>u DEF HoldsRows
<1>9. NextRow(t) = n
  BY DEF n
<1> HIDE DEF r, j
<1> QED
  BY <1>2, <1>3, <1>5, <1>6, <1>7, <1>8, <1>9

(* Along a chain of waiting transactions the rank of what they wait for     *)
(* grows.                                                                   *)
LEMMA WaitingRises ==
  ASSUME OrderInv, NEW rank, OneLockOrder(rank), NEW s \in Sessions, NEW t \in Sessions,
         WaitsFor(s, t), Waits(t)
  PROVE  WantedRank(s, rank) < WantedRank(t, rank)
<1>1. CASE session[s].pc = "keys" /\ MissingKeys(s) # {} /\ keyLock[NextKey(s)] = t
  <2>1. NextKey(s) \in Keys
    BY <1>1, WantedKey
  <2>2. CASE session[t].pc = "keys" /\ MissingKeys(t) # {}
    BY <1>1, <2>1, <2>2, WantedKey DEF WantedRank
  <2>3. CASE session[t].pc = "members" /\ MissingRows(t) # {}
    BY <1>1, <2>1, <2>3, WantedRow DEF WantedRank
  <2> QED
    BY <2>2, <2>3 DEF Waits
<1>2. CASE session[s].pc = "members" /\ MissingRows(s) # {} /\ rowLock[NextRow(s)] = t
  <2>1. NextRow(s) \in members
    BY <1>2, WantedRow
  <2>2. CASE session[t].pc = "keys" /\ MissingKeys(t) # {}
    BY <1>2, <2>1, <2>2, WantedKey DEF WantedRank
  <2>3. CASE session[t].pc = "members" /\ MissingRows(t) # {}
    BY <1>2, <2>1, <2>3, WantedRow DEF WantedRank
  <2> QED
    BY <2>2, <2>3 DEF Waits
<1> QED
  BY <1>1, <1>2 DEF WaitsFor

(* A finite set has an element at which a function is greatest.             *)
LEMMA GreatestExists ==
  ASSUME NEW T, IsFiniteSet(T), T # {}, NEW f, \A x \in T : f[x] \in Nat
  PROVE  \E x \in T : \A y \in T : f[y] =< f[x]
<1> DEFINE Good == {S \in SUBSET T : S # {} => \E x \in S : \A y \in S : f[y] =< f[x]}
<1>1. ASSUME NEW S \in SUBSET T, \A x \in S : S \ {x} \in Good
      PROVE  S \in Good
  <2>1. SUFFICES ASSUME S # {} PROVE \E x \in S : \A y \in S : f[y] =< f[x]
    OBVIOUS
  <2>2. PICK z \in S : TRUE
    BY <2>1
  <2>3. CASE S \ {z} = {}
    <3>1. \A y \in S : f[y] =< f[z]
      BY <2>2, <2>3
    <3> QED
      BY <2>2, <3>1
  <2>4. CASE S \ {z} # {}
    <3>1. PICK x \in S \ {z} : \A y \in S \ {z} : f[y] =< f[x]
      BY <1>1, <2>2, <2>4
    <3>2. CASE f[z] =< f[x]
      BY <3>1, <3>2
    <3>3. CASE ~(f[z] =< f[x])
      <4>1. \A y \in S : f[y] =< f[z]
        <5> TAKE y \in S
        <5>1. f[y] \in Nat /\ f[x] \in Nat /\ f[z] \in Nat
          BY <2>2, <3>1
        <5>2. y = z \/ f[y] =< f[x]
          BY <3>1
        <5> QED
          BY <3>3, <5>1, <5>2
      <4> QED
        BY <2>2, <4>1
    <3> QED
      BY <3>2, <3>3
  <2> QED
    BY <2>3, <2>4
<1> HIDE DEF Good
<1>2. T \in Good
  BY <1>1, SubsetInduction
<1> QED
  BY <1>2 DEF Good

(* Transactions whose requests take their locks in one order never wait for *)
(* each other in a circle, whatever else they do.                           *)
THEOREM WaitingEnds ==
  ASSUME NEW rank, OneLockOrder(rank)
  PROVE  Spec => []NoWaitCycle
<1>1. ASSUME OrderInv PROVE NoWaitCycle
  <2> SUFFICES ASSUME NEW T \in SUBSET Sessions, T # {},
                      \A s \in T : \E t \in T : WaitsFor(s, t)
               PROVE  FALSE
    BY DEF NoWaitCycle
  <2> DEFINE f == [s \in T |-> WantedRank(s, rank)]
  <2>1. \A s \in T : Waits(s)
    BY DEF WaitsFor, Waits
  <2>2. \A s \in T : WantedRank(s, rank) \in Nat
    BY <1>1, <2>1, WantedKey, WantedRow DEF Waits, WantedRank
  <2>3. IsFiniteSet(T)
    BY LedgerAssumption, FS_Subset
  <2>4. PICK s \in T : \A t \in T : f[t] =< f[s]
    <3>1. \A x \in T : f[x] \in Nat
      BY <2>2
    <3> HIDE DEF f
    <3> QED
      BY <2>3, <3>1, GreatestExists
  <2>5. PICK t \in T : WaitsFor(s, t)
    OBVIOUS
  <2>6. WantedRank(s, rank) < WantedRank(t, rank)
    BY <1>1, <2>1, <2>5, WaitingRises
  <2>7. WantedRank(t, rank) =< WantedRank(s, rank)
    BY <2>4
  <2> QED
    BY <2>2, <2>6, <2>7
<1>2. OrderInv => NoWaitCycle
  BY <1>1
<1> QED
  BY OrderInit, OrderStep, <1>2, PTL DEF Spec

-----------------------------------------------------------------------------
(* The levels.                                                              *)

NoJoins == \A r \in asked : \A p \in Range(Phases[r]) : p.joins = {}
NoActivations == \A r \in asked : \A p \in Range(Phases[r]) : p.activates = <<>>

AsAsked(s) == session[s].pc # "idle" => session[s].request \in asked

\* What a repeated batch would book is booked, or staged by its own transaction.
RepeatIsVisible(s) ==
  session[s].pc \in KeyPhase /\ session[s].replay /\ Commands(s) # <<>> =>
    CommandSet(s) \subseteq Visible(s)

\* Who was inserted has been granted something, or is about to be.
InsertedIsGranted(s) ==
  \A m \in Members \ members : rowLock[m] = s =>
    \/ \E c \in StagedCommands(s) : c.member = m
    \/ \E j \in NextJoin(s)..Len(Phases[Request(s)]) :
         \E c \in Range(Phases[Request(s)][j].commands) : c.member = m

\* Without registrations everyone means all members, also later.
ScopeIsEveryone(s) ==
  NoJoins /\ session[s].pc \in KeyPhase /\ Phase(s).everyone => session[s].scope = members

LockedAreMembers == NoJoins => \A m \in Members : rowLock[m] # Free => m \in members

BookedAreMembers == \A c \in Booked : c.member \in members

\* The transaction is about to commit an activation of another version.
Switches(s) ==
  /\ session[s].pc = "applied" /\ ~session[s].replay
  /\ Phase(s).activates # <<>> /\ Phase(s).activates[1].version # Active

Touched(s, m) == \E c \in StagedCommands(s) : c.member = m

\* The levels a transaction is about to commit are those of what it reads.
RaisedAsRead(s) ==
  IF Switches(s)
  THEN \A m \in members :
         raised[s][m] = ResolveLevel(Phase(s).activates[1].version, EarnedIn(Visible(s), m))
  ELSE \A m \in Members :
         raised[s][m] = IF Active # 0 /\ Touched(s, m)
                        THEN ResolveLevel(Active, EarnedIn(Visible(s), m)) ELSE Untouched

SessionLevels(s) ==
  /\ AsAsked(s) /\ RepeatIsVisible(s) /\ InsertedIsGranted(s)
  /\ ScopeIsEveryone(s) /\ RaisedAsRead(s)

LevelInv ==
  /\ OrderInv
  /\ NoJoins \/ NoActivations
  /\ DOMAIN raised = Sessions
  /\ LockedAreMembers /\ BookedAreMembers
  /\ \A s \in Sessions : SessionLevels(s)
  /\ LevelsAreCurrent

-----------------------------------------------------------------------------
(* What a transaction sees has its sources.                                 *)
LEMMA VisibleHasSources ==
  ASSUME LedgerInv, NEW s \in Sessions
  PROVE  \A c \in Visible(s) : c \in AllCommands /\ IsCommand(c) /\ HasSource(c, Visible(s))
<1>u. BookedHaveSources /\ SourcesRead(s) /\ StagedIsHeld(s)
  BY DEF LedgerInv, SessionInv
<1>1. Visible(s) = Booked \cup StagedCommands(s)
  BY DEF Visible, StagedCommands
<1>2. ASSUME NEW c \in Booked PROVE c \in AllCommands /\ HasSource(c, Visible(s))
  BY <1>u, <1>1 DEF BookedHaveSources, HasSource
<1>3. ASSUME NEW c \in StagedCommands(s) PROVE c \in AllCommands /\ HasSource(c, Visible(s))
  BY <1>u DEF SourcesRead, StagedIsHeld
<1>4. \A c \in AllCommands : IsCommand(c)
  BY LedgerAssumption
<1> QED
  BY <1>1, <1>2, <1>3, <1>4

(* Commands of others under new keys change nothing in what a member has    *)
(* earned.                                                                  *)
LEMMA EarnedSame ==
  ASSUME NEW A, NEW B, NEW m, A \subseteq B,
         \A c \in A : HasSource(c, A),
         \A d \in B \ A : /\ d.member # m /\ d.key # 0
                          /\ \A c \in A : c.key # d.key
  PROVE  EarnedIn(B, m) = EarnedIn(A, m)
<1> DEFINE counts(c, commands) ==
      /\ c.member = m
      /\ \/ c.kind \in RewardKinds
         \/ \E d \in commands : d.key = c.reverses /\ d.kind \in RewardKinds
<1>1. ASSUME NEW c \in A, NEW d \in B, d.key = c.reverses PROVE d \in A
  <2>1. SUFFICES ASSUME d \notin A PROVE FALSE
    OBVIOUS
  <2>2. c.reverses # 0
    BY <1>1, <2>1
  <2> QED
    BY <1>1, <2>1, <2>2 DEF HasSource
<1>2. \A c \in A : counts(c, B) <=> counts(c, A)
  BY <1>1
<1>3. {c \in B : counts(c, B)} = {c \in A : counts(c, A)}
  BY <1>2
<1> QED
  BY <1>3 DEF EarnedIn

(* A sequence of one element.                                               *)
LEMMA OneElement ==
  ASSUME NEW q, IsSeq(q), Len(q) = 1
  PROVE  q[1] \in Range(q) /\ \A x \in Range(q) : x = q[1]
<1>1. DOMAIN q = 1..1
  BY DEF IsSeq
<1> QED
  BY <1>1 DEF Range

(* The elements of an appended sequence keep their order.                   *)
LEMMA Appended ==
  ASSUME NEW q, IsSeq(q), NEW p, IsSeq(p)
  PROVE  /\ Len(q \o p) = Len(q) + Len(p)
         /\ \A i \in 1..Len(p) : (q \o p)[Len(q) + i] = p[i]
<1> DEFINE S == Range(q) \cup Range(p)
<1>1. q \in Seq(S) /\ p \in Seq(S)
  <2>1. /\ Len(q) \in Nat /\ q \in [1..Len(q) -> Range(q)]
        /\ Len(p) \in Nat /\ p \in [1..Len(p) -> Range(p)]
    BY DEF IsSeq
  <2>2. q \in [1..Len(q) -> S] /\ p \in [1..Len(p) -> S]
    BY <2>1
  <2> QED
    BY <2>1, <2>2
<1> QED
  BY <1>1

(* One more at the end is the last.                                         *)
LEMMA LastOfLonger ==
  ASSUME NEW q, IsSeq(q), NEW p, IsSeq(p), Len(p) = 1
  PROVE  (q \o p) # <<>> /\ Last(q \o p) = p[1]
<1>1. Len(q) \in Nat
  BY DEF IsSeq
<1>2. Len(q \o p) = Len(q) + 1 /\ (q \o p)[Len(q) + 1] = p[1]
  BY Appended
<1>3. q \o p # <<>>
  <2>1. Len(<<>>) = 0
    OBVIOUS
  <2> QED
    BY <1>1, <1>2, <2>1
<1> QED
  BY <1>2, <1>3 DEF Last

(* Nothing more at the end.                                                 *)
LEMMA NothingMore ==
  ASSUME NEW q, IsSeq(q)
  PROVE  q \o <<>> = q
<1>1. q \in Seq(Range(q)) /\ <<>> \in Seq(Range(q))
  BY DEF IsSeq
<1> QED
  BY <1>1

(* A transaction that is about to activate a version holds the gate of the  *)
(* configuration and every member there is; its request ends with it.       *)
LEMMA Activating ==
  ASSUME LevelInv, NEW t \in Sessions, session[t].pc \in RowPhase,
         Phase(t).activates # <<>>
  PROVE  /\ NoJoins /\ session[t].scope = members
         /\ \A m \in members : rowLock[m] = t
         /\ ConfigGate \in Keys /\ keyLock[ConfigGate] = t
         /\ CommandSet(t) = {} /\ Commands(t) = <<>>
         /\ session[t].phase = Len(Phases[Request(t)])
         /\ IsSeq(Phase(t).activates) /\ Len(Phase(t).activates) = 1
         /\ Phase(t).activates[1].version \in Nat \ {0}
         /\ \A a \in Range(Phase(t).activates) : a = Phase(t).activates[1]
<1>u. /\ LedgerInv /\ WorkOK /\ KeysHeld(t) /\ RowsHeld(t)
      /\ AsAsked(t) /\ ScopeIsEveryone(t) /\ (NoJoins \/ NoActivations)
      /\ session[t].pc # "idle" /\ session[t].pc \in KeyPhase
  BY DEF LevelInv, OrderInv, LedgerInv, SessionInv, SessionLevels, RowPhase, KeyPhase
<1>1. /\ IsPhase(Phase(t)) /\ Request(t) \in Requests
      /\ session[t].phase \in 1..Len(Phases[Request(t)])
      /\ Phase(t) = Phases[Request(t)][session[t].phase]
      /\ KeysToLock(t) \subseteq Keys
  BY <1>u, PhaseFacts DEF Request, Phase
<1>2. IsRequest(Phases[Request(t)])
  BY <1>1, LedgerAssumption
<1>3. Phase(t) \in Range(Phases[Request(t)])
  BY <1>1, <1>2 DEF IsRequest, IsSeq, Range
<1>4. NoJoins
  BY <1>u, <1>3 DEF NoActivations, AsAsked, Request
<1>5. /\ IsSeq(Phase(t).activates) /\ Len(Phase(t).activates) = 1
      /\ \A a \in Range(Phase(t).activates) : a.version \in Nat \ {0}
      /\ ConfigGate \in Phase(t).gates /\ Phase(t).everyone /\ Phase(t).commands = <<>>
  BY <1>1 DEF IsPhase
<1>6. session[t].scope = members
  BY <1>4, <1>5, <1>u DEF ScopeIsEveryone
<1>7. ConfigGate \in KeysToLock(t)
  BY <1>5 DEF KeysToLock, KeysOf
<1>8. Commands(t) = <<>> /\ CommandSet(t) = {}
  <2>1. Range(<<>>) = {}
    BY DEF Range
  <2> QED
    BY <1>5, <2>1 DEF Commands, CommandSet
<1>9. session[t].phase = Len(Phases[Request(t)])
  BY <1>1, <1>2 DEF IsRequest
<1> QED
  BY <1>1, <1>4, <1>5, <1>6, <1>7, <1>8, <1>9, <1>u, OneElement
     DEF KeysHeld, RowsHeld, MembersToLock

(* Only the commit of an activation changes the active version.             *)
LEMMA ActiveStays ==
  ASSUME LevelInv, NEW t \in Sessions, StepOf(t), Active' # Active
  PROVE  Commit(t) /\ Switches(t) /\ Active' = Phase(t).activates[1].version
<1>u. LedgerInv /\ WorkOK /\ IsSeq(activations)
  BY DEF LevelInv, OrderInv, LedgerInv, WorkOK
<1>1. Active' # Active => activations' # activations
  BY DEF Active
<1>2. Commit(t) /\ ~session[t].replay
  BY <1>1 DEF StepOf, Begin, Resolve, LockKey, ReadStored, LockMember, Prepare, Apply,
              NextPhase, Commit, Refuse, Abort, books, config
<1>3. activations' = activations \o Phase(t).activates /\ session[t].pc = "applied"
  BY <1>2 DEF Commit
<1>4. Phase(t).activates # <<>>
  BY <1>1, <1>3, <1>u, NothingMore
<1>5. IsSeq(Phase(t).activates) /\ Len(Phase(t).activates) = 1
  BY <1>3, <1>4, Activating DEF RowPhase
<1>6. activations' # <<>> /\ Last(activations') = Phase(t).activates[1]
  BY <1>3, <1>5, <1>u, LastOfLonger
<1>7. Active' = Phase(t).activates[1].version
  BY <1>6 DEF Active
<1> QED
  BY <1>2, <1>3, <1>4, <1>7 DEF Switches

(* Without registrations the members stay the same.                         *)
LEMMA MembersStay ==
  ASSUME LevelInv, NEW t \in Sessions, StepOf(t), NoJoins
  PROVE  members' = members
<1>1. \A m \in Members : rowLock[m] # Free => m \in members
  BY DEF LevelInv, LockedAreMembers
<1>2. WorkOK /\ Free # t
  BY LedgerAssumption DEF LevelInv, OrderInv, LedgerInv, Free
<1>3. /\ members \subseteq members'
      /\ members' \subseteq members \cup {m \in Members : rowLock[m] = t}
  BY <1>2, BooksGrow
<1> QED
  BY <1>1, <1>2, <1>3

(* What a transaction sees that a member of its own has earned changes only *)
(* by itself.                                                               *)
LEMMA OthersEarned ==
  ASSUME LedgerInv, NEW t \in Sessions, StepOf(t), NEW s \in Sessions, s # t,
         NEW m, rowLock[m] = s
  PROVE  EarnedIn(Visible(s)', m) = EarnedIn(Visible(s), m)
<1>u. WorkOK /\ StagedIsHeld(s) /\ StagedIsHeld(t)
  BY DEF LedgerInv, SessionInv
<1>1. /\ Visible(s) = Booked \cup StagedCommands(s)
      /\ Visible(s)' = Booked' \cup StagedCommands(s)
  BY OthersKept DEF Visible, StagedCommands
<1>2. Booked \subseteq Booked' /\ Booked' \subseteq Booked \cup StagedCommands(t)
  BY <1>u, BooksGrow
<1>3. ASSUME NEW d \in StagedCommands(t)
      PROVE  /\ d.member # m /\ d.key # 0
             /\ \A c \in Visible(s) : c.key # d.key
  <2>1. d \in AllCommands /\ keyLock[d.key] = t /\ rowLock[d.member] = t /\ d.key \notin BookedKeys
    BY <1>u DEF StagedIsHeld
  <2>2. d.key # 0
    BY <2>1, LedgerAssumption DEF IsCommand
  <2>3. \A c \in StagedCommands(s) : keyLock[c.key] = s
    BY <1>u DEF StagedIsHeld
  <2> QED
    BY <1>1, <2>1, <2>2, <2>3 DEF BookedKeys
<1>4. \A c \in Visible(s) : HasSource(c, Visible(s))
  BY VisibleHasSources
<1>5. Visible(s) \subseteq Visible(s)'
  BY <1>1, <1>2
<1>6. \A d \in Visible(s)' \ Visible(s) : d \in StagedCommands(t)
  BY <1>1, <1>2
<1> QED
  BY <1>3, <1>4, <1>5, <1>6, EarnedSame

(* The levels a transaction has staged are not touched by others.           *)
LEMMA RaisedKept ==
  ASSUME LevelInv, NEW t \in Sessions, StepOf(t), NEW s \in Sessions, s # t
  PROVE  raised'[s] = raised[s]
<1>u. DOMAIN raised = Sessions
  BY DEF LevelInv
<1>1. ASSUME EndTransaction(t) PROVE raised'[s] = raised[s]
  BY <1>1, <1>u DEF EndTransaction
<1>2. CASE Apply(t)
  BY <1>2, <1>u DEF Apply, work
<1>3. CASE UNCHANGED raised
  BY <1>3
<1> QED
  BY <1>1, <1>2, <1>3
     DEF StepOf, Begin, Resolve, LockKey, ReadStored, LockMember, Prepare, NextPhase,
         Commit, Refuse, Abort, work

(* The levels of another transaction stay those of what it reads: it holds  *)
(* the members it has paid, and an activation holds them all.               *)
LEMMA OthersRaised ==
  ASSUME LevelInv, NEW t \in Sessions, StepOf(t), NEW s \in Sessions, s # t
  PROVE  RaisedAsRead(s)'
<1>u. /\ LedgerInv /\ StagedIsHeld(s) /\ RaisedAsRead(s) /\ LockedAreMembers
      /\ (NoJoins \/ NoActivations) /\ Free # s /\ Free # t
      /\ \A c \in AllCommands : c.member \in Members
  BY LedgerAssumption
     DEF LevelInv, OrderInv, LedgerInv, SessionInv, SessionLevels, Free, IsCommand
<1>a. /\ session'[s] = session[s] /\ Phase(s)' = Phase(s) /\ raised'[s] = raised[s]
      /\ \A m : Touched(s, m)' <=> Touched(s, m)
  BY <1>u, OthersKept, SamePhase, RaisedKept DEF Touched, StagedCommands
<1>b. ASSUME NEW m, rowLock[m] = s
      PROVE  EarnedIn(Visible(s), m)' = EarnedIn(Visible(s), m)
  BY <1>b, <1>u, OthersEarned
<1>c. ASSUME session[s].pc = "applied", Phase(s).activates # <<>>
      PROVE  NoJoins /\ (\A m \in members : rowLock[m] = s) /\ keyLock[ConfigGate] = s
  BY <1>c, Activating DEF RowPhase
<1>d. \A m : Touched(s, m) => m \in Members /\ rowLock[m] = s
  BY <1>u DEF Touched, StagedIsHeld
<1>1. CASE Active' = Active
  <2>1. Switches(s)' <=> Switches(s)
    BY <1>1, <1>a DEF Switches
  <2>2. CASE Switches(s)
    <3>1. members' = members
      BY <1>c, <2>2, MembersStay DEF Switches
    <3>2. \A m \in members : EarnedIn(Visible(s), m)' = EarnedIn(Visible(s), m)
      BY <1>b, <1>c, <2>2 DEF Switches
    <3> QED
      BY <1>a, <1>u, <2>1, <2>2, <3>1, <3>2 DEF RaisedAsRead
  <2>3. CASE ~Switches(s)
    <3>1. \A m \in Members : Touched(s, m) =>
            EarnedIn(Visible(s), m)' = EarnedIn(Visible(s), m)
      BY <1>b, <1>d
    <3>2. \A m \in Members :
            raised[s][m] = IF Active # 0 /\ Touched(s, m)
                           THEN ResolveLevel(Active, EarnedIn(Visible(s), m)) ELSE Untouched
      BY <1>u, <2>3 DEF RaisedAsRead
    <3> QED
      BY <1>a, <1>1, <2>1, <2>3, <3>1, <3>2 DEF RaisedAsRead
  <2> QED
    BY <2>2, <2>3
<1>2. CASE Active' # Active
  <2>1. session[t].pc = "applied" /\ Phase(t).activates # <<>>
    BY <1>2, ActiveStays DEF Switches
  <2>2. NoJoins /\ (\A m \in members : rowLock[m] = t) /\ keyLock[ConfigGate] = t
    BY <2>1, Activating DEF RowPhase
  <2>3. ~(session[s].pc = "applied" /\ Phase(s).activates # <<>>)
    BY <1>c, <2>2
  <2>4. ~Switches(s) /\ ~Switches(s)'
    BY <2>3, <1>a DEF Switches
  <2>5. \A m : ~Touched(s, m)
    BY <1>d, <1>u, <2>2 DEF LockedAreMembers
  <2> QED
    BY <1>a, <1>u, <2>4, <2>5 DEF RaisedAsRead
<1> QED
  BY <1>1, <1>2

(* The rest of what another transaction relies on stays as well.            *)
LEMMA OthersLevels ==
  ASSUME LevelInv, NEW t \in Sessions, StepOf(t), NEW s \in Sessions, s # t
  PROVE  SessionLevels(s)'
<1>u. LedgerInv /\ WorkOK /\ SessionLevels(s)
  BY DEF LevelInv, OrderInv, LedgerInv
<1>a. /\ session'[s] = session[s] /\ Phase(s)' = Phase(s) /\ CommandSet(s)' = CommandSet(s)
      /\ StagedCommands(s)' = StagedCommands(s) /\ NextJoin(s)' = NextJoin(s)
      /\ \A m \in Members : rowLock'[m] = s <=> rowLock[m] = s
  BY <1>u, OthersKept, SamePhase, OthersGainNothing DEF StagedCommands
<1>b. asked' = asked /\ members \subseteq members' /\ Booked \subseteq Booked'
  BY <1>u, BooksGrow
<1>c. Visible(s) \subseteq Visible(s)'
  BY <1>a, <1>b DEF Visible, StagedCommands
<1>1. AsAsked(s)'
  BY <1>a, <1>b, <1>u DEF SessionLevels, AsAsked
<1>2. RepeatIsVisible(s)'
  BY <1>a, <1>c, <1>u DEF SessionLevels, RepeatIsVisible, Commands
<1>3. InsertedIsGranted(s)'
  BY <1>a, <1>b, <1>u DEF SessionLevels, InsertedIsGranted, Request
<1>4. ScopeIsEveryone(s)'
  <2>1. NoJoins' = NoJoins
    BY <1>b DEF NoJoins
  <2>2. NoJoins => members' = members
    BY MembersStay
  <2> QED
    BY <1>a, <1>u, <2>1, <2>2 DEF SessionLevels, ScopeIsEveryone
<1>5. RaisedAsRead(s)'
  BY OthersRaised
<1> QED
  BY <1>1, <1>2, <1>3, <1>4, <1>5 DEF SessionLevels

(* The levels a transaction stages are those of what it reads.              *)
LEMMA ApplyRaised ==
  ASSUME LevelInv, NEW t \in Sessions, Apply(t), ~session[t].replay
  PROVE  RaisedAsRead(t)'
<1>u. /\ LedgerInv /\ WorkOK /\ FreshIsNew(t) /\ RaisedAsRead(t) /\ DOMAIN raised = Sessions
      /\ members \subseteq Members
  BY DEF LevelInv, OrderInv, LedgerInv, SessionInv, SessionLevels, WorkOK
<1>a. /\ session[t].pc = "prepared" /\ session'[t].pc = "applied" /\ ~session'[t].replay
      /\ UNCHANGED <<ledger, members, activations>> /\ Phase(t)' = Phase(t)
      /\ raised'[t] = Raised(t) /\ Active' = Active
  BY <1>u, Moved, PhaseOfState DEF Apply, books, config, Active
<1>b. StagedCommands(t)' = StagedCommands(t) \cup CommandSet(t)
  BY <1>u, AppliedIsStaged
<1>c. Visible(t)' = Visible(t) \cup CommandSet(t)
  BY <1>a, <1>b DEF Visible, StagedCommands, Booked
<1>d. /\ \A m : Touched(t, m)' <=> Touched(t, m) \/ \E c \in CommandSet(t) : c.member = m
      /\ Switches(t)' <=> /\ Phase(t).activates # <<>>
                          /\ Phase(t).activates[1].version # Active
      /\ ~Switches(t)
  BY <1>a, <1>b DEF Touched, Switches
<1>e. \A m \in Members :
        raised[t][m] = IF Active # 0 /\ Touched(t, m)
                       THEN ResolveLevel(Active, EarnedIn(Visible(t), m)) ELSE Untouched
  BY <1>d, <1>u DEF RaisedAsRead
<1> DEFINE targets == {a.version : a \in Range(Phase(t).activates)} \ {Active}
<1>f. \A m \in Members :
        raised'[t][m] = IF \E c \in CommandSet(t) : c.member = m THEN LevelAfter(t, m)
                        ELSE IF m \in session[t].scope /\ targets # {}
                             THEN ResolveLevel(Max(targets), EarnedIn(Visible(t), m))
                             ELSE raised[t][m]
  BY <1>a DEF Raised
<1>1. CASE Phase(t).activates # <<>> /\ Phase(t).activates[1].version # Active
  <2> DEFINE v == Phase(t).activates[1].version
  <2>1. /\ session[t].scope = members /\ CommandSet(t) = {} /\ v \in Nat
        /\ Phase(t).activates[1] \in Range(Phase(t).activates)
        /\ \A a \in Range(Phase(t).activates) : a = Phase(t).activates[1]
    BY <1>1, <1>a, Activating, OneElement DEF RowPhase
  <2>2. targets = {v}
    BY <1>1, <2>1
  <2>3. Max(targets) = v
    BY <2>1, <2>2 DEF Max
  <2> HIDE DEF targets
  <2>4. \A m \in members : raised'[t][m] = ResolveLevel(v, EarnedIn(Visible(t), m))
    BY <1>f, <1>u, <2>1, <2>2, <2>3
  <2>5. Visible(t)' = Visible(t) /\ Switches(t)'
    BY <1>1, <1>c, <1>d, <2>1
  <2> QED
    BY <1>a, <2>4, <2>5 DEF RaisedAsRead
<1>2. CASE ~(Phase(t).activates # <<>> /\ Phase(t).activates[1].version # Active)
  <2>1. targets = {}
    <3>1. CASE Phase(t).activates # <<>>
      BY <1>2, <1>a, <3>1, Activating DEF RowPhase
    <3>2. CASE Phase(t).activates = <<>>
      BY <3>2 DEF Range
    <3> QED
      BY <3>1, <3>2
  <2> HIDE DEF targets
  <2>2. ASSUME NEW m \in Members, ~\E c \in CommandSet(t) : c.member = m
        PROVE  EarnedIn(Visible(t)', m) = EarnedIn(Visible(t), m)
    <3>1. \A d \in CommandSet(t) : d.key # 0
      BY <1>a, <1>u, PhaseFacts DEF IsCommand
    <3>2. \A d \in CommandSet(t), c \in Visible(t) : c.key # d.key
      BY <1>a, <1>u DEF FreshIsNew, KeyPhase, Stored
    <3>3. \A c \in Visible(t) : HasSource(c, Visible(t))
      BY <1>u, VisibleHasSources
    <3> QED
      BY <2>2, <3>1, <3>2, <3>3, <1>c, EarnedSame
  <2>3. ASSUME NEW m \in Members
        PROVE  raised'[t][m] = IF Active # 0 /\ Touched(t, m)'
                               THEN ResolveLevel(Active, EarnedIn(Visible(t)', m))
                               ELSE Untouched
    <3>1. CASE \E c \in CommandSet(t) : c.member = m
      <4>1. raised'[t][m] = LevelAfter(t, m) /\ Touched(t, m)'
        BY <1>d, <1>f, <3>1
      <4> QED
        BY <4>1, <1>c, <1>e DEF LevelAfter
    <3>2. CASE ~\E c \in CommandSet(t) : c.member = m
      <4>1. raised'[t][m] = raised[t][m] /\ (Touched(t, m)' <=> Touched(t, m))
        BY <1>d, <1>f, <2>1, <3>2
      <4> QED
        BY <4>1, <1>e, <2>2, <3>2
    <3> QED
      BY <3>1, <3>2
  <2>4. ~Switches(t)'
    BY <1>2, <1>d
  <2> QED
    BY <1>a, <2>3, <2>4 DEF RaisedAsRead
<1> QED
  BY <1>1, <1>2

(* A transaction stages no levels before it books, and none when it ends.   *)
LEMMA OwnRaised ==
  ASSUME LevelInv, NEW t \in Sessions, StepOf(t)
  PROVE  RaisedAsRead(t)'
<1>u. /\ LedgerInv /\ WorkOK /\ RaisedAsRead(t) /\ DOMAIN raised = Sessions
      /\ DOMAIN staged = Sessions
  BY DEF LevelInv, OrderInv, LedgerInv, SessionLevels, WorkOK
<1>1. ASSUME EndTransaction(t) PROVE RaisedAsRead(t)'
  <2>1. session'[t].pc = "idle" /\ staged'[t] = <<>> /\ raised'[t] = NoRaise
    BY <1>1, <1>u DEF EndTransaction, Idle, WorkOK
  <2>2. ~Switches(t)' /\ \A m : ~Touched(t, m)'
    BY <2>1 DEF Switches, Touched, StagedCommands, Range
  <2>3. \A m \in Members : raised'[t][m] = Untouched
    BY <2>1 DEF NoRaise
  <2> QED
    BY <2>2, <2>3 DEF RaisedAsRead
<1>2. ASSUME UNCHANGED <<ledger, members, activations, staged, raised>>,
             ~Switches(t), ~Switches(t)'
      PROVE  RaisedAsRead(t)'
  <2>1. /\ Active' = Active /\ Visible(t)' = Visible(t)
        /\ \A m : Touched(t, m)' <=> Touched(t, m)
    BY <1>2 DEF Active, Visible, Booked, Touched, StagedCommands
  <2>2. \A m \in Members :
          raised[t][m] = IF Active # 0 /\ Touched(t, m)
                         THEN ResolveLevel(Active, EarnedIn(Visible(t), m)) ELSE Untouched
    BY <1>2, <1>u DEF RaisedAsRead
  <2> QED
    BY <1>2, <2>1, <2>2 DEF RaisedAsRead
<1>3. ASSUME (\E r \in asked : Begin(t, r)) \/ Resolve(t) \/ LockKey(t) \/ ReadStored(t)
               \/ LockMember(t) \/ Prepare(t)
      PROVE  RaisedAsRead(t)'
  <2>1. /\ session[t].pc # "applied" /\ session'[t].pc # "applied"
        /\ UNCHANGED <<ledger, members, activations, staged, raised>>
    <3>1. ASSUME NEW r \in asked, Begin(t, r)
          PROVE  /\ session[t].pc # "applied" /\ session'[t].pc # "applied"
                 /\ UNCHANGED <<ledger, members, activations, staged, raised>>
      BY <3>1, <1>u, Begun DEF books, config, work
    <3>2. CASE Resolve(t) \/ Prepare(t)
      BY <3>2, <1>u, Moved DEF Resolve, Prepare, books, config, work
    <3>3. CASE LockKey(t) \/ LockMember(t)
      BY <3>3 DEF LockKey, LockMember, books, config, work
    <3>4. CASE ReadStored(t)
      BY <3>4, <1>u DEF ReadStored, WorkOK, SessionStates, books, config, work
    <3> QED
      BY <1>3, <3>1, <3>2, <3>3, <3>4
  <2> QED
    BY <1>2, <2>1 DEF Switches
<1>4. ASSUME NextPhase(t) PROVE RaisedAsRead(t)'
  <2>1. /\ session[t].pc = "applied" /\ session'[t].pc = "resolve"
        /\ session[t].phase < Len(Phases[Request(t)]) /\ session[t].phase \in Nat
        /\ UNCHANGED <<ledger, members, activations, staged, raised>>
    BY <1>4, <1>u DEF NextPhase, WorkOK, SessionStates, books, config, work, Request
  <2>2. ~Switches(t)
    <3>1. SUFFICES ASSUME Phase(t).activates # <<>> PROVE FALSE
      BY DEF Switches
    <3>2. session[t].phase = Len(Phases[Request(t)])
      BY <2>1, <3>1, Activating DEF RowPhase
    <3> QED
      BY <2>1, <3>2
  <2> QED
    BY <1>2, <2>1, <2>2 DEF Switches
<1>5. ASSUME Apply(t), session[t].replay PROVE RaisedAsRead(t)'
  <2>1. /\ session[t].pc = "prepared" /\ session'[t].replay
        /\ UNCHANGED <<ledger, members, activations, staged, raised>>
    BY <1>5, <1>u, Moved DEF Apply, books, config, work
  <2> QED
    BY <1>2, <2>1 DEF Switches
<1> QED
  BY <1>1, <1>3, <1>4, <1>5, ApplyRaised DEF StepOf, Commit, Refuse, Abort

(* A transaction that has ended relies on nothing.                          *)
LEMMA EndedLevels ==
  ASSUME WorkOK, NEW t \in Sessions, EndTransaction(t)
  PROVE  /\ AsAsked(t)' /\ RepeatIsVisible(t)' /\ InsertedIsGranted(t)'
         /\ ScopeIsEveryone(t)'
<1>1. session'[t].pc = "idle"
  BY DEF EndTransaction, Idle, WorkOK
<1>2. \A m \in Members : rowLock'[m] # t
  BY LedgerAssumption DEF EndTransaction, WorkOK, Free
<1> QED
  BY <1>1, <1>2 DEF AsAsked, RepeatIsVisible, InsertedIsGranted, ScopeIsEveryone, KeyPhase

(* What a transaction knows of its batch when it has read what is stored.   *)
LEMMA ReadLevels ==
  ASSUME LevelInv, NEW t \in Sessions, ReadStored(t)
  PROVE  /\ AsAsked(t)' /\ RepeatIsVisible(t)' /\ InsertedIsGranted(t)'
         /\ ScopeIsEveryone(t)'
<1>u. LedgerInv /\ WorkOK /\ AsAsked(t) /\ InsertedIsGranted(t)
  BY DEF LevelInv, OrderInv, LedgerInv, SessionLevels
<1>a. /\ session[t].pc = "keys" /\ session'[t].pc = "members"
      /\ session'[t].request = session[t].request /\ session'[t].phase = session[t].phase
      /\ session'[t].scope = Scope(t)
      /\ UNCHANGED <<ledger, members, asked, staged, rowLock>>
  BY <1>u DEF ReadStored, WorkOK, SessionStates, books, config, work
<1>b. session'[t].replay = (\/ Stored(t) # {} \/ Phase(t).joins \cap members # {}
                            \/ Repeated(t))
  BY <1>u DEF ReadStored, WorkOK, SessionStates
<1>c. Phase(t)' = Phase(t) /\ CommandSet(t)' = CommandSet(t)
  BY <1>a, PhaseOfState
<1>1. RepeatIsVisible(t)'
  <2>1. SUFFICES ASSUME session'[t].replay, Commands(t) # <<>>
                 PROVE  CommandSet(t) \subseteq Visible(t)
    BY <1>a, <1>c DEF RepeatIsVisible, Visible, Booked, Commands
  <2>2. IsPhase(Phase(t))
    BY <1>a, <1>u, PhaseFacts
  <2>3. Phase(t).joins = {} /\ Phase(t).activates = <<>>
    BY <2>1, <2>2 DEF IsPhase, Commands
  <2>4. ~Repeated(t)
    BY <2>3 DEF Repeated, Range
  <2>5. Stored(t) # {}
    BY <1>b, <2>1, <2>3, <2>4
  <2> QED
    BY <2>5 DEF ReadStored, Consistent
<1>2. InsertedIsGranted(t)'
  <2>1. /\ NextJoin(t)' = NextJoin(t) /\ StagedCommands(t)' = StagedCommands(t)
        /\ Request(t)' = Request(t)
    BY <1>a DEF NextJoin, StagedCommands, Request
  <2> QED
    BY <1>a, <1>u, <2>1 DEF InsertedIsGranted
<1> QED
  BY <1>1, <1>2, <1>a, <1>c, <1>u DEF AsAsked, ScopeIsEveryone, Scope

(* Applying a phase: who is inserted is granted something later, and a      *)
(* grant that was due is staged.                                            *)
LEMMA ApplyLevels ==
  ASSUME LevelInv, NEW t \in Sessions, Apply(t)
  PROVE  /\ AsAsked(t)' /\ RepeatIsVisible(t)' /\ InsertedIsGranted(t)'
         /\ ScopeIsEveryone(t)'
<1>u. /\ LedgerInv /\ WorkOK /\ AsAsked(t) /\ RepeatIsVisible(t) /\ InsertedIsGranted(t)
      /\ ScopeIsEveryone(t) /\ BookedAreMembers
  BY DEF LevelInv, OrderInv, LedgerInv, SessionLevels
<1>a. /\ session[t].pc = "prepared" /\ session'[t].pc = "applied"
      /\ session'[t].request = session[t].request /\ session'[t].phase = session[t].phase
      /\ session'[t].replay = session[t].replay /\ session'[t].scope = session[t].scope
      /\ UNCHANGED <<ledger, members, asked>>
  BY <1>u, Moved DEF Apply, books, config
<1>b. StagedCommands(t)' = StagedCommands(t)
        \cup (IF session[t].replay THEN {} ELSE CommandSet(t))
  BY <1>u, AppliedIsStaged
<1>c. Phase(t)' = Phase(t) /\ CommandSet(t)' = CommandSet(t)
  BY <1>a, PhaseOfState
<1>d. Visible(t) \subseteq Visible(t)'
  BY <1>a, <1>b DEF Visible, Booked, StagedCommands
<1>1. AsAsked(t)' /\ ScopeIsEveryone(t)'
  <2>1. NoJoins' = NoJoins
    BY <1>a DEF NoJoins
  <2> QED
    BY <1>a, <1>c, <1>u, <2>1 DEF AsAsked, ScopeIsEveryone, KeyPhase
<1>2. RepeatIsVisible(t)'
  BY <1>a, <1>c, <1>d, <1>u DEF RepeatIsVisible, KeyPhase, Commands
<1>3. InsertedIsGranted(t)'
  <2> DEFINE r == Request(t)
             f == session[t].phase
             due(m, n) == \E j \in n..Len(Phases[r]) :
                            \E c \in Range(Phases[r][j].commands) : c.member = m
  <2>1. /\ NextJoin(t) = f /\ NextJoin(t)' = f + 1 /\ Request(t)' = r
        /\ f \in 1..Len(Phases[r]) /\ Phase(t) = Phases[r][f] /\ r \in Requests
        /\ f \in Nat /\ Len(Phases[r]) \in Nat
    <3>1. f \in 1..Len(Phases[r]) /\ r \in Requests
      BY <1>a, <1>u, PhaseFacts DEF Request
    <3>2. f \in Nat /\ Len(Phases[r]) \in Nat
      BY <3>1, LocksOfRequest
    <3> QED
      BY <1>a, <3>1, <3>2 DEF NextJoin, Phase, Request
  <2>2. SUFFICES ASSUME NEW m \in Members \ members, rowLock'[m] = t
                 PROVE  (\E c \in StagedCommands(t)' : c.member = m) \/ due(m, f + 1)
    BY <1>a, <2>1 DEF InsertedIsGranted
  <2>3. CASE ~session[t].replay /\ m \in Phase(t).joins
    <3>1. IsRequest(Phases[r])
      BY <2>1, LedgerAssumption
    <3>2. \E j \in (f + 1)..Len(Phases[r]) :
            \E c \in Range(Phases[r][j].commands) : c.member = m
      BY <2>1, <2>3, <3>1 DEF IsRequest
    <3> QED
      BY <3>2
  <2>4. CASE ~(~session[t].replay /\ m \in Phase(t).joins)
    <3>1. rowLock[m] = t
      BY <2>2, <2>4 DEF Apply
    <3>2. CASE \E c \in StagedCommands(t) : c.member = m
      BY <1>b, <3>2
    <3>3. ASSUME NEW j \in f..Len(Phases[r]), NEW c \in Range(Phases[r][j].commands),
                 c.member = m
          PROVE  (\E d \in StagedCommands(t)' : d.member = m) \/ due(m, f + 1)
      <4>1. CASE j # f
        <5>1. j \in (f + 1)..Len(Phases[r])
          BY <2>1, <4>1
        <5> QED
          BY <3>3, <5>1
      <4>2. CASE j = f
        <5>1. c \in CommandSet(t)
          BY <2>1, <3>3, <4>2 DEF CommandSet, Commands
        <5>2. CASE session[t].replay
          <6>1. Commands(t) # <<>>
            BY <5>1 DEF CommandSet, Range
          <6>2. c \in Visible(t)
            BY <1>a, <1>u, <5>1, <5>2, <6>1 DEF RepeatIsVisible, KeyPhase
          <6>3. c \notin Booked
            BY <1>u, <2>2, <3>3 DEF BookedAreMembers
          <6>4. c \in StagedCommands(t)
            BY <6>2, <6>3 DEF Visible, StagedCommands
          <6> QED
            BY <1>b, <3>3, <6>4
        <5>3. CASE ~session[t].replay
          BY <1>b, <3>3, <5>1, <5>3
        <5> QED
          BY <5>2, <5>3
      <4> QED
        BY <4>1, <4>2
    <3> HIDE DEF due
    <3>4. (\E c \in StagedCommands(t) : c.member = m) \/
          \E j \in f..Len(Phases[r]) : \E c \in Range(Phases[r][j].commands) : c.member = m
      BY <1>u, <2>1, <2>2, <3>1 DEF InsertedIsGranted
    <3> QED
      BY <3>2, <3>3, <3>4
  <2> QED
    BY <2>3, <2>4
<1> QED
  BY <1>1, <1>2, <1>3

(* The steps by which a transaction takes its locks, or turns to the next   *)
(* phase.                                                                   *)
LEMMA OwnLevels ==
  ASSUME LevelInv, NEW t \in Sessions, StepOf(t)
  PROVE  SessionLevels(t)'
<1>u. /\ LedgerInv /\ WorkOK /\ AsAsked(t) /\ RepeatIsVisible(t) /\ InsertedIsGranted(t)
      /\ ScopeIsEveryone(t) /\ HoldsRows(t)
  BY DEF LevelInv, OrderInv, LedgerInv, SessionLevels
<1> DEFINE Goal == /\ AsAsked(t)' /\ RepeatIsVisible(t)' /\ InsertedIsGranted(t)'
                   /\ ScopeIsEveryone(t)'
<1>1. ASSUME NEW r \in asked, Begin(t, r) PROVE Goal
  <2>1. /\ session[t].pc = "idle" /\ session'[t].pc = "resolve" /\ session'[t].request = r
        /\ UNCHANGED <<members, asked, rowLock>>
    BY <1>1, <1>u, Begun DEF books, config
  <2>2. \A m \in Members : rowLock'[m] # t
    BY <2>1, <1>u DEF HoldsRows
  <2> QED
    BY <2>1, <2>2 DEF AsAsked, RepeatIsVisible, InsertedIsGranted, ScopeIsEveryone, KeyPhase
<1>2. ASSUME Resolve(t) \/ LockKey(t) \/ LockMember(t) \/ Prepare(t) PROVE Goal
  <2>1. /\ session[t].pc \notin {"idle", "applied"} /\ session'[t].pc \notin {"idle", "applied"}
        /\ session'[t].request = session[t].request /\ session'[t].phase = session[t].phase
        /\ session'[t].replay = session[t].replay /\ session'[t].scope = session[t].scope
        /\ session'[t].pc \in KeyPhase => session[t].pc \in KeyPhase
        /\ UNCHANGED <<ledger, members, asked, staged>>
    <3>1. CASE Resolve(t) \/ Prepare(t)
      BY <3>1, <1>u, Moved DEF Resolve, Prepare, KeyPhase, books, config, work
    <3>2. CASE LockKey(t) \/ LockMember(t)
      BY <3>2 DEF LockKey, LockMember, books, config, work
    <3> QED
      BY <1>2, <3>1, <3>2
  <2>2. \A m \in Members \ members : rowLock'[m] = t => rowLock[m] = t
    <3>1. CASE LockMember(t)
      <4>1. NextRow(t) \in members
        BY <1>u, <3>1, WantedIsKnown DEF LockMember
      <4> QED
        BY <3>1, <4>1, <1>u DEF LockMember, WorkOK
    <3>2. CASE Resolve(t) \/ LockKey(t) \/ Prepare(t)
      BY <3>2 DEF Resolve, LockKey, Prepare
    <3> QED
      BY <1>2, <3>1, <3>2
  <2>3. /\ Phase(t)' = Phase(t) /\ CommandSet(t)' = CommandSet(t) /\ NextJoin(t)' = NextJoin(t)
        /\ Request(t)' = Request(t) /\ NoJoins' = NoJoins
        /\ Visible(t)' = Visible(t) /\ StagedCommands(t)' = StagedCommands(t)
    BY <2>1, PhaseOfState DEF NextJoin, Request, NoJoins, Visible, Booked, StagedCommands
  <2>4. RepeatIsVisible(t)'
    BY <1>u, <2>1, <2>3 DEF RepeatIsVisible, Commands
  <2>5. InsertedIsGranted(t)'
    BY <1>u, <2>1, <2>2, <2>3 DEF InsertedIsGranted
  <2> QED
    BY <1>u, <2>1, <2>3, <2>4, <2>5 DEF AsAsked, ScopeIsEveryone
<1>3. ASSUME NextPhase(t) PROVE Goal
  <2>1. /\ session[t].pc = "applied" /\ session'[t].pc = "resolve"
        /\ session'[t].request = session[t].request
        /\ session'[t].phase = session[t].phase + 1
        /\ UNCHANGED <<members, asked, staged, rowLock>>
    BY <1>3, <1>u DEF NextPhase, WorkOK, SessionStates, books, config, work
  <2>2. /\ NextJoin(t)' = NextJoin(t) /\ Request(t)' = Request(t)
        /\ StagedCommands(t)' = StagedCommands(t)
    BY <2>1 DEF NextJoin, Request, StagedCommands
  <2>3. InsertedIsGranted(t)'
    BY <1>u, <2>1, <2>2 DEF InsertedIsGranted
  <2> QED
    BY <1>u, <2>1, <2>3 DEF AsAsked, RepeatIsVisible, ScopeIsEveryone, KeyPhase
<1>4. ASSUME EndTransaction(t) PROVE Goal
  BY <1>4, <1>u, EndedLevels
<1>5. Goal
  BY <1>1, <1>2, <1>3, <1>4, ReadLevels, ApplyLevels DEF StepOf, Commit, Refuse, Abort
<1> QED
  BY <1>5, OwnRaised DEF SessionLevels

(* Rows are locked of members only, and booked for members only.            *)
LEMMA MembersLocked ==
  ASSUME LevelInv, NEW t \in Sessions, StepOf(t)
  PROVE  LockedAreMembers' /\ BookedAreMembers'
<1>u. /\ LedgerInv /\ WorkOK /\ LockedAreMembers /\ BookedAreMembers /\ StagedIsHeld(t)
      /\ AsAsked(t) /\ Members \ Newcomers \subseteq members
      /\ rowLock \in [Members -> Sessions \cup {Free}]
      /\ \A c \in AllCommands : c.member \in Members
  BY LedgerAssumption
     DEF LevelInv, OrderInv, LedgerInv, SessionInv, SessionLevels, WorkOK, IsCommand
<1>a. /\ members \subseteq members' /\ NoJoins' = NoJoins
      /\ Booked' \subseteq Booked \cup StagedCommands(t) /\ (~Commit(t) => Booked' = Booked)
  BY <1>u, BooksGrow DEF NoJoins
<1>1. LockedAreMembers'
  <2> SUFFICES ASSUME NoJoins, NEW m \in Members, rowLock'[m] # Free PROVE m \in members
    BY <1>a DEF LockedAreMembers
  <2>1. CASE rowLock[m] # Free
    BY <1>u, <2>1 DEF LockedAreMembers
  <2>2. CASE rowLock[m] = Free
    <3>1. CASE LockMember(t)
      <4>1. NextRow(t) \in members
        BY <1>u, <3>1, WantedIsKnown DEF LockMember
      <4>2. m = NextRow(t)
        BY <2>2, <3>1 DEF LockMember
      <4> QED
        BY <4>1, <4>2
    <3>2. CASE Apply(t)
      <4>1. m \in Phase(t).joins
        BY <2>2, <3>2 DEF Apply
      <4>2. Phase(t) \in Range(Phases[Request(t)]) /\ Request(t) \in asked
        <5>1. /\ session[t].pc # "idle" /\ Request(t) \in Requests
              /\ session[t].phase \in 1..Len(Phases[Request(t)])
              /\ Phase(t) = Phases[Request(t)][session[t].phase]
          BY <1>u, <3>2, PhaseFacts DEF Apply, Request, Phase
        <5>2. IsRequest(Phases[Request(t)])
          BY <5>1, LedgerAssumption
        <5> QED
          BY <1>u, <5>1, <5>2 DEF IsRequest, IsSeq, Range, AsAsked, Request
      <4> QED
        BY <4>1, <4>2 DEF NoJoins
    <3>3. CASE EndTransaction(t)
      BY <2>2, <3>3 DEF EndTransaction
    <3>4. CASE rowLock' = rowLock
      BY <2>2, <3>4
    <3> QED
      BY <3>1, <3>2, <3>3, <3>4
         DEF StepOf, Begin, Resolve, LockKey, ReadStored, Prepare, NextPhase, Commit,
             Refuse, Abort
  <2> QED
    BY <2>1, <2>2
<1>2. BookedAreMembers'
  <2> SUFFICES ASSUME NEW c \in Booked' PROVE c.member \in members'
    BY DEF BookedAreMembers
  <2>1. CASE c \in Booked
    BY <1>a, <1>u, <2>1 DEF BookedAreMembers
  <2>2. CASE c \notin Booked
    <3>1. Commit(t) /\ c \in StagedCommands(t)
      BY <1>a, <2>2
    <3>2. rowLock[c.member] = t /\ c.member \in Members
      BY <1>u, <3>1 DEF StagedIsHeld
    <3>3. members' = members \cup {m \in Newcomers : rowLock[m] = t}
      BY <3>1 DEF Commit
    <3> QED
      BY <1>u, <3>2, <3>3
  <2> QED
    BY <2>1, <2>2
<1> QED
  BY <1>1, <1>2

(* A commit leaves every member with the level of the active version.       *)
LEMMA CommitLevels ==
  ASSUME LevelInv, NEW t \in Sessions, Commit(t), Active' # 0, NEW m \in members'
  PROVE  levelled'[m] = ResolveLevel(Active, Earned(m))'
<1>u. /\ LedgerInv /\ WorkOK /\ StagedIsHeld(t) /\ BookedHaveSources /\ RaisedAsRead(t)
      /\ InsertedIsGranted(t) /\ LevelsAreCurrent /\ members \subseteq Members
  BY DEF LevelInv, OrderInv, LedgerInv, SessionInv, SessionLevels, WorkOK
<1>a. m \in Members /\ Booked' = Booked \cup StagedCommands(t) /\ Booked' = Visible(t)
  BY <1>u, BooksGrow DEF StepOf, Visible, StagedCommands
<1>b. levelled'[m] = IF raised[t][m] = Untouched THEN levelled[m] ELSE raised[t][m]
  BY <1>a DEF Commit
<1>c. Earned(m)' = EarnedIn(Visible(t), m)
  BY <1>a DEF Earned
<1>d. session[t].pc = "applied" /\ session[t].phase = Len(Phases[session[t].request])
  BY DEF Commit
<1>e. \A v, n : v # 0 => ResolveLevel(v, n) # Untouched
  BY DEF ResolveLevel, Untouched
<1>1. CASE Active' # Active
  <2>1. Switches(t) /\ Active' = Phase(t).activates[1].version
    BY <1>1, ActiveStays DEF StepOf
  <2>2. members' = members
    <3>1. NoJoins
      BY <2>1, Activating DEF Switches, RowPhase
    <3> QED
      BY <3>1, MembersStay DEF StepOf
  <2>3. raised[t][m] = ResolveLevel(Active', EarnedIn(Visible(t), m))
    BY <1>u, <2>1, <2>2 DEF RaisedAsRead
  <2> QED
    BY <1>b, <1>c, <1>e, <2>3 DEF ResolveLevel
<1>2. CASE Active' = Active
  <2>1. ~Switches(t)
    <3>1. SUFFICES ASSUME Switches(t) PROVE FALSE
      OBVIOUS
    <3>2. /\ IsSeq(Phase(t).activates) /\ Len(Phase(t).activates) = 1
          /\ activations' = activations \o Phase(t).activates /\ IsSeq(activations)
      BY <1>u, <3>1, Activating DEF Switches, RowPhase, Commit, WorkOK
    <3>3. Active' = Phase(t).activates[1].version
      BY <3>2, LastOfLonger DEF Active
    <3> QED
      BY <1>2, <3>1, <3>3 DEF Switches
  <2>2. raised[t][m] = IF Touched(t, m) THEN ResolveLevel(Active, EarnedIn(Visible(t), m))
                       ELSE Untouched
    BY <1>2, <1>a, <1>u, <2>1 DEF RaisedAsRead
  <2>3. CASE Touched(t, m)
    BY <1>2, <1>b, <1>c, <1>e, <2>2, <2>3 DEF ResolveLevel
  <2>4. CASE ~Touched(t, m)
    <3>1. m \in members
      <4>1. SUFFICES ASSUME m \notin members PROVE FALSE
        OBVIOUS
      <4>2. rowLock[m] = t
        BY <4>1, <1>a DEF Commit
      <4>3. Request(t) \in Requests /\ session[t].phase \in 1..Len(Phases[Request(t)])
        BY <1>d, <1>u, PhaseFacts DEF Request
      <4>4. Len(Phases[Request(t)]) \in Nat
        BY <4>3, LocksOfRequest
      <4>5. NextJoin(t)..Len(Phases[Request(t)]) = {}
        BY <1>d, <4>4 DEF NextJoin, Request
      <4> QED
        BY <1>a, <1>u, <2>4, <4>1, <4>2, <4>5 DEF InsertedIsGranted, Touched
    <3>2. Earned(m)' = Earned(m)
      <4>1. \A c \in Booked : HasSource(c, Booked)
        BY <1>u DEF BookedHaveSources
      <4>2. \A d \in Visible(t) \ Booked : /\ d.member # m /\ d.key # 0
                                           /\ \A c \in Booked : c.key # d.key
        BY <1>a, <1>u, <2>4, LedgerAssumption DEF Touched, StagedIsHeld, IsCommand, BookedKeys
      <4>3. Booked \subseteq Visible(t)
        BY <1>a
      <4> QED
        BY <1>c, <4>1, <4>2, <4>3, EarnedSame DEF Earned
    <3>3. levelled[m] = ResolveLevel(Active, Earned(m))
      BY <1>2, <1>u, <3>1 DEF LevelsAreCurrent
    <3> QED
      BY <1>2, <1>b, <2>2, <2>4, <3>2, <3>3 DEF ResolveLevel
  <2> QED
    BY <2>3, <2>4
<1> QED
  BY <1>1, <1>2

(* No step leaves a member with another level.                              *)
LEMMA CurrentStep ==
  ASSUME LevelInv, NEW t \in Sessions, StepOf(t)
  PROVE  LevelsAreCurrent'
<1>u. LevelsAreCurrent /\ WorkOK
  BY DEF LevelInv, OrderInv, LedgerInv
<1>1. CASE Commit(t)
  <2>1. Active' # 0 => \A m \in members' : levelled'[m] = ResolveLevel(Active, Earned(m))'
    BY <1>1, CommitLevels
  <2>2. \A m : ResolveLevel(Active, Earned(m))'.version = Active'
    BY DEF ResolveLevel
  <2> QED
    BY <2>1, <2>2 DEF LevelsAreCurrent, Stale
<1>2. CASE ~Commit(t)
  <2>1. UNCHANGED <<members, levelled, activations>>
    BY <1>2 DEF StepOf, Begin, Resolve, LockKey, ReadStored, LockMember, Prepare, Apply,
                NextPhase, Refuse, Abort, books, config
  <2>2. Booked' = Booked
    BY <1>2, <1>u, BooksGrow
  <2>3. Active' = Active /\ Stale' = Stale /\ \A m : Earned(m)' = Earned(m)
    BY <2>1, <2>2 DEF Active, Stale, Earned
  <2> QED
    BY <1>u, <2>1, <2>3 DEF LevelsAreCurrent, ResolveLevel
<1> QED
  BY <1>1, <1>2

(* Every step keeps the levels in order.                                    *)
LEMMA LevelStep == LevelInv /\ [Next]_vars => LevelInv'
<1> SUFFICES ASSUME LevelInv, [Next]_vars PROVE LevelInv'
  OBVIOUS
<1>u. OrderInv /\ WorkOK /\ (NoJoins \/ NoActivations) /\ DOMAIN raised = Sessions
  BY DEF LevelInv, OrderInv, LedgerInv
<1>1. OrderInv'
  BY <1>u, OrderStep
<1>2. ASSUME NEW t \in Sessions, StepOf(t) PROVE LevelInv'
  <2>1. (NoJoins \/ NoActivations)'
    BY <1>2, <1>u, BooksGrow DEF NoJoins, NoActivations
  <2>2. (DOMAIN raised = Sessions)'
    <3>1. ASSUME EndTransaction(t) PROVE DOMAIN raised' = Sessions
      BY <3>1, <1>u DEF EndTransaction
    <3>2. CASE Apply(t)
      BY <3>2, <1>u DEF Apply, work
    <3>3. CASE UNCHANGED raised
      BY <3>3, <1>u
    <3> QED
      BY <1>2, <3>1, <3>2, <3>3
         DEF StepOf, Begin, Resolve, LockKey, ReadStored, LockMember, Prepare, NextPhase,
             Commit, Refuse, Abort, work
  <2>3. LockedAreMembers' /\ BookedAreMembers' /\ LevelsAreCurrent'
    BY <1>2, MembersLocked, CurrentStep
  <2>4. \A s \in Sessions : SessionLevels(s)'
    BY <1>2, OthersLevels, OwnLevels
  <2> QED
    BY <1>1, <2>1, <2>2, <2>3, <2>4 DEF LevelInv
<1>3. ASSUME (\E m \in Members : ChangeStatus(m)) \/ UNCHANGED vars
      PROVE  LevelInv'
  <2>1. UNCHANGED <<books, session, staged, raised, keyLock, rowLock>>
    BY <1>3 DEF ChangeStatus, vars, work
  <2>2. UNCHANGED <<ledger, members, activations, levelled, asked>>
    BY <2>1 DEF books, config
  <2>3. /\ Booked' = Booked /\ Active' = Active /\ Stale' = Stale
        /\ NoJoins' = NoJoins /\ NoActivations' = NoActivations
        /\ \A m : Earned(m)' = Earned(m)
    BY <2>2 DEF Booked, Active, Stale, NoJoins, NoActivations, Earned
  <2>4. LockedAreMembers' /\ BookedAreMembers' /\ LevelsAreCurrent'
    BY <2>1, <2>2, <2>3
       DEF LevelInv, LockedAreMembers, BookedAreMembers, LevelsAreCurrent, ResolveLevel
  <2>5. ASSUME NEW s \in Sessions PROVE SessionLevels(s)'
    <3>1. SessionLevels(s)
      BY DEF LevelInv
    <3>2. /\ Phase(s)' = Phase(s) /\ CommandSet(s)' = CommandSet(s)
          /\ StagedCommands(s)' = StagedCommands(s) /\ NextJoin(s)' = NextJoin(s)
          /\ Visible(s)' = Visible(s) /\ Request(s)' = Request(s)
      BY <2>1, <2>3, SamePhase DEF StagedCommands, Visible, Request
    <3>3. AsAsked(s)' /\ RepeatIsVisible(s)' /\ InsertedIsGranted(s)' /\ ScopeIsEveryone(s)'
      BY <2>1, <2>2, <2>3, <3>1, <3>2
         DEF SessionLevels, AsAsked, RepeatIsVisible, InsertedIsGranted, ScopeIsEveryone,
             Commands
    <3>4. (Switches(s)' <=> Switches(s)) /\ \A m : Touched(s, m)' <=> Touched(s, m)
      BY <2>1, <2>3, <3>2 DEF Switches, Touched
    <3>5. RaisedAsRead(s)'
      BY <2>1, <2>2, <2>3, <3>1, <3>2, <3>4 DEF SessionLevels, RaisedAsRead
    <3> QED
      BY <3>3, <3>5 DEF SessionLevels
  <2> QED
    BY <1>1, <1>u, <2>1, <2>3, <2>4, <2>5 DEF LevelInv
<1> QED
  BY <1>2, <1>3 DEF Next, StepOf

(* It holds at first.                                                       *)
LEMMA LevelInit == JoinsApart /\ Init => LevelInv
<1> SUFFICES ASSUME JoinsApart, Init PROVE LevelInv
  OBVIOUS
<1>1. NoJoins \/ NoActivations
  <2>1. PICK x \in Mixes : asked = x.asked
    BY DEF Init
  <2> QED
    BY <2>1 DEF JoinsApart, NoJoins, NoActivations
<1>2. /\ members = Members \ Newcomers /\ DOMAIN raised = Sessions
      /\ \A m \in Members : rowLock[m] = Free
  BY DEF Init
<1>3. Booked = Range(Opening)
  BY OpeningIsBooked
<1>4. LockedAreMembers /\ BookedAreMembers
  <2>1. \A c \in Range(Opening) : c.member \in Members /\ c.member \notin Newcomers
    BY LedgerAssumption DEF AllCommands, IsCommand
  <2> QED
    BY <1>2, <1>3, <2>1 DEF LockedAreMembers, BookedAreMembers
<1>5. ASSUME NEW s \in Sessions PROVE SessionLevels(s)
  <2>1. session[s].pc = "idle" /\ staged[s] = <<>> /\ raised[s] = NoRaise /\ s # Free
    BY LedgerAssumption DEF Init, Idle, Free
  <2>2. ~Switches(s) /\ \A m : ~Touched(s, m)
    BY <2>1 DEF Switches, Touched, StagedCommands, Range
  <2>3. RaisedAsRead(s)
    BY <2>1, <2>2 DEF RaisedAsRead, NoRaise
  <2> QED
    BY <1>2, <2>1, <2>3
       DEF SessionLevels, AsAsked, RepeatIsVisible, InsertedIsGranted, ScopeIsEveryone, KeyPhase
<1>6. LevelsAreCurrent
  <2>1. \A m \in members : Active # 0 => levelled[m] = ResolveLevel(Active, Earned(m))
    BY <1>2, <1>3 DEF Init, Earned
  <2>2. \A m : ResolveLevel(Active, Earned(m)).version = Active
    BY DEF ResolveLevel
  <2> QED
    BY <2>1, <2>2 DEF LevelsAreCurrent, Stale
<1> QED
  BY <1>1, <1>2, <1>4, <1>5, <1>6, OrderInit DEF LevelInv

(* Where members are not registered and versions not activated at the same  *)
(* time, every member always has the level that the active version gives    *)
(* for the experience in the ledger.                                        *)
THEOREM CurrentLevels ==
  ASSUME JoinsApart
  PROVE  Spec => []LevelsAreCurrent
<1>1. Init => LevelInv
  BY LevelInit
<1>2. LevelInv => LevelsAreCurrent
  BY DEF LevelInv
<1> QED
  BY <1>1, <1>2, LevelStep, PTL DEF Spec
=============================================================================
