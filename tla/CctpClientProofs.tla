--------------------------- MODULE CctpClientProofs ---------------------------
(***************************************************************************)
(* What the deposit form says is true, and says it in order, for any       *)
(* number of transfers, polls and departures from the form, over any       *)
(* server that keeps CctpLifecycle.                                        *)
(*                                                                         *)
(* The invariant is about the calls that can still set a phase: on the     *)
(* mount that is on the screen there is one at most, it is the transfer    *)
(* shown, and the phase is the one its await belongs to. That polls end    *)
(* rests on a count of the steps a poll has left.                          *)
(***************************************************************************)
EXTENDS CctpClient, TLAPS

Final == {"minted", "vault_deposited"}

\* Call b, standing at q.
CallOK(b, q) ==
    /\ q.visit <= visit
    /\ q.poll # "over" => q.attempts <= MaxPolls
    /\ q.poll # "none" => q.awaits \in {"done", "gone"}
    /\ q.seen \in Final => status[b] \in Final
    /\ q.visit = visit /\ q.awaits = "approval" => shown = b /\ phase = "approving"
    /\ q.visit = visit /\ q.awaits \in {"wallet", "receipt"} =>
         shown = b /\ phase = "burning"
    /\ q.visit = visit /\ (q.awaits = "post" \/ q.poll \in {"timer", "get", "answer"}) =>
         shown = b /\ phase = "relaying"

CallInv == \A b \in Burns: CallOK(b, calls[b])

\* Minted only what Arbitrum has received, as the lifecycle has it.
ServerInv == \A b \in Burns: status[b] \in Final => b \in received

Inv == TypeOK /\ CallInv /\ ServerInv /\ MintedIsOurs

LEMMA InitInv == Init => Inv
<1> SUFFICES ASSUME Init PROVE Inv
  OBVIOUS
<1> DEFINE first == [visit |-> 0, awaits |-> "new", posted |-> FALSE,
                     poll |-> "none", attempts |-> 0, seen |-> "none"]
<1>1. first \in Calls
  BY ClientAssumption DEF Calls, Awaits, Polls, Server!Statuses
<1>2. first.visit = 0 /\ first.awaits = "new" /\ first.poll = "none"
      /\ first.attempts = 0 /\ first.seen = "none"
  OBVIOUS
<1>3. /\ status = [b \in Burns |-> "none"] /\ burnTx = [b \in Burns |-> "none"]
      /\ received = {} /\ visit = 0 /\ phase = "idle" /\ shown = NoBurn
      /\ calls = [b \in Burns |-> first]
  BY DEF Init
<1> HIDE DEF first
<1>4. TypeOK
  <2>1. visit \in 0..MaxVisits
    BY <1>3, ClientAssumption
  <2> QED
    BY <1>1, <1>3, <2>1 DEF TypeOK, Phases, Server!Statuses
<1>5. CallInv
  <2> SUFFICES ASSUME NEW b \in Burns PROVE CallOK(b, first)
    BY <1>3 DEF CallInv
  <2>1. 0 <= visit /\ 0 <= MaxPolls
    BY <1>3, ClientAssumption
  <2> QED
    BY <1>2, <2>1 DEF CallOK, Final
<1>6. ServerInv /\ MintedIsOurs
  BY DEF Init, ServerInv, MintedIsOurs, Final
<1> QED
  BY <1>4, <1>5, <1>6 DEF Inv

----------------------------------------------------------------------------
(* The page *)

\* One call goes on. If it sets the phase, it is the one whose phase it is.
LEMMA Change ==
  ASSUME Inv, NEW b \in Burns, NEW new \in Calls,
         calls' = [calls EXCEPT ![b] = new],
         UNCHANGED <<server, visit>>,
         burnTx' \in [Burns -> {"none", "pending", "mined", "reverted"}],
         phase' \in Phases, shown' \in Burns \cup {NoBurn},
         \A c \in Burns: c # b => CallOK(c, calls[c])',
         CallOK(b, new)', MintedIsOurs'
  PROVE  Inv'
<1>1. \A c \in Burns: calls'[c] = IF c = b THEN new ELSE calls[c]
  BY DEF Inv, TypeOK
<1>2. TypeOK'
  BY DEF Inv, TypeOK, server
<1>3. CallOK(b, calls[b])'
  BY <1>1 DEF CallOK
<1>4. CallInv'
  BY <1>3 DEF CallInv
<1>5. ServerInv'
  BY DEF Inv, ServerInv, server
<1> QED
  BY <1>2, <1>4, <1>5 DEF Inv

\* The other calls, while the form stays and shows what it showed.
LEMMA Others ==
  ASSUME Inv, NEW b \in Burns, NEW new, calls' = [calls EXCEPT ![b] = new],
         UNCHANGED <<server, visit, shown>>,
         \/ phase' = phase
         \/ calls[b].visit = visit /\ shown = b
  PROVE  \A c \in Burns: c # b => CallOK(c, calls[c])'
<1> SUFFICES ASSUME NEW c \in Burns, c # b PROVE CallOK(c, calls[c])'
  OBVIOUS
<1>1. calls'[c] = calls[c] /\ CallOK(c, calls[c])
  BY DEF Inv, TypeOK, CallInv
<1> QED
  BY <1>1 DEF CallOK, server

\* A step of burn() or of the poll that sets a phase, or none.
LEMMA Stepping ==
  ASSUME Inv, NEW b \in Burns, NEW new \in Calls,
         calls' = [calls EXCEPT ![b] = new],
         UNCHANGED <<server, visit, shown>>,
         burnTx' \in [Burns -> {"none", "pending", "mined", "reverted"}],
         new.visit = calls[b].visit,
         NEW p \in Phases,
         \/ phase' = phase
         \/ SetPhase(b, p) /\ (calls[b].visit = visit => shown = b),
         p \in Final /\ shown = b => b \in received /\ status[b] \in Final,
         CallOK(b, new)'
  PROVE  Inv'
<1>1. phase' = phase \/ (phase' = p /\ calls[b].visit = visit /\ shown = b)
  BY DEF SetPhase
<1>2. phase' \in Phases
  BY <1>1 DEF Inv, TypeOK
<1>3. \A c \in Burns: c # b => CallOK(c, calls[c])'
  BY <1>1, Others
<1>4. MintedIsOurs'
  BY <1>1, ClientAssumption DEF Inv, MintedIsOurs, server, Final
<1>5. shown' \in Burns \cup {NoBurn}
  BY DEF Inv, TypeOK
<1> QED
  BY <1>2, <1>3, <1>4, <1>5, Change

\* The button: no call of this mount is under way, for the form is shown.
LEMMA TransferStep ==
  ASSUME Inv, NEW b \in Burns, Transfer(b)
  PROVE  Inv'
<1>1. PICK new: new = [calls[b] EXCEPT !.visit = visit, !.awaits = "approval"]
  OBVIOUS
<1>2. /\ calls' = [calls EXCEPT ![b] = new] /\ calls[b].awaits = "new"
      /\ phase' = "approving" /\ shown' = b /\ UNCHANGED <<server, burnTx, visit>>
  BY <1>1 DEF Transfer
<1>3. calls[b] \in Calls /\ CallOK(b, calls[b]) /\ visit \in 0..MaxVisits
  BY DEF Inv, TypeOK, CallInv
<1>4. /\ new \in Calls /\ new.visit = visit /\ new.awaits = "approval"
      /\ new.poll = calls[b].poll /\ new.attempts = calls[b].attempts
      /\ new.seen = calls[b].seen
  BY <1>1, <1>3 DEF Calls, Awaits
<1>5. CallOK(b, new)'
  BY <1>2, <1>3, <1>4, ClientAssumption DEF CallOK, server
<1>6. ASSUME NEW c \in Burns, c # b PROVE CallOK(c, calls[c])'
  <2>1. calls'[c] = calls[c] /\ CallOK(c, calls[c]) /\ phase \in {"idle", "vault_deposited"}
    BY <1>2, <1>6 DEF Inv, TypeOK, CallInv, Transfer, FormShown
  <2> QED
    BY <1>2, <2>1 DEF CallOK, server
<1>7. MintedIsOurs' /\ phase' \in Phases /\ shown' \in Burns \cup {NoBurn}
      /\ burnTx' \in [Burns -> {"none", "pending", "mined", "reverted"}]
  BY <1>2 DEF Inv, TypeOK, MintedIsOurs, Phases
<1> QED
  BY <1>2, <1>4, <1>5, <1>6, <1>7, Change

\* The awaits of burn() after the first.
LEMMA AwaitStep ==
  ASSUME Inv, NEW b \in Burns,
         Approve(b) \/ Broadcast(b) \/ Confirm(b) \/ AnsweredNoId(b) \/ Throw(b)
  PROVE  Inv'
<1>1. PICK awaits \in Awaits, posted \in BOOLEAN, p \in Phases:
        /\ calls' = [calls EXCEPT ![b] =
                       [calls[b] EXCEPT !.awaits = awaits, !.posted = posted]]
        /\ \/ /\ calls[b].awaits = "approval" /\ awaits = "wallet" /\ p = "burning"
              /\ SetPhase(b, p)
           \/ /\ calls[b].awaits = "wallet" /\ awaits = "receipt" /\ phase' = phase
              /\ p = "failed"
           \/ /\ calls[b].awaits = "receipt" /\ awaits = "post" /\ p = "relaying"
              /\ SetPhase(b, p)
           \/ /\ calls[b].awaits = "post" /\ awaits = "done" /\ phase' = phase
              /\ p = "failed"
           \/ /\ calls[b].awaits \in {"approval", "wallet", "receipt", "post"}
              /\ awaits = "done" /\ p = "failed" /\ SetPhase(b, p)
  <2>1. calls[b] \in Calls
    BY DEF Inv, TypeOK
  <2>2. ASSUME NEW a \in Awaits
        PROVE  [calls[b] EXCEPT !.awaits = a]
               = [calls[b] EXCEPT !.awaits = a, !.posted = calls[b].posted]
    BY <2>1 DEF Calls
  <2>3. calls[b].posted \in BOOLEAN
    BY <2>1 DEF Calls
  <2>4. ASSUME NEW a \in Awaits, Goto(b, a)
        PROVE  calls' = [calls EXCEPT ![b] =
                           [calls[b] EXCEPT !.awaits = a, !.posted = calls[b].posted]]
    BY <2>2, <2>4 DEF Goto
  <2>5. CASE Confirm(b)
    BY <2>5 DEF Confirm, Awaits, Phases
  <2>6. CASE Approve(b)
    BY <2>3, <2>4, <2>6 DEF Approve, Awaits, Phases
  <2>7. CASE Broadcast(b)
    BY <2>3, <2>4, <2>7 DEF Broadcast, Awaits, Phases
  <2>8. CASE AnsweredNoId(b)
    BY <2>3, <2>4, <2>8 DEF AnsweredNoId, Awaits, Phases
  <2>9. CASE Throw(b)
    BY <2>3, <2>4, <2>9 DEF Throw, Awaits, Phases
  <2> QED
    BY <2>5, <2>6, <2>7, <2>8, <2>9
<1>2. PICK new: new = [calls[b] EXCEPT !.awaits = awaits, !.posted = posted]
  OBVIOUS
<1>3. calls[b] \in Calls /\ CallOK(b, calls[b])
  BY DEF Inv, TypeOK, CallInv
<1>4. /\ new \in Calls /\ new.visit = calls[b].visit /\ new.awaits = awaits
      /\ new.poll = calls[b].poll /\ new.attempts = calls[b].attempts
      /\ new.seen = calls[b].seen
  BY <1>2, <1>3 DEF Calls
<1>5. calls' = [calls EXCEPT ![b] = new] /\ UNCHANGED <<server, visit, shown>>
  BY <1>1, <1>2 DEF Approve, Broadcast, Confirm, AnsweredNoId, Throw
<1>6. burnTx' \in [Burns -> {"none", "pending", "mined", "reverted"}]
  BY DEF Inv, TypeOK, Approve, Broadcast, Confirm, AnsweredNoId, Throw
<1>7. calls[b].poll = "none" /\ p \notin Final
      /\ (calls[b].visit = visit => shown = b)
  BY <1>1, <1>3 DEF CallOK, Final
<1>8. CallOK(b, new)'
  BY <1>1, <1>3, <1>4, <1>5, <1>7 DEF CallOK, SetPhase, server
<1> QED
  BY <1>1, <1>4, <1>5, <1>6, <1>7, <1>8, Stepping

\* The POST's answer, and the poll it begins.
LEMMA PollStep ==
  ASSUME Inv, NEW b \in Burns, Answered(b) \/ Poll(b)
  PROVE  Inv'
<1>1. calls[b] \in Calls /\ CallOK(b, calls[b])
  BY DEF Inv, TypeOK, CallInv
<1>2. PICK new: new = calls'[b]
  OBVIOUS
<1>3. /\ calls' = [calls EXCEPT ![b] = new]
      /\ UNCHANGED <<server, visit, shown, burnTx>>
  <2>1. calls \in [Burns -> Calls]
    BY DEF Inv, TypeOK
  <2> QED
    BY <1>2, <2>1 DEF Answered, Poll, Tick, TimeOut, Get, GetFails, StillWorking, Settled,
       SetPoll
<1>4. PICK p \in Phases:
        /\ new \in Calls /\ new.visit = calls[b].visit
        /\ \/ /\ calls[b].awaits = "post" /\ new.awaits = "done"
              /\ calls[b].poll = "none" => new.poll = "timer"
              /\ phase' = phase /\ p = "failed"
              /\ new.seen = calls[b].seen /\ new.attempts = calls[b].attempts
           \/ /\ calls[b].poll \in {"timer", "get", "answer"}
              /\ new.awaits = calls[b].awaits
              /\ \/ /\ new.poll \in {"timer", "get", "answer"}
                    /\ phase' = phase /\ p = "failed"
                    /\ new.attempts <= MaxPolls
                    /\ new.seen \in Final => status[b] \in Final
                 \/ /\ new.poll = "over" /\ SetPhase(b, p)
                    /\ p \in Final => status[b] \in Final
                    /\ new.seen \in Final => status[b] \in Final
  <2>1. calls \in [Burns -> Calls] /\ MaxPolls \in Nat /\ status[b] \in Server!Statuses
        /\ "failed" \in Phases /\ "none" \notin Final /\ "failed" \notin Final
    BY ClientAssumption DEF Inv, TypeOK, Phases, Final
  <2>2. CASE Answered(b)
    <3>1. new = [calls[b] EXCEPT !.awaits = "done", !.poll = "timer"]
      BY <1>2, <2>1, <2>2 DEF Answered
    <3>2. /\ new \in Calls /\ new.visit = calls[b].visit /\ new.awaits = "done"
          /\ new.poll = "timer" /\ new.seen = calls[b].seen
          /\ new.attempts = calls[b].attempts
      BY <1>1, <3>1 DEF Calls, Awaits, Polls
    <3> QED
      BY <2>1, <2>2, <3>2 DEF Answered
  <2>3. CASE Tick(b)
    <3>1. new = [calls[b] EXCEPT !.poll = "get", !.attempts = calls[b].attempts + 1]
      BY <1>2, <2>1, <2>3 DEF Tick
    <3>2. calls[b].attempts + 1 \in 0..MaxPolls
          /\ calls[b].attempts + 1 \in 0..MaxPolls + 1
      BY <1>1, <2>1, <2>3 DEF Tick, Calls
    <3>3. /\ new \in Calls /\ new.visit = calls[b].visit /\ new.awaits = calls[b].awaits
          /\ new.poll = "get" /\ new.seen = calls[b].seen
          /\ new.attempts = calls[b].attempts + 1
      BY <1>1, <2>1, <3>1, <3>2 DEF Calls, Polls
    <3>4. new.attempts <= MaxPolls
      BY <2>1, <3>2, <3>3
    <3> QED
      BY <1>1, <2>1, <2>3, <3>3, <3>4 DEF Tick, CallOK
  <2>4. CASE TimeOut(b)
    <3>1. new = [calls[b] EXCEPT !.poll = "over", !.attempts = calls[b].attempts + 1]
      BY <1>2, <2>1, <2>4 DEF TimeOut
    <3>2. calls[b].attempts + 1 \in 0..MaxPolls + 1
      BY <1>1, <2>1, <2>4 DEF TimeOut, Calls, CallOK
    <3>3. /\ new \in Calls /\ new.visit = calls[b].visit /\ new.awaits = calls[b].awaits
          /\ new.poll = "over" /\ new.seen = calls[b].seen
      BY <1>1, <2>1, <3>1, <3>2 DEF Calls, Polls
    <3> QED
      BY <1>1, <2>1, <2>4, <3>3 DEF TimeOut, CallOK
  <2>5. CASE Get(b)
    <3>1. new = [calls[b] EXCEPT !.poll = "answer", !.seen = status[b]]
      BY <1>2, <2>1, <2>5 DEF Get
    <3>2. /\ new \in Calls /\ new.visit = calls[b].visit /\ new.awaits = calls[b].awaits
          /\ new.poll = "answer" /\ new.seen = status[b]
          /\ new.attempts = calls[b].attempts
      BY <1>1, <2>1, <3>1 DEF Calls, Polls
    <3> QED
      BY <1>1, <2>1, <2>5, <3>2 DEF Get, CallOK
  <2>6. CASE GetFails(b) \/ StillWorking(b)
    <3>1. new = [calls[b] EXCEPT !.poll = "timer", !.seen = "none"]
      BY <1>2, <2>1, <2>6 DEF GetFails, StillWorking, SetPoll
    <3>2. /\ new \in Calls /\ new.visit = calls[b].visit /\ new.awaits = calls[b].awaits
          /\ new.poll = "timer" /\ new.seen = "none"
          /\ new.attempts = calls[b].attempts
      BY <1>1, <2>1, <3>1 DEF Calls, Polls, Server!Statuses
    <3> QED
      BY <1>1, <2>1, <2>6, <3>2 DEF GetFails, StillWorking, CallOK
  <2>7. CASE Settled(b)
    <3>1. new = [calls[b] EXCEPT !.poll = "over", !.seen = "none"]
      BY <1>2, <2>1, <2>7 DEF Settled, SetPoll
    <3>2. /\ new \in Calls /\ new.visit = calls[b].visit /\ new.awaits = calls[b].awaits
          /\ new.poll = "over" /\ new.seen = "none"
      BY <1>1, <2>1, <3>1 DEF Calls, Polls, Server!Statuses
    <3>3. calls[b].seen \in Phases
      BY <2>7 DEF Settled, Phases
    <3> QED
      BY <1>1, <2>1, <2>7, <3>2, <3>3 DEF Settled, CallOK
  <2> QED
    BY <2>2, <2>3, <2>4, <2>5, <2>6, <2>7 DEF Poll
<1>5. calls[b].visit = visit => shown = b /\ phase = "relaying"
  BY <1>1, <1>4 DEF CallOK
<1>6. calls[b].awaits = "post" => calls[b].poll = "none"
  BY <1>1 DEF CallOK
<1>7. CallOK(b, new)'
  BY <1>1, <1>3, <1>4, <1>5, <1>6 DEF CallOK, SetPhase, server
<1>8. phase' = phase \/ (SetPhase(b, p) /\ (calls[b].visit = visit => shown = b))
  BY <1>4, <1>5
<1>9. p \in Final /\ shown = b => b \in received /\ status[b] \in Final
  BY <1>4 DEF Inv, ServerInv, Final
<1>10. burnTx' \in [Burns -> {"none", "pending", "mined", "reverted"}]
       /\ UNCHANGED <<server, visit, shown>>
  BY <1>3 DEF Inv, TypeOK
<1> QED
  BY <1>3, <1>4, <1>7, <1>8, <1>9, <1>10, Stepping

\* Nothing of this mount is under way when the phase is failed.
LEMMA TryAgainStep ==
  ASSUME Inv, TryAgain
  PROVE  Inv'
<1>1. TypeOK' /\ ServerInv' /\ MintedIsOurs'
  BY DEF Inv, TypeOK, ServerInv, MintedIsOurs, TryAgain, server, Phases
<1>2. ASSUME NEW b \in Burns PROVE CallOK(b, calls[b])'
  <2>1. CallOK(b, calls[b])
    BY DEF Inv, CallInv
  <2> QED
    BY <2>1 DEF CallOK, TryAgain, server
<1> QED
  BY <1>1, <1>2 DEF Inv, CallInv

\* All that is under way belongs to an earlier mount from now on.
LEMMA LeaveStep ==
  ASSUME Inv, LeaveForm \/ ClosePage
  PROVE  Inv'
<1>1. /\ visit < MaxVisits /\ visit' = visit + 1 /\ phase' = "idle" /\ shown' = NoBurn
      /\ UNCHANGED <<server, burnTx>>
  BY DEF LeaveForm, ClosePage
<1>2. \A b \in Burns:
        /\ calls'[b] \in Calls
        /\ calls'[b].visit = calls[b].visit
        /\ calls'[b].attempts = calls[b].attempts
        /\ calls'[b].seen \in {"none", calls[b].seen}
        /\ calls'[b].awaits \in {"gone", calls[b].awaits}
        /\ \/ calls'[b].poll = calls[b].poll /\ calls'[b].awaits = calls[b].awaits
           \/ /\ calls'[b].awaits = "gone"
              /\ calls'[b].poll = IF calls[b].poll = "none" THEN "none" ELSE "over"
  <2>1. CASE LeaveForm
    BY <2>1 DEF LeaveForm, Inv, TypeOK
  <2>2. CASE ClosePage
    <3> DEFINE next(b) == IF calls[b].awaits = "new" THEN calls[b]
                          ELSE [calls[b] EXCEPT !.awaits = "gone", !.seen = "none",
                                  !.poll = IF calls[b].poll = "none" THEN "none" ELSE "over"]
    <3>1. \A b \in Burns: calls'[b] = next(b)
      BY <2>2 DEF ClosePage
    <3>2. ASSUME NEW b \in Burns
          PROVE  /\ next(b) \in Calls
                 /\ next(b).visit = calls[b].visit
                 /\ next(b).attempts = calls[b].attempts
                 /\ next(b).seen \in {"none", calls[b].seen}
                 /\ next(b).awaits \in {"gone", calls[b].awaits}
                 /\ \/ next(b) = calls[b]
                    \/ /\ next(b).awaits = "gone"
                       /\ next(b).poll = IF calls[b].poll = "none" THEN "none" ELSE "over"
      <4>1. calls[b] \in Calls
        BY DEF Inv, TypeOK
      <4> QED
        BY <4>1 DEF Calls, Awaits, Polls, Server!Statuses
    <3> HIDE DEF next
    <3> QED
      BY <3>1, <3>2
  <2> QED
    BY <2>1, <2>2
<1>3. calls' \in [Burns -> Calls]
  <2>1. calls' = [b \in Burns |-> calls'[b]]
    BY DEF LeaveForm, ClosePage, Inv, TypeOK
  <2> QED
    BY <1>2, <2>1
<1>4. visit' \in 0..MaxVisits
  BY <1>1, ClientAssumption DEF Inv, TypeOK
<1>5. TypeOK'
  BY <1>1, <1>3, <1>4 DEF Inv, TypeOK, server, Phases
<1>6. ASSUME NEW b \in Burns PROVE CallOK(b, calls[b])'
  <2>1. CallOK(b, calls[b]) /\ calls[b] \in Calls
    BY DEF Inv, TypeOK, CallInv
  <2>2. calls[b].visit \in Int /\ visit \in Int
    BY <2>1, ClientAssumption DEF Calls, Inv, TypeOK
  <2>3. calls'[b].visit <= visit' /\ calls'[b].visit # visit'
    BY <1>1, <1>2, <2>1, <2>2 DEF CallOK
  <2>4. /\ calls'[b].poll # "over" => calls'[b].attempts <= MaxPolls
        /\ calls'[b].poll # "none" => calls'[b].awaits \in {"done", "gone"}
    BY <1>2, <2>1 DEF CallOK
  <2>5. calls'[b].seen \in Final => status'[b] \in Final
    BY <1>1, <1>2, <2>1 DEF CallOK, server, Final
  <2> QED
    BY <2>3, <2>4, <2>5 DEF CallOK
<1>7. ServerInv' /\ MintedIsOurs'
  BY <1>1 DEF Inv, ServerInv, MintedIsOurs, server
<1> QED
  BY <1>5, <1>6, <1>7 DEF Inv, CallInv

----------------------------------------------------------------------------
(* The chains and the server *)

LEMMA ChainStep ==
  ASSUME Inv, NEW b \in Burns, Mine(b) \/ Receive(b)
  PROVE  Inv'
<1>1. /\ status' = status /\ received \subseteq received' /\ received' \subseteq Burns
      /\ UNCHANGED <<visit, phase, shown, calls>>
      /\ burnTx' \in [Burns -> {"none", "pending", "mined", "reverted"}]
  BY DEF Inv, TypeOK, Mine, Receive, Server!Receive, server
<1>2. TypeOK' /\ ServerInv' /\ MintedIsOurs'
  BY <1>1 DEF Inv, TypeOK, ServerInv, MintedIsOurs
<1>3. CallInv'
  BY <1>1 DEF Inv, CallInv, CallOK
<1> QED
  BY <1>2, <1>3 DEF Inv

\* A final status but failed is followed by another such, and minted is said
\* of what was received.
LEMMA ServeStep ==
  ASSUME Inv, NEW b \in Burns, Serve(b)
  PROVE  Inv'
<1>1. PICK to \in Server!Statuses: Server!Advance(b, to)
  BY DEF Serve
<1>2. /\ <<status[b], to>> \in Server!Steps
      /\ to = "minted" => b \in received
      /\ status' = [status EXCEPT ![b] = to] /\ received' = received
  BY <1>1 DEF Server!Advance
<1>3. UNCHANGED <<burnTx, visit, phase, shown, calls>>
  BY DEF Serve
<1>4. \A c \in Burns: status'[c] = IF c = b THEN to ELSE status[c]
  BY <1>2 DEF Inv, TypeOK
<1>5. /\ status[b] \in Final => to \in Final
      /\ to = "vault_deposited" => status[b] = "minted"
  BY <1>2 DEF Server!Steps, Final
<1>6. TypeOK'
  BY <1>2, <1>3 DEF Inv, TypeOK
<1>7. ServerInv' /\ MintedIsOurs'
  BY <1>2, <1>3, <1>4, <1>5 DEF Inv, ServerInv, MintedIsOurs, Final
<1>8. CallInv'
  BY <1>3, <1>4, <1>5 DEF Inv, CallInv, CallOK
<1> QED
  BY <1>6, <1>7, <1>8 DEF Inv

LEMMA StepInv == Inv /\ [Next]_vars => Inv'
<1> SUFFICES ASSUME Inv, [Next]_vars PROVE Inv'
  OBVIOUS
<1>1. CASE UNCHANGED vars
  BY <1>1 DEF vars, server, Inv, TypeOK, CallInv, CallOK, ServerInv, MintedIsOurs
<1>2. CASE Next
  BY <1>2, TransferStep, AwaitStep, PollStep, ChainStep, ServeStep, TryAgainStep, LeaveStep
     DEF Next
<1> QED
  BY <1>1, <1>2

LEMMA Invariant == Spec => []Inv
BY InitInv, StepInv, PTL DEF Spec

----------------------------------------------------------------------------
\* A change of the phase on one mount.
LEMMA PhaseStep ==
  ASSUME Inv, Next, visit' = visit, phase' # phase
  PROVE  <<phase, phase'>> \in PhaseSteps
<1>1. ASSUME NEW b \in Burns PROVE CallOK(b, calls[b])
  BY DEF Inv, CallInv
<1>2. ASSUME NEW b \in Burns, Transfer(b) PROVE <<phase, phase'>> \in PhaseSteps
  BY <1>2 DEF Transfer, FormShown, PhaseSteps
<1>3. ASSUME NEW b \in Burns, Approve(b) \/ Confirm(b) \/ Throw(b)
      PROVE  <<phase, phase'>> \in PhaseSteps
  BY <1>1, <1>3 DEF Approve, Confirm, Throw, SetPhase, CallOK, PhaseSteps
<1>4. ASSUME NEW b \in Burns, TimeOut(b) \/ Settled(b)
      PROVE  <<phase, phase'>> \in PhaseSteps
  BY <1>1, <1>4 DEF TimeOut, Settled, SetPhase, CallOK, PhaseSteps
<1>5. ASSUME TryAgain PROVE <<phase, phase'>> \in PhaseSteps
  BY <1>5 DEF TryAgain, PhaseSteps
<1>6. ~LeaveForm /\ ~ClosePage
  <2>1. visit \in Int
    BY ClientAssumption DEF Inv, TypeOK
  <2>2. LeaveForm \/ ClosePage => visit' = visit + 1
    BY DEF LeaveForm, ClosePage
  <2> QED
    BY <2>1, <2>2
<1>7. ASSUME NEW b \in Burns
      PROVE  /\ ~Broadcast(b) /\ ~Answered(b) /\ ~AnsweredNoId(b)
             /\ ~Tick(b) /\ ~Get(b) /\ ~GetFails(b) /\ ~StillWorking(b)
             /\ ~Mine(b) /\ ~Receive(b) /\ ~Serve(b)
  BY DEF Broadcast, Answered, AnsweredNoId, Tick, Get, GetFails, StillWorking, Mine,
     Receive, Serve
<1> QED
  BY <1>2, <1>3, <1>4, <1>5, <1>6, <1>7 DEF Next, Poll

\* Every reachable state is well typed; in particular the count of a poll stays
\* within one of its maximum.
THEOREM TypeCorrect == Spec => []TypeOK
<1>1. Inv => TypeOK
  BY DEF Inv
<1> QED
  BY <1>1, Invariant, PTL

\* The form says minted of the transfer it shows, once its USDC has arrived.
THEOREM MintedIsShown == Spec => []MintedIsOurs
<1>1. Inv => MintedIsOurs
  BY DEF Inv
<1> QED
  BY <1>1, Invariant, PTL

\* The screen goes through its phases in order, whatever else is under way.
THEOREM PhasesInOrder == Spec => FollowsPipeline
<1>1. Inv /\ [Next]_vars
      => [visit' = visit /\ phase' # phase => <<phase, phase'>> \in PhaseSteps]_vars
  BY PhaseStep
<1> QED
  BY <1>1, Invariant, PTL DEF Spec, FollowsPipeline
----------------------------------------------------------------------------
(* Polls end. A poll has so many steps left: a tick, a GET and its answer for *)
(* each of the attempts that remain, and the time-out.                        *)

Running(b) == calls[b].poll \in {"timer", "get", "answer"}

Left(b) == MaxPolls - calls[b].attempts

StepsLeft(b) ==
    IF calls[b].poll = "timer" THEN 3 * Left(b) + 1
    ELSE IF calls[b].poll = "get" THEN 3 * Left(b) + 3
    ELSE IF calls[b].poll = "answer" THEN 3 * Left(b) + 2
    ELSE 0

\* A poll has begun and has at most n steps left.
AtMost(b, n) == calls[b].poll # "none" /\ StepsLeft(b) <= n

LEMMA LeftNat ==
    ASSUME Inv, NEW b \in Burns
    PROVE  StepsLeft(b) \in Nat /\ (Running(b) => Left(b) \in Nat)
<1>1. calls[b].attempts \in Nat /\ (Running(b) => calls[b].attempts <= MaxPolls)
  BY ClientAssumption DEF Inv, TypeOK, Calls, CallInv, CallOK, Running
<1> QED
  BY <1>1, ClientAssumption DEF StepsLeft, Left, Running

LEMMA NextLeftNat ==
    ASSUME Inv, [Next]_vars, NEW b \in Burns
    PROVE  StepsLeft(b)' \in Nat
<1>1. Inv'
  BY StepInv
<1>2. /\ calls'[b].attempts \in Nat
      /\ calls'[b].poll \in {"timer", "get", "answer"} => calls'[b].attempts <= MaxPolls
  BY <1>1, ClientAssumption DEF Inv, TypeOK, Calls, CallInv, CallOK
<1> QED
  BY <1>2, ClientAssumption DEF StepsLeft, Left

\* Each step of a poll is one fewer.
LEMMA PollFalls ==
    ASSUME Inv, NEW b \in Burns, Poll(b)
    PROVE  StepsLeft(b)' < StepsLeft(b) /\ calls'[b].poll # "none"
<1>1. Running(b) /\ calls[b].attempts \in Nat /\ MaxPolls \in Nat /\ Left(b) \in Nat
  BY LeftNat, ClientAssumption
  DEF Poll, Tick, TimeOut, Get, GetFails, StillWorking, Settled, Running, Inv, TypeOK, Calls
<1>2. CASE Tick(b)
  <2>1. /\ calls[b].poll = "timer" /\ calls'[b].poll = "get"
        /\ calls'[b].attempts = calls[b].attempts + 1
    BY <1>2 DEF Tick, Inv, TypeOK, Calls
  <2> QED
    BY <1>1, <2>1 DEF StepsLeft, Left
<1>3. CASE TimeOut(b) \/ Settled(b)
  <2>1. calls[b].poll \in {"timer", "answer"} /\ calls'[b].poll = "over"
    <3>1. CASE TimeOut(b)
      BY <3>1 DEF TimeOut, Inv, TypeOK, Calls
    <3>2. CASE Settled(b)
      BY <3>2 DEF Settled, SetPoll, Inv, TypeOK, Calls
    <3> QED
      BY <1>3, <3>1, <3>2
  <2> QED
    BY <1>1, <2>1 DEF StepsLeft
<1>4. CASE Get(b)
  <2>1. /\ calls[b].poll = "get" /\ calls'[b].poll = "answer"
        /\ calls'[b].attempts = calls[b].attempts
    BY <1>4 DEF Get, Inv, TypeOK, Calls
  <2> QED
    BY <1>1, <2>1 DEF StepsLeft, Left
<1>5. CASE GetFails(b) \/ StillWorking(b)
  <2>1. /\ calls[b].poll \in {"get", "answer"} /\ calls'[b].poll = "timer"
        /\ calls'[b].attempts = calls[b].attempts
    <3>1. CASE GetFails(b)
      BY <3>1 DEF GetFails, SetPoll, Inv, TypeOK, Calls
    <3>2. CASE StillWorking(b)
      BY <3>2 DEF StillWorking, SetPoll, Inv, TypeOK, Calls
    <3> QED
      BY <1>5, <3>1, <3>2
  <2> QED
    BY <1>1, <2>1 DEF StepsLeft, Left
<1> QED
  BY <1>2, <1>3, <1>4, <1>5 DEF Poll

\* No other step touches a poll that has begun, but for a page that is closed.
LEMMA PollLeftAlone ==
    ASSUME Inv, NEW b \in Burns, [Next]_vars, calls[b].poll # "none"
    PROVE  \/ Poll(b)
           \/ calls'[b].poll = "over"
           \/ /\ calls'[b].poll = calls[b].poll
              /\ calls'[b].attempts = calls[b].attempts
<1> DEFINE Alone == /\ calls'[b].poll = calls[b].poll
                    /\ calls'[b].attempts = calls[b].attempts
<1>1. calls[b].awaits \in {"done", "gone"} /\ calls \in [Burns -> Calls]
  BY DEF Inv, TypeOK, CallInv, CallOK
<1>2. ASSUME NEW d \in Burns,
             \/ Transfer(d) \/ Approve(d) \/ Broadcast(d) \/ Confirm(d) \/ Answered(d)
             \/ AnsweredNoId(d) \/ Throw(d)
      PROVE  Alone
  BY <1>1, <1>2 DEF Transfer, Approve, Broadcast, Confirm, Answered, AnsweredNoId, Throw, Goto
<1>3. ASSUME NEW d \in Burns \ {b}, Poll(d) PROVE Alone
  BY <1>1, <1>3 DEF Poll, Tick, TimeOut, Get, GetFails, StillWorking, Settled, SetPoll
<1>4. ASSUME NEW d \in Burns, Mine(d) \/ Receive(d) \/ Serve(d) PROVE Alone
  BY <1>4 DEF Mine, Receive, Serve
<1>5. CASE TryAgain \/ LeaveForm \/ UNCHANGED vars
  BY <1>5 DEF TryAgain, LeaveForm, vars
<1>6. CASE ClosePage
  <2>1. calls[b].awaits # "new"
    BY <1>1
  <2>2. calls'[b] = [calls[b] EXCEPT !.awaits = "gone", !.seen = "none", !.poll = "over"]
    BY <1>6, <2>1 DEF ClosePage
  <2> QED
    BY <1>1, <2>2 DEF Calls
<1> QED
  BY <1>2, <1>3, <1>4, <1>5, <1>6 DEF Next

\* Fairness, with the condition for a step in the place of ENABLED.
Served(b) == []<>~Running(b) \/ []<><<Poll(b)>>_vars

\* That Running(b) is such a condition.
Enabling(b) == [](Running(b) => ENABLED <<Poll(b)>>_vars)

\* Then the fairness of Spec says as much.
LEMMA SpecServes == \A b \in Burns: PollFairness(b) /\ Enabling(b) => Served(b)
<1>1. ASSUME NEW b \in Burns PROVE PollFairness(b) /\ Enabling(b) => Served(b)
  BY PTL DEF PollFairness, Enabling, Served
<1> QED
  BY <1>1

\* A poll with at most n steps left comes to have at most m.
StepsDown(b, n, m) ==
    []Inv /\ [][Next]_vars /\ Served(b) => (AtMost(b, n) ~> AtMost(b, m))

LEMMA OneDown ==
    ASSUME NEW b \in Burns, NEW m \in Nat PROVE StepsDown(b, m + 1, m)
<1>1. Inv /\ AtMost(b, m + 1) => Running(b) \/ AtMost(b, m)
  BY DEF AtMost, StepsLeft, Running
<1>2. Inv /\ AtMost(b, m + 1) /\ [Next]_vars => AtMost(b, m + 1)'
  <2> SUFFICES ASSUME Inv, AtMost(b, m + 1), [Next]_vars
               PROVE  calls'[b].poll # "none" /\ StepsLeft(b)' <= m + 1
    BY DEF AtMost
  <2>1. StepsLeft(b) \in Nat /\ StepsLeft(b)' \in Nat
    BY LeftNat, NextLeftNat
  <2>2. CASE Poll(b)
    BY <2>1, <2>2, PollFalls DEF AtMost
  <2>3. CASE calls'[b].poll = "over"
    BY <2>3 DEF StepsLeft
  <2>4. CASE calls'[b].poll = calls[b].poll /\ calls'[b].attempts = calls[b].attempts
    BY <2>4 DEF AtMost, StepsLeft, Left
  <2> QED
    BY <2>2, <2>3, <2>4, PollLeftAlone DEF AtMost
<1>3. Inv /\ AtMost(b, m + 1) /\ [Next]_vars /\ <<Poll(b)>>_vars => AtMost(b, m)'
  <2> SUFFICES ASSUME Inv, AtMost(b, m + 1), [Next]_vars, Poll(b)
               PROVE  AtMost(b, m)'
    OBVIOUS
  <2>1. StepsLeft(b) \in Nat /\ StepsLeft(b)' \in Nat
    BY LeftNat, NextLeftNat
  <2> QED
    BY <2>1, PollFalls DEF AtMost
<1> QED
  BY <1>1, <1>2, <1>3, PTL DEF StepsDown, Served

LEMMA Compose ==
    ASSUME NEW b \in Burns, NEW n \in Nat, NEW k \in Nat, NEW m \in Nat
    PROVE  StepsDown(b, n, k) /\ StepsDown(b, k, m) => StepsDown(b, n, m)
  BY PTL DEF StepsDown

\* A poll comes to have j steps fewer.
Down(b, j) == \A n, m \in Nat: n = m + j => StepsDown(b, n, m)

LEMMA Doubles ==
    ASSUME NEW b \in Burns, NEW j \in Nat
    PROVE  Down(b, j) => Down(b, 2 * j)
<1>1. ASSUME NEW n \in Nat, NEW m \in Nat, n = m + 2 * j
      PROVE  m + j \in Nat /\ m + j = m + j /\ n = (m + j) + j
  BY <1>1
<1> QED
  BY <1>1, Compose DEF Down

\* One poll ends, if it is served.
EndsIfServed(b) ==
    []Inv /\ [][Next]_vars /\ Served(b)
      => ((calls[b].poll = "timer") ~> (calls[b].poll = "over"))

LEMMA ServedPollEnds == MaxPolls <= 60 => \A b \in Burns: EndsIfServed(b)
<1>1. ASSUME MaxPolls <= 60, NEW b \in Burns PROVE EndsIfServed(b)
  <2>1. Down(b, 1)
    BY OneDown DEF Down
  <2>2. Down(b, 256)
    <3>1. Down(b, 2) /\ Down(b, 4)
      BY <2>1, Doubles
    <3> QED
      BY <3>1, Doubles
  <2>3. StepsDown(b, 256, 0)
    BY <2>2 DEF Down
  <2>4. Inv /\ calls[b].poll = "timer" => AtMost(b, 256)
    BY <1>1, ClientAssumption DEF Inv, TypeOK, Calls, AtMost, StepsLeft, Left
  <2>5. Inv /\ AtMost(b, 0) => calls[b].poll = "over"
    BY LeftNat DEF AtMost, StepsLeft, Running, Inv, TypeOK, Calls, Polls
  <2> QED
    BY <2>3, <2>4, <2>5, PTL DEF StepsDown, EndsIfServed
<1> QED
  BY <1>1

LEMMA ServedPollsEnd ==
    ASSUME MaxPolls <= 60
    PROVE  Init /\ [][Next]_vars /\ (\A b \in Burns: Served(b)) => PollEnds
<1>1. Init /\ [][Next]_vars => []Inv
  BY InitInv, StepInv, PTL
<1>2. \A b \in Burns:
        []Inv /\ [][Next]_vars /\ Served(b)
          => ((calls[b].poll = "timer") ~> (calls[b].poll = "over"))
  BY ServedPollEnds DEF EndsIfServed
<1> QED
  BY <1>1, <1>2 DEF PollEnds

\* A poll comes to an end whatever the server does, for any number of transfers
\* and departures from the form. The code polls 60 times: that a poll comes to
\* have j steps fewer is proved for j = 1 and doubled as often as that maximum
\* needs.
THEOREM PollsEnd ==
    ASSUME MaxPolls <= 60
    PROVE  Spec /\ (\A b \in Burns: Enabling(b)) => PollEnds
<1>1. Spec => Init /\ [][Next]_vars /\ \A b \in Burns: PollFairness(b)
  BY DEF Spec
<1> QED
  BY <1>1, SpecServes, ServedPollsEnd
=============================================================================
