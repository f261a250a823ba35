---- MODULE ActionService_Proofs ----
(***************************************************************************)
(* Proofs about ActionService, for any runs, any plans and any names: its  *)
(* types, that "success" is true, that a failover leaves no server that    *)
(* takes writes and follows a source, and that redis_config_set reports    *)
(* what it did.                                                            *)
(*                                                                         *)
(* None of the three is inductive.  What carries SuccessIsDone is that a   *)
(* post is in one place: not yet made, in the inbox, with the one handler  *)
(* at work, or over, and that "done" counts what its handler is past       *)
(* (Placed, Succeeded).  NoSplitBrain needs that a promotion which is      *)
(* about to open the server has cut it off (CutOffFirst), whichever        *)
(* handlers ran in between; ReportIsTrue needs that none did.              *)
(***************************************************************************)
EXTENDS ActionService, TLAPS

Codes == {"success", "failed", "skipped"}

\* Run r has made its i-th post.
Posted(p) ==
    \/ p.index <= Len(statuses[p.run])
    \/ p.index = Len(statuses[p.run]) + 1 /\ at[p.run] \in {"waiting", "lost"}

\* A run that has not begun has no plan; the others keep theirs.
PlansFit ==
    \A r \in Runs : at[r] = "idle" => plans[r] = << >> /\ statuses[r] = << >>

Placed ==
    /\ \A p \in inbox : Posted(p) /\ done[p] = 0
    /\ \A h \in handling : Posted(h.post) /\ h.post \notin inbox /\ done[h.post] = h.step - 1
    /\ \A g, h \in handling : g = h
    /\ \A p \in Posts : ~Posted(p) => done[p] = 0

\* What a run was told is over.
Succeeded ==
    \A p \in Posts :
        p.index <= Len(statuses[p.run]) /\ statuses[p.run][p.index] = "success" =>
            /\ p \notin inbox
            /\ \A h \in handling : h.post # p
            /\ done[p] = Len(Statements(p))

CutOffFirst ==
    \A h \in handling :
        Statements(h.post) = Promotion /\ h.step = 3 => ~server.attached

ServiceInv ==
    /\ ServiceTypeOK /\ PlansFit /\ Placed /\ Succeeded
    /\ NoSplitBrain /\ CutOffFirst /\ ReportIsTrue

----------------------------------------------------------------------------
(* Statements *)

Assignment == <<"CONFIG_GET", "CONFIG_SET", "CONFIG_GET">>

LEMMA StatementsOf ==
    ASSUME NEW p
    PROVE  /\ Statements(p) \in {<< >>, <<"kubectl">>, Assignment, Promotion,
                                 <<"READ_ONLY_ON">>, <<"KILL">>}
           /\ Statements(p) = Assignment => HandlerOf(p) = "redis_config_set"
           /\ HandlerOf(p) = "redis_config_set" /\ Statements(p) # << >> =>
                 Statements(p) = Assignment
  BY DEF Statements, Assignment, Promotion, Kubectl, IndustrialActions, NetworkActions

LEMMA StatementAt ==
    ASSUME NEW p, NEW i \in Nat \ {0}, i <= Len(Statements(p))
    PROVE  /\ i <= 3
           /\ Statements(p)[i] = "READ_ONLY_OFF" => Statements(p) = Promotion /\ i = 3
           /\ Statements(p) = Promotion /\ i = 2 => Statements(p)[i] = "RESET_SLAVE_ALL"
           /\ Statements(p) = Assignment =>
                 /\ i \in {1, 3} => Statements(p)[i] = "CONFIG_GET"
                 /\ i = 2 => Statements(p)[i] = "CONFIG_SET"
           /\ Statements(p)[i] = "CONFIG_SET" => Statements(p) = Assignment
<1> DEFINE s == Statements(p)
<1>1. s \in {<< >>, <<"kubectl">>, Assignment, Promotion, <<"READ_ONLY_ON">>, <<"KILL">>}
  BY StatementsOf
<1>2. CASE s = << >> \/ s = <<"kubectl">> \/ s = <<"READ_ONLY_ON">> \/ s = <<"KILL">>
  <2>1. i = 1 /\ Len(s) = 1 /\ s[1] \in {"kubectl", "READ_ONLY_ON", "KILL"}
    BY <1>2
  <2> QED
    BY <2>1 DEF Assignment, Promotion
<1>3. CASE s = Assignment
  <2>1. i \in 1 .. 3 /\ s[1] = "CONFIG_GET" /\ s[2] = "CONFIG_SET" /\ s[3] = "CONFIG_GET"
    BY <1>3 DEF Assignment
  <2>2. s # Promotion
    BY <1>3 DEF Assignment, Promotion
  <2> QED
    BY <1>3, <2>1, <2>2
<1>4. CASE s = Promotion
  <2>1. i \in 1 .. 3 /\ s[1] = "STOP_SLAVE" /\ s[2] = "RESET_SLAVE_ALL" /\ s[3] = "READ_ONLY_OFF"
    BY <1>4 DEF Promotion
  <2>2. s # Assignment
    BY <1>4 DEF Assignment, Promotion
  <2> QED
    BY <1>4, <2>1, <2>2
<1> QED
  BY <1>1, <1>2, <1>3, <1>4

LEMMA StatementsLength == ASSUME NEW p PROVE Len(Statements(p)) \in 0 .. 3
<1>1. Statements(p) \in {<< >>, <<"kubectl">>, Assignment, Promotion, <<"READ_ONLY_ON">>, <<"KILL">>}
  BY StatementsOf
<1> QED
  BY <1>1 DEF Assignment, Promotion

LEMMA StatementsStay ==
    ASSUME NEW p, plans'[p.run] = plans[p.run], dry' = dry
    PROVE  /\ Statements(p)' = Statements(p)
           /\ HandlerOf(p)' = HandlerOf(p)
  BY DEF Statements, HandlerOf, Action

----------------------------------------------------------------------------
(* Posts and runs *)

LEMMA SamePost ==
    ASSUME NEW p \in Posts, NEW q \in Posts, p.run = q.run, p.index = q.index
    PROVE  p = q
  BY DEF Posts

LEMMA PostFields ==
    ASSUME NEW p \in Posts
    PROVE  p.run \in Runs /\ p.index \in Nat \ {0} /\ p.index <= MaxActions
  BY PlansAssumption DEF Posts

\* A plan is a sequence of at most MaxActions actions.
LEMMA PlanLength ==
    ASSUME ServiceTypeOK, NEW r \in Runs
    PROVE  /\ Len(plans[r]) \in Nat
           /\ Len(plans[r]) <= MaxActions
           /\ statuses[r] \in Seq(Codes)
           /\ Len(statuses[r]) \in Nat
           /\ Len(statuses[r]) <= Len(plans[r])
<1>1. plans[r] \in Plans \cup {<< >>}
  BY DEF ServiceTypeOK
<1>2. Len(plans[r]) \in Nat /\ Len(plans[r]) <= MaxActions
  BY <1>1, PlansAssumption
<1>3. statuses[r] \in Seq(Codes) /\ Len(statuses[r]) <= Len(plans[r])
  BY DEF ServiceTypeOK, Codes
<1> QED
  BY <1>2, <1>3

LEMMA CurrentIsPost ==
    ASSUME ServiceTypeOK, NEW r \in Runs, Len(statuses[r]) < Len(plans[r])
    PROVE  /\ Current(r) \in Posts
           /\ Current(r).run = r /\ Current(r).index = Len(statuses[r]) + 1
  BY PlanLength, PlansAssumption DEF Current, Posts

\* What a status that is returned does to the runs.
LEMMA ReturnKeeps ==
    ASSUME ServiceTypeOK, PlansFit, NEW r \in Runs, at[r] = "waiting",
           NEW st \in Codes, Return(r, st)
    PROVE  /\ Len(statuses[r]) < Len(plans[r])
           /\ at' = [at EXCEPT ![r] = "acting"]
           /\ plans' = plans
           /\ statuses' \in [Runs -> Seq(Codes)]
           /\ statuses'[r] = Append(statuses[r], st)
           /\ Len(statuses'[r]) = Len(statuses[r]) + 1
           /\ statuses'[r][Len(statuses[r]) + 1] = st
           /\ \A i \in 1 .. Len(statuses[r]) : statuses'[r][i] = statuses[r][i]
           /\ \A q \in Runs \ {r} : statuses'[q] = statuses[q]
<1>1. /\ Len(statuses[r]) < Len(plans[r])
      /\ statuses \in [Runs -> Seq(Codes)]
  BY DEF ServiceTypeOK, Codes
<1>2. statuses' = [statuses EXCEPT ![r] = Append(@, st)]
  BY DEF Return
<1>3. statuses'[r] = Append(statuses[r], st) /\ \A q \in Runs \ {r} : statuses'[q] = statuses[q]
  BY <1>1, <1>2
<1>4. statuses[r] \in Seq(Codes)
  BY <1>1
<1>5. /\ Append(statuses[r], st) \in Seq(Codes)
      /\ Len(Append(statuses[r], st)) = Len(statuses[r]) + 1
      /\ Append(statuses[r], st)[Len(statuses[r]) + 1] = st
      /\ \A i \in 1 .. Len(statuses[r]) : Append(statuses[r], st)[i] = statuses[r][i]
  BY <1>4
<1>6. statuses' \in [Runs -> Seq(Codes)]
  BY <1>1, <1>2, <1>5
<1> QED
  BY <1>1, <1>3, <1>5, <1>6 DEF Return

\* The runs' part of the type invariant.
RunsOK ==
    /\ plans \in [Runs -> Plans \cup {<< >>}]
    /\ at \in [Runs -> {"idle", "acting", "waiting", "observing", "lost"}]
    /\ statuses \in [Runs -> Seq(Codes)]
    /\ \A r \in Runs :
          /\ Len(statuses[r]) <= Len(plans[r])
          /\ at[r] = "waiting" => Len(statuses[r]) < Len(plans[r])
    /\ PlansFit

LEMMA RunsOfType == ASSUME ServiceTypeOK, PlansFit PROVE RunsOK
  BY DEF ServiceTypeOK, RunsOK, Codes

\* A step of the runs keeps what has been posted, the plans it belongs to, and
\* what its run was told before.
Keeps ==
    /\ RunsOK'
    /\ \A p \in Posts :
          Posted(p) => Posted(p)' /\ plans'[p.run] = plans[p.run]

LEMMA ReturnOK ==
    ASSUME ServiceTypeOK, PlansFit, NEW r \in Runs, at[r] = "waiting",
           NEW st \in Codes, Return(r, st)
    PROVE  /\ Keeps
           /\ \A p \in Posts : Posted(p)' => Posted(p)
           /\ \A p \in Posts :
                 p.index <= Len(statuses'[p.run]) =>
                    \/ p = Current(r) /\ statuses'[p.run][p.index] = st
                    \/ /\ p.index <= Len(statuses[p.run])
                       /\ statuses'[p.run][p.index] = statuses[p.run][p.index]
<1>1. RunsOK
  BY RunsOfType
<1>2. /\ Len(statuses[r]) < Len(plans[r])
      /\ at' = [at EXCEPT ![r] = "acting"]
      /\ plans' = plans
      /\ statuses' \in [Runs -> Seq(Codes)]
      /\ Len(statuses'[r]) = Len(statuses[r]) + 1
      /\ statuses'[r][Len(statuses[r]) + 1] = st
      /\ \A i \in 1 .. Len(statuses[r]) : statuses'[r][i] = statuses[r][i]
      /\ \A q \in Runs \ {r} : statuses'[q] = statuses[q]
  BY ReturnKeeps
<1>3. Len(statuses[r]) \in Nat /\ Len(plans[r]) \in Nat
  BY PlanLength
<1>4. at'[r] = "acting" /\ \A q \in Runs \ {r} : at'[q] = at[q]
  BY <1>1, <1>2 DEF RunsOK
<1>5. RunsOK'
  <2>1. at' \in [Runs -> {"idle", "acting", "waiting", "observing", "lost"}]
    BY <1>1, <1>2 DEF RunsOK
  <2>2. \A q \in Runs :
          /\ Len(statuses'[q]) <= Len(plans'[q])
          /\ at'[q] = "waiting" => Len(statuses'[q]) < Len(plans'[q])
    BY <1>1, <1>2, <1>3, <1>4 DEF RunsOK
  <2>3. PlansFit'
    BY <1>1, <1>2, <1>4 DEF RunsOK, PlansFit
  <2> QED
    BY <1>1, <1>2, <2>1, <2>2, <2>3 DEF RunsOK
<1>6. \A p \in Posts : Posted(p)' <=> Posted(p)
  <2> SUFFICES ASSUME NEW p \in Posts PROVE Posted(p)' <=> Posted(p)
    OBVIOUS
  <2>1. p.run \in Runs /\ p.index \in Nat
    BY PostFields
  <2>2. CASE p.run = r
    BY <1>2, <1>3, <1>4, <2>1, <2>2 DEF Posted
  <2>3. CASE p.run # r
    BY <1>2, <1>4, <2>1, <2>3 DEF Posted
  <2> QED
    BY <2>2, <2>3
<1>7. ASSUME NEW p \in Posts, p.index <= Len(statuses'[p.run])
      PROVE  \/ p = Current(r) /\ statuses'[p.run][p.index] = st
             \/ /\ p.index <= Len(statuses[p.run])
                /\ statuses'[p.run][p.index] = statuses[p.run][p.index]
  <2>1. p.run \in Runs /\ p.index \in Nat \ {0}
    BY PostFields
  <2>2. CASE p.run # r
    BY <1>2, <1>7, <2>1, <2>2
  <2>3. CASE p.run = r /\ p.index = Len(statuses[r]) + 1
    <3>1. /\ Current(r) \in Posts
          /\ Current(r).run = r /\ Current(r).index = Len(statuses[r]) + 1
      BY <1>2, CurrentIsPost
    <3>2. p = Current(r)
      BY <2>3, <3>1, SamePost
    <3> QED
      BY <1>2, <2>3, <3>2
  <2>4. CASE p.run = r /\ p.index # Len(statuses[r]) + 1
    <3>1. p.index \in 1 .. Len(statuses[r])
      BY <1>2, <1>3, <1>7, <2>1, <2>4
    <3> QED
      BY <1>2, <1>3, <2>4, <3>1
  <2> QED
    BY <2>2, <2>3, <2>4
<1> QED
  BY <1>2, <1>5, <1>6, <1>7 DEF Keeps

LEMMA BeginOK ==
    ASSUME ServiceTypeOK, PlansFit, NEW r \in Runs, Begin(r)
    PROVE  /\ Keeps
           /\ \A p \in Posts : Posted(p)' => Posted(p)
           /\ statuses' = statuses
<1>1. RunsOK
  BY RunsOfType
<1>2. PICK plan \in Plans : plans' = [plans EXCEPT ![r] = plan]
  BY DEF Begin
<1>3. plan \in Seq(Actions)
  BY PlansAssumption
<1>4. /\ at[r] = "idle" /\ at' = [at EXCEPT ![r] = "acting"]
      /\ statuses' = statuses /\ statuses[r] = << >> /\ plans[r] = << >>
  BY DEF Begin, PlansFit
<1>5. /\ at'[r] = "acting" /\ plans'[r] = plan
      /\ \A q \in Runs \ {r} : at'[q] = at[q] /\ plans'[q] = plans[q]
  BY <1>1, <1>2, <1>4 DEF RunsOK
<1>6. RunsOK'
  <2>1. /\ at' \in [Runs -> {"idle", "acting", "waiting", "observing", "lost"}]
        /\ plans' \in [Runs -> Plans \cup {<< >>}]
    BY <1>1, <1>2, <1>4 DEF RunsOK
  <2>2. \A q \in Runs :
          /\ Len(statuses'[q]) <= Len(plans'[q])
          /\ at'[q] = "waiting" => Len(statuses'[q]) < Len(plans'[q])
    BY <1>1, <1>3, <1>4, <1>5 DEF RunsOK
  <2>3. PlansFit'
    BY <1>1, <1>4, <1>5 DEF RunsOK, PlansFit
  <2> QED
    BY <1>1, <1>4, <2>1, <2>2, <2>3 DEF RunsOK
<1>7. ASSUME NEW p \in Posts
      PROVE  /\ Posted(p)' => Posted(p)
             /\ Posted(p) => Posted(p)' /\ plans'[p.run] = plans[p.run]
  <2>1. p.run \in Runs /\ p.index \in Nat \ {0}
    BY PostFields
  <2>2. CASE p.run = r
    <3>1. Len(statuses[r]) = 0 /\ at[r] = "idle" /\ at'[r] = "acting"
      BY <1>4, <1>5
    <3> QED
      BY <1>4, <2>1, <2>2, <3>1 DEF Posted
  <2>3. CASE p.run # r
    BY <1>4, <1>5, <2>1, <2>3 DEF Posted
  <2> QED
    BY <2>2, <2>3
<1> QED
  BY <1>4, <1>6, <1>7 DEF Keeps

\* A run that only moves on.
LEMMA MoveOK ==
    ASSUME ServiceTypeOK, PlansFit, plans' = plans, statuses' = statuses,
           at' \in [Runs -> {"idle", "acting", "waiting", "observing", "lost"}],
           \A r \in Runs :
              /\ at'[r] = "idle" <=> at[r] = "idle"
              /\ at[r] \in {"waiting", "lost"} => at'[r] \in {"waiting", "lost"}
              /\ at'[r] = "waiting" => Len(statuses[r]) < Len(plans[r])
    PROVE  Keeps
<1>1. RunsOK
  BY RunsOfType
<1>2. RunsOK'
  BY <1>1 DEF RunsOK, PlansFit
<1>3. ASSUME NEW p \in Posts, Posted(p) PROVE Posted(p)' /\ plans'[p.run] = plans[p.run]
  BY <1>3, PostFields DEF Posted
<1> QED
  BY <1>2, <1>3 DEF Keeps

LEMMA AnswerOK ==
    ASSUME ServiceTypeOK, PlansFit, NEW q \in Posts, NEW st \in Codes, Answer(q, st)
    PROVE  /\ Keeps
           /\ \A p \in Posts : Posted(p)' => Posted(p)
           /\ \A p \in Posts :
                 p.index <= Len(statuses'[p.run]) =>
                    \/ p = q /\ statuses'[p.run][p.index] = st
                    \/ /\ p.index <= Len(statuses[p.run])
                       /\ statuses'[p.run][p.index] = statuses[p.run][p.index]
<1>1. q.run \in Runs
  BY PostFields
<1>2. CASE at[q.run] = "waiting" /\ Current(q.run) = q
  <2>1. Return(q.run, st)
    BY <1>2 DEF Answer
  <2> QED
    BY <1>1, <1>2, <2>1, ReturnOK
<1>3. CASE ~(at[q.run] = "waiting" /\ Current(q.run) = q)
  <2>1. plans' = plans /\ at' = at /\ statuses' = statuses
    BY <1>3 DEF Answer, clients
  <2>2. Keeps
    <3>1. RunsOK
      BY RunsOfType
    <3> QED
      BY <2>1, <3>1, MoveOK DEF RunsOK
  <2> QED
    BY <2>1, <2>2 DEF Posted
<1> QED
  BY <1>2, <1>3

----------------------------------------------------------------------------
(* Steps of the runs *)

LEMMA KeptStatements ==
    ASSUME Keeps, dry' = dry, NEW p \in Posts, Posted(p)
    PROVE  /\ Posted(p)'
           /\ Statements(p)' = Statements(p)
           /\ HandlerOf(p)' = HandlerOf(p)
  BY StatementsStay DEF Keeps

\* What the handlers at work rely on.
LEMMA AtWork ==
    ASSUME ServiceInv, NEW h \in handling
    PROVE  /\ h \in [post : Posts, step : 1 .. 4, old : Posts \cup {Unset}]
           /\ h.post \in Posts /\ h.step \in 1 .. 4 /\ h.old \in Posts \cup {Unset}
           /\ h.step <= Len(Statements(h.post)) + 1
           /\ Posted(h.post) /\ h.post \notin inbox /\ done[h.post] = h.step - 1
           /\ handling = {h}
<1>1. h \in [post : Posts, step : 1 .. 4, old : Posts \cup {Unset}]
  BY DEF ServiceInv, ServiceTypeOK
<1>2. h.post \in Posts /\ h.step \in 1 .. 4 /\ h.old \in Posts \cup {Unset}
  BY <1>1
<1> QED
  BY <1>1, <1>2 DEF ServiceInv, ServiceTypeOK, Placed

\* What makes the invariant of the next state when its runs are in order.
LEMMA TypeFromParts ==
    ASSUME RunsOK', dry' \in BOOLEAN, inbox' \subseteq Posts,
           \A h \in handling' :
              /\ h \in [post : Posts, step : 1 .. 4, old : Posts \cup {Unset}]
              /\ h.step <= Len(Statements(h.post)') + 1,
           done' \in [Posts -> 0 .. 3], config' \in Posts \cup {Unset},
           server' \in [attached : BOOLEAN, read_only : BOOLEAN]
    PROVE  ServiceTypeOK' /\ PlansFit'
  BY DEF RunsOK, ServiceTypeOK, Codes

\* A step that leaves the executor alone and reports no success.
LEMMA RunsOnly ==
    ASSUME ServiceInv, Keeps, UNCHANGED <<dry, inbox, handling, systems>>,
           \A p \in Posts :
              p.index <= Len(statuses'[p.run]) /\ statuses'[p.run][p.index] = "success" =>
                 p.index <= Len(statuses[p.run]) /\ statuses[p.run][p.index] = "success"
    PROVE  ServiceInv'
<1>0. /\ dry' = dry /\ inbox' = inbox /\ handling' = handling
      /\ done' = done /\ config' = config /\ server' = server
  BY DEF systems
<1>1. ASSUME NEW h \in handling
      PROVE  /\ h.post \in Posts /\ Posted(h.post) /\ Posted(h.post)'
             /\ Statements(h.post)' = Statements(h.post)
             /\ HandlerOf(h.post)' = HandlerOf(h.post)
  <2>1. h.post \in Posts /\ Posted(h.post)
    BY AtWork
  <2> QED
    BY <1>0, <2>1, KeptStatements
<1>2. ServiceTypeOK' /\ PlansFit'
  <2>1. \A h \in handling' :
          /\ h \in [post : Posts, step : 1 .. 4, old : Posts \cup {Unset}]
          /\ h.step <= Len(Statements(h.post)') + 1
    BY <1>0, <1>1, AtWork
  <2>2. RunsOK'
    BY DEF Keeps
  <2> QED
    BY <1>0, <2>1, <2>2, TypeFromParts DEF ServiceInv, ServiceTypeOK
<1>3. Placed'
  <2>1. \A p \in inbox : p \in Posts /\ Posted(p) /\ done[p] = 0
    BY DEF ServiceInv, Placed, ServiceTypeOK
  <2>2. \A p \in inbox' : Posted(p)' /\ done'[p] = 0
    BY <1>0, <2>1 DEF Keeps
  <2>3. \A h \in handling' : Posted(h.post)' /\ h.post \notin inbox' /\ done'[h.post] = h.step - 1
    BY <1>0, <1>1, AtWork
  <2>4. \A g, h \in handling' : g = h
    BY <1>0 DEF ServiceInv, Placed
  <2>5. \A p \in Posts : ~Posted(p)' => done'[p] = 0
    BY <1>0 DEF ServiceInv, Placed, Keeps
  <2> QED
    BY <2>2, <2>3, <2>4, <2>5 DEF Placed
<1>4. Succeeded'
  <2> SUFFICES ASSUME NEW p \in Posts, p.index <= Len(statuses'[p.run]),
                      statuses'[p.run][p.index] = "success"
               PROVE  /\ p \notin inbox /\ \A h \in handling : h.post # p
                      /\ done[p] = Len(Statements(p)')
    BY <1>0 DEF Succeeded
  <2>1. p.index <= Len(statuses[p.run]) /\ statuses[p.run][p.index] = "success"
    OBVIOUS
  <2>2. Posted(p)
    BY <2>1 DEF Posted
  <2>3. Statements(p)' = Statements(p)
    BY <1>0, <2>2, KeptStatements
  <2> QED
    BY <2>1, <2>3 DEF ServiceInv, Succeeded
<1>5. NoSplitBrain' /\ CutOffFirst' /\ ReportIsTrue'
  BY <1>0, <1>1 DEF ServiceInv, NoSplitBrain, CutOffFirst, ReportIsTrue
<1> QED
  BY <1>2, <1>3, <1>4, <1>5 DEF ServiceInv

LEMMA PostActionInv ==
    ASSUME ServiceInv, NEW r \in Runs, PostAction(r)
    PROVE  ServiceInv'
<1>0. /\ ServiceTypeOK /\ PlansFit
      /\ at[r] = "acting" /\ Len(statuses[r]) < Len(plans[r])
      /\ at' = [at EXCEPT ![r] = "waiting"]
      /\ dry' = dry /\ plans' = plans /\ statuses' = statuses
      /\ inbox' = inbox \cup {Current(r)} /\ handling' = handling
      /\ done' = done /\ config' = config /\ server' = server
  BY DEF PostAction, ServiceInv, systems
<1>1. PICK new \in Posts :
         new.run = r /\ new.index = Len(statuses[r]) + 1 /\ inbox' = inbox \cup {new}
  BY <1>0, CurrentIsPost
<1>2. Keeps
  <2>1. RunsOK
    BY <1>0, RunsOfType
  <2> QED
    BY <1>0, <2>1, MoveOK DEF RunsOK
<1>3. /\ ~Posted(new) /\ Posted(new)'
      /\ at \in [Runs -> {"idle", "acting", "waiting", "observing", "lost"}]
      /\ Len(statuses[r]) \in Nat
  <2>1. /\ at \in [Runs -> {"idle", "acting", "waiting", "observing", "lost"}]
        /\ Len(statuses[r]) \in Nat
    BY <1>0, PlanLength DEF ServiceTypeOK
  <2>2. at'[r] = "waiting"
    BY <1>0, <2>1
  <2> QED
    BY <1>0, <1>1, <2>1, <2>2 DEF Posted
<1>4. ASSUME NEW h \in handling
      PROVE  /\ h.post \in Posts /\ Posted(h.post)' /\ h.post \notin inbox'
             /\ done'[h.post] = h.step - 1
             /\ Statements(h.post)' = Statements(h.post)
             /\ HandlerOf(h.post)' = HandlerOf(h.post)
  <2>1. h.post \in Posts /\ Posted(h.post) /\ h.post \notin inbox /\ done[h.post] = h.step - 1
    BY AtWork
  <2>2. h.post # new
    BY <1>3, <2>1
  <2> QED
    BY <1>0, <1>1, <1>2, <2>1, <2>2, KeptStatements
<1>5. ServiceTypeOK' /\ PlansFit'
  <2>1. \A h \in handling' :
          /\ h \in [post : Posts, step : 1 .. 4, old : Posts \cup {Unset}]
          /\ h.step <= Len(Statements(h.post)') + 1
    BY <1>0, <1>4, AtWork
  <2>2. RunsOK' /\ inbox' \subseteq Posts
    BY <1>0, <1>1, <1>2 DEF Keeps, ServiceTypeOK
  <2> QED
    BY <1>0, <2>1, <2>2, TypeFromParts DEF ServiceTypeOK
<1>6. Placed'
  <2>1. \A p \in inbox : p \in Posts /\ Posted(p) /\ done[p] = 0
    BY DEF ServiceInv, Placed, ServiceTypeOK
  <2>2. \A p \in inbox' : Posted(p)' /\ done'[p] = 0
    BY <1>0, <1>1, <1>2, <1>3, <2>1 DEF Keeps, ServiceInv, Placed
  <2>3. \A g, h \in handling' : g = h
    BY <1>0 DEF ServiceInv, Placed
  <2>4. \A p \in Posts : ~Posted(p)' => done'[p] = 0
    BY <1>0, <1>2 DEF ServiceInv, Placed, Keeps
  <2> QED
    BY <1>0, <1>4, <2>2, <2>3, <2>4 DEF Placed
<1>7. Succeeded'
  <2> SUFFICES ASSUME NEW p \in Posts, p.index <= Len(statuses[p.run]),
                      statuses[p.run][p.index] = "success"
               PROVE  /\ p \notin inbox' /\ \A h \in handling : h.post # p
                      /\ done[p] = Len(Statements(p)')
    BY <1>0 DEF Succeeded
  <2>1. Posted(p) /\ p # new
    BY <1>3 DEF Posted
  <2>2. Statements(p)' = Statements(p)
    BY <1>0, <1>2, <2>1, KeptStatements
  <2>3. p \notin inbox /\ (\A h \in handling : h.post # p) /\ done[p] = Len(Statements(p))
    BY DEF ServiceInv, Succeeded
  <2> QED
    BY <1>0, <1>1, <2>1, <2>2, <2>3
<1>8. NoSplitBrain' /\ CutOffFirst' /\ ReportIsTrue'
  BY <1>0, <1>4 DEF ServiceInv, NoSplitBrain, CutOffFirst, ReportIsTrue
<1> QED
  BY <1>5, <1>6, <1>7, <1>8 DEF ServiceInv

LEMMA RunsInv ==
    ASSUME ServiceInv,
           \/ \E r \in Runs : Begin(r) \/ PostFails(r) \/ EnterObservation(r)
           \/ SupervisorRestart
    PROVE  ServiceInv'
<1>0. ServiceTypeOK /\ PlansFit /\ RunsOK
  BY RunsOfType DEF ServiceInv
<1>1. ASSUME NEW r \in Runs, Begin(r) PROVE ServiceInv'
  <2>1. UNCHANGED <<dry, inbox, handling, systems>>
    BY <1>1 DEF Begin
  <2>2. Keeps /\ statuses' = statuses
    BY <1>0, <1>1, BeginOK
  <2> QED
    BY <2>1, <2>2, RunsOnly
<1>2. ASSUME NEW r \in Runs, PostFails(r) PROVE ServiceInv'
  <2>1. /\ UNCHANGED <<dry, inbox, handling, systems>>
        /\ at[r] = "waiting" /\ Return(r, "failed") /\ "failed" \in Codes
    BY <1>2 DEF PostFails, Codes
  <2>2. /\ Keeps
        /\ \A p \in Posts :
              p.index <= Len(statuses'[p.run]) =>
                 \/ p = Current(r) /\ statuses'[p.run][p.index] = "failed"
                 \/ /\ p.index <= Len(statuses[p.run])
                    /\ statuses'[p.run][p.index] = statuses[p.run][p.index]
    BY <1>0, <2>1, ReturnOK
  <2>3. \A p \in Posts :
           p.index <= Len(statuses'[p.run]) /\ statuses'[p.run][p.index] = "success" =>
              p.index <= Len(statuses[p.run]) /\ statuses[p.run][p.index] = "success"
    BY <2>2
  <2> QED
    BY <2>1, <2>2, <2>3, RunsOnly
<1>3. ASSUME NEW r \in Runs, EnterObservation(r) PROVE ServiceInv'
  <2>1. /\ UNCHANGED <<dry, inbox, handling, systems>>
        /\ plans' = plans /\ statuses' = statuses
        /\ at[r] = "acting" /\ at' = [at EXCEPT ![r] = "observing"]
    BY <1>3 DEF EnterObservation
  <2>2. /\ at' \in [Runs -> {"idle", "acting", "waiting", "observing", "lost"}]
        /\ at'[r] = "observing" /\ \A q \in Runs \ {r} : at'[q] = at[q]
    BY <1>0, <2>1 DEF RunsOK
  <2>3. Keeps
    BY <1>0, <2>1, <2>2, MoveOK DEF RunsOK
  <2> QED
    BY <2>1, <2>3, RunsOnly
<1>4. ASSUME SupervisorRestart PROVE ServiceInv'
  <2>1. /\ UNCHANGED <<dry, inbox, handling, systems>>
        /\ plans' = plans /\ statuses' = statuses
        /\ at' = [r \in Runs |-> IF at[r] = "idle" THEN "idle" ELSE "lost"]
    BY <1>4 DEF SupervisorRestart
  <2>2. Keeps
    BY <1>0, <2>1, MoveOK DEF RunsOK
  <2> QED
    BY <2>1, <2>2, RunsOnly
<1> QED
  BY <1>1, <1>2, <1>3, <1>4

----------------------------------------------------------------------------
(* Steps of the executor *)

\* A step that takes posts away from the executor, and no more.
LEMMA Forgotten ==
    ASSUME ServiceInv, UNCHANGED <<dry, clients, systems>>,
           inbox' \subseteq inbox, handling' \subseteq handling
    PROVE  ServiceInv'
<1>0. /\ dry' = dry /\ plans' = plans /\ at' = at /\ statuses' = statuses
      /\ done' = done /\ config' = config /\ server' = server
  BY DEF clients, systems
<1>1. \A p \in Posts : /\ Posted(p)' <=> Posted(p)
                       /\ Statements(p)' = Statements(p)
                       /\ HandlerOf(p)' = HandlerOf(p)
  BY <1>0, StatementsStay DEF Posted
<1>2. \A h \in handling' : h \in handling /\ h.post \in Posts
  BY AtWork
<1>3. ServiceTypeOK' /\ PlansFit'
  <2>1. ServiceTypeOK /\ PlansFit
    BY DEF ServiceInv
  <2>2. RunsOK'
    BY <1>0, <2>1, RunsOfType DEF RunsOK, PlansFit
  <2>3. \A h \in handling' :
          /\ h \in [post : Posts, step : 1 .. 4, old : Posts \cup {Unset}]
          /\ h.step <= Len(Statements(h.post)') + 1
    BY <1>1, <1>2, AtWork
  <2>4. inbox' \subseteq Posts
    BY <2>1 DEF ServiceTypeOK
  <2> QED
    BY <1>0, <2>1, <2>2, <2>3, <2>4, TypeFromParts DEF ServiceTypeOK
<1>4. Placed'
  <2>1. Placed
    BY DEF ServiceInv
  <2>2. inbox \subseteq Posts
    BY DEF ServiceInv, ServiceTypeOK
  <2> QED
    BY <1>0, <1>1, <1>2, <2>1, <2>2 DEF Placed
<1>5. Succeeded'
  BY <1>0, <1>1 DEF ServiceInv, Succeeded
<1>6. NoSplitBrain' /\ CutOffFirst' /\ ReportIsTrue'
  BY <1>0, <1>1, <1>2 DEF ServiceInv, NoSplitBrain, CutOffFirst, ReportIsTrue
<1> QED
  BY <1>3, <1>4, <1>5, <1>6 DEF ServiceInv

LEMMA StartInv ==
    ASSUME ServiceInv, NEW p \in inbox, StartHandler(p)
    PROVE  ServiceInv'
<1>0. PICK new : new = [post |-> p, step |-> 1, old |-> Unset]
  OBVIOUS
<1>1. /\ dry' = dry /\ plans' = plans /\ at' = at /\ statuses' = statuses
      /\ done' = done /\ config' = config /\ server' = server
      /\ inbox' = inbox \ {p} /\ handling' = {new}
  BY <1>0 DEF StartHandler, clients, systems
<1>2. p \in Posts /\ Posted(p) /\ done[p] = 0
  BY DEF ServiceInv, ServiceTypeOK, Placed
<1>3. /\ new \in [post : Posts, step : 1 .. 4, old : Posts \cup {Unset}]
      /\ new.post = p /\ new.step = 1
  BY <1>0, <1>2
<1>4. \A q \in Posts : /\ Posted(q)' <=> Posted(q)
                       /\ Statements(q)' = Statements(q)
                       /\ HandlerOf(q)' = HandlerOf(q)
  BY <1>1, StatementsStay DEF Posted
<1>5. ServiceTypeOK' /\ PlansFit'
  <2>1. ServiceTypeOK /\ PlansFit
    BY DEF ServiceInv
  <2>2. RunsOK'
    BY <1>1, <2>1, RunsOfType DEF RunsOK, PlansFit
  <2>3. new.step <= Len(Statements(p)') + 1
    BY <1>2, <1>3, <1>4, StatementsLength
  <2>4. inbox' \subseteq Posts
    BY <1>1, <2>1 DEF ServiceTypeOK
  <2> QED
    BY <1>1, <1>3, <2>1, <2>2, <2>3, <2>4, TypeFromParts DEF ServiceTypeOK
<1>6. Placed'
  <2>1. Placed
    BY DEF ServiceInv
  <2>2. inbox \subseteq Posts
    BY DEF ServiceInv, ServiceTypeOK
  <2> QED
    BY <1>1, <1>2, <1>3, <1>4, <2>1, <2>2 DEF Placed
<1>7. Succeeded'
  BY <1>1, <1>3, <1>4 DEF ServiceInv, Succeeded
<1>8. NoSplitBrain' /\ CutOffFirst' /\ ReportIsTrue'
  BY <1>1, <1>3 DEF ServiceInv, NoSplitBrain, CutOffFirst, ReportIsTrue
<1> QED
  BY <1>5, <1>6, <1>7, <1>8 DEF ServiceInv

\* What a statement does to the systems, in terms of its handler.
LEMMA EffectOK ==
    ASSUME ServiceInv, NEW h \in handling, h.step <= Len(Statements(h.post)), Effect(h)
    PROVE  /\ done' \in [Posts -> 0 .. 3]
           /\ done'[h.post] = h.step
           /\ \A p \in Posts : p # h.post => done'[p] = done[p]
           /\ config' \in Posts \cup {Unset}
           /\ server' \in [attached : BOOLEAN, read_only : BOOLEAN]
           /\ NoSplitBrain'
           /\ Statements(h.post) = Promotion /\ h.step = 2 => ~server'.attached
           /\ Statements(h.post) = Assignment =>
                 config' = IF h.step = 2 THEN h.post ELSE config
<1> DEFINE s == Statements(h.post)[h.step]
<1>1. /\ h.post \in Posts /\ h.step \in Nat \ {0}
      /\ done \in [Posts -> 0 .. 3] /\ config \in Posts \cup {Unset}
      /\ server \in [attached : BOOLEAN, read_only : BOOLEAN]
  <2>1. h.post \in Posts /\ h.step \in 1 .. 4
    BY AtWork
  <2> QED
    BY <2>1 DEF ServiceInv, ServiceTypeOK
<1>2. /\ h.step <= 3
      /\ s = "READ_ONLY_OFF" => Statements(h.post) = Promotion /\ h.step = 3
      /\ Statements(h.post) = Promotion /\ h.step = 2 => s = "RESET_SLAVE_ALL"
      /\ Statements(h.post) = Assignment =>
            /\ h.step \in {1, 3} => s = "CONFIG_GET"
            /\ h.step = 2 => s = "CONFIG_SET"
  BY <1>1, StatementAt
<1>3. /\ done' = [done EXCEPT ![h.post] = h.step]
      /\ config' = IF s = "CONFIG_SET" THEN h.post ELSE config
      /\ server' = [attached |-> server.attached /\ s # "RESET_SLAVE_ALL",
                    read_only |-> IF s = "READ_ONLY_OFF" THEN FALSE
                                  ELSE server.read_only \/ s = "READ_ONLY_ON"]
  BY DEF Effect, NextStatement
<1> HIDE DEF s
<1>4. /\ done' \in [Posts -> 0 .. 3] /\ done'[h.post] = h.step
      /\ \A p \in Posts : p # h.post => done'[p] = done[p]
  BY <1>1, <1>2, <1>3
<1>5. /\ server'.attached = (server.attached /\ s # "RESET_SLAVE_ALL")
      /\ server'.read_only = IF s = "READ_ONLY_OFF" THEN FALSE
                             ELSE server.read_only \/ s = "READ_ONLY_ON"
  BY <1>3
<1>6. server' \in [attached : BOOLEAN, read_only : BOOLEAN]
  BY <1>1, <1>3
<1>7. NoSplitBrain'
  <2>1. CASE s = "READ_ONLY_OFF"
    BY <1>2, <1>5, <2>1 DEF ServiceInv, CutOffFirst, NoSplitBrain
  <2>2. CASE s # "READ_ONLY_OFF"
    BY <1>5, <2>2 DEF ServiceInv, NoSplitBrain
  <2> QED
    BY <2>1, <2>2
<1>8. Statements(h.post) = Assignment => config' = IF h.step = 2 THEN h.post ELSE config
  BY <1>1, <1>2, <1>3
<1> QED
  BY <1>1, <1>2, <1>3, <1>4, <1>5, <1>6, <1>7, <1>8

LEMMA StatementInv ==
    ASSUME ServiceInv, NEW h \in handling, Statement(h)
    PROVE  ServiceInv'
<1>0. /\ h.step <= Len(Statements(h.post)) /\ Effect(h)
      /\ dry' = dry /\ plans' = plans /\ at' = at /\ statuses' = statuses /\ inbox' = inbox
  BY DEF Statement, clients
<1>1. /\ h \in [post : Posts, step : 1 .. 4, old : Posts \cup {Unset}]
      /\ h.post \in Posts /\ h.step \in 1 .. 4 /\ h.old \in Posts \cup {Unset}
      /\ Posted(h.post) /\ h.post \notin inbox /\ done[h.post] = h.step - 1
      /\ handling = {h}
  BY AtWork
<1>2. /\ done' \in [Posts -> 0 .. 3] /\ done'[h.post] = h.step
      /\ \A p \in Posts : p # h.post => done'[p] = done[p]
      /\ config' \in Posts \cup {Unset}
      /\ server' \in [attached : BOOLEAN, read_only : BOOLEAN]
      /\ NoSplitBrain'
      /\ Statements(h.post) = Promotion /\ h.step = 2 => ~server'.attached
      /\ Statements(h.post) = Assignment =>
            config' = IF h.step = 2 THEN h.post ELSE config
  BY <1>0, EffectOK
<1>3. h.step \in 1 .. 3 /\ (Statements(h.post) = Assignment /\ h.step = 1 => NextStatement(h) = "CONFIG_GET")
  BY <1>0, <1>1, StatementAt DEF NextStatement
<1>4. PICK old : old = IF NextStatement(h) = "CONFIG_GET" /\ h.step = 1 THEN config ELSE h.old
  OBVIOUS
<1>5. PICK next : next = [h EXCEPT !.step = h.step + 1, !.old = old]
  OBVIOUS
<1>6. handling' = {next}
  BY <1>1, <1>4, <1>5 DEF Statement
<1>7. old \in Posts \cup {Unset}
  BY <1>1, <1>4 DEF ServiceInv, ServiceTypeOK
<1>8. /\ next \in [post : Posts, step : 1 .. 4, old : Posts \cup {Unset}]
      /\ next.post = h.post /\ next.step = h.step + 1 /\ next.old = old
  <2>1. h.step + 1 \in 1 .. 4
    BY <1>3
  <2>2. next \in [post : Posts, step : 1 .. 4, old : Posts \cup {Unset}]
    BY <1>1, <1>5, <1>7, <2>1
  <2>3. next.post = h.post /\ next.step = h.step + 1 /\ next.old = old
    BY <1>1, <1>5
  <2> QED
    BY <2>2, <2>3
<1>9. \A q \in Posts : /\ Posted(q)' <=> Posted(q)
                       /\ Statements(q)' = Statements(q)
                       /\ HandlerOf(q)' = HandlerOf(q)
  BY <1>0, StatementsStay DEF Posted
<1>10. ServiceTypeOK' /\ PlansFit'
  <2>1. ServiceTypeOK /\ PlansFit
    BY DEF ServiceInv
  <2>2. RunsOK'
    BY <1>0, <2>1, RunsOfType DEF RunsOK, PlansFit
  <2>3. next.step <= Len(Statements(next.post)') + 1
    BY <1>0, <1>1, <1>8, <1>9, StatementsLength
  <2> QED
    BY <1>0, <1>2, <1>6, <1>8, <2>1, <2>2, <2>3, TypeFromParts DEF ServiceTypeOK
<1>11. Placed'
  <2>1. /\ \A p \in inbox : p \in Posts /\ Posted(p) /\ done[p] = 0
        /\ \A p \in Posts : ~Posted(p) => done[p] = 0
    BY DEF ServiceInv, Placed, ServiceTypeOK
  <2>2. \A p \in inbox' : Posted(p)' /\ done'[p] = 0
    BY <1>0, <1>1, <1>2, <1>9, <2>1
  <2>3. \A p \in Posts : ~Posted(p)' => done'[p] = 0
    BY <1>1, <1>2, <1>9, <2>1
  <2>4. \A g \in handling' : Posted(g.post)' /\ g.post \notin inbox' /\ done'[g.post] = g.step - 1
    BY <1>0, <1>1, <1>2, <1>6, <1>8, <1>9
  <2> QED
    BY <1>6, <2>2, <2>3, <2>4 DEF Placed
<1>12. Succeeded'
  <2> SUFFICES ASSUME NEW p \in Posts, p.index <= Len(statuses[p.run]),
                      statuses[p.run][p.index] = "success"
               PROVE  p \notin inbox /\ next.post # p /\ done'[p] = Len(Statements(p)')
    BY <1>0, <1>6 DEF Succeeded
  <2>1. p \notin inbox /\ h.post # p /\ done[p] = Len(Statements(p))
    BY DEF ServiceInv, Succeeded
  <2> QED
    BY <1>2, <1>8, <1>9, <2>1
<1>13. CutOffFirst'
  <2>1. Statements(next.post)' = Statements(h.post)
    BY <1>1, <1>8, <1>9
  <2>2. next.step = 3 => h.step = 2
    BY <1>1, <1>8
  <2> QED
    BY <1>2, <1>6, <2>1, <2>2 DEF CutOffFirst
<1>14. ReportIsTrue'
  <2> SUFFICES ASSUME HandlerOf(h.post) = "redis_config_set", Statements(h.post) # << >>
               PROVE  /\ next.step = 2 => old = config'
                      /\ next.step > 2 => config' = h.post
    BY <1>1, <1>6, <1>8, <1>9 DEF ReportIsTrue
  <2>1. Statements(h.post) = Assignment
    BY StatementsOf
  <2>2. config' = IF h.step = 2 THEN h.post ELSE config
    BY <1>2, <2>1
  <2>3. CASE h.step = 1
    BY <1>3, <1>4, <1>8, <2>1, <2>2, <2>3
  <2>4. CASE h.step = 2
    BY <1>8, <2>2, <2>4
  <2>5. CASE h.step = 3
    <3>1. config = h.post
      BY <2>5 DEF ServiceInv, ReportIsTrue
    <3> QED
      BY <1>8, <2>2, <2>5, <3>1
  <2> QED
    BY <1>3, <2>3, <2>4, <2>5
<1> QED
  BY <1>2, <1>10, <1>11, <1>12, <1>13, <1>14 DEF ServiceInv

\* A handler comes to its end: its answer may be "success" when it has taken
\* all its steps.
LEMMA EndInv ==
    ASSUME ServiceInv, NEW h \in handling, NEW st \in Codes,
           handling' = handling \ {h}, Answer(h.post, st), dry' = dry, inbox' = inbox,
           \/ UNCHANGED systems
           \/ h.step <= Len(Statements(h.post)) /\ Effect(h),
           st = "success" =>
              h.step > Len(Statements(h.post)) /\ UNCHANGED systems
    PROVE  ServiceInv'
<1>1. /\ h.post \in Posts /\ h.step \in 1 .. 4 /\ h.step <= Len(Statements(h.post)) + 1
      /\ Posted(h.post) /\ h.post \notin inbox /\ done[h.post] = h.step - 1
      /\ handling = {h}
  BY AtWork
<1>2. handling' = {}
  BY <1>1
<1>3. ServiceTypeOK /\ PlansFit
  BY DEF ServiceInv
<1>4. /\ Keeps
      /\ \A p \in Posts : Posted(p)' => Posted(p)
      /\ \A p \in Posts :
            p.index <= Len(statuses'[p.run]) =>
               \/ p = h.post /\ statuses'[p.run][p.index] = st
               \/ /\ p.index <= Len(statuses[p.run])
                  /\ statuses'[p.run][p.index] = statuses[p.run][p.index]
  BY <1>1, <1>3, AnswerOK
<1>5. /\ done' \in [Posts -> 0 .. 3]
      /\ \A p \in Posts : p # h.post => done'[p] = done[p]
      /\ config' \in Posts \cup {Unset}
      /\ server' \in [attached : BOOLEAN, read_only : BOOLEAN]
      /\ NoSplitBrain'
  <2>1. CASE UNCHANGED systems
    BY <1>3, <2>1 DEF systems, ServiceInv, ServiceTypeOK, NoSplitBrain
  <2>2. CASE h.step <= Len(Statements(h.post)) /\ Effect(h)
    BY <2>2, EffectOK
  <2> QED
    BY <2>1, <2>2
<1>6. ServiceTypeOK' /\ PlansFit'
  BY <1>2, <1>3, <1>4, <1>5, TypeFromParts DEF Keeps, ServiceTypeOK
<1>7. Placed'
  <2>1. /\ \A p \in inbox : p \in Posts /\ Posted(p) /\ done[p] = 0
        /\ \A p \in Posts : ~Posted(p) => done[p] = 0
    BY DEF ServiceInv, Placed, ServiceTypeOK
  <2>2. \A p \in inbox' : Posted(p)' /\ done'[p] = 0
    BY <1>1, <1>4, <1>5, <2>1 DEF Keeps
  <2>3. \A p \in Posts : ~Posted(p)' => done'[p] = 0
    BY <1>1, <1>4, <1>5, <2>1 DEF Keeps
  <2> QED
    BY <1>2, <2>2, <2>3 DEF Placed
<1>8. Succeeded'
  <2> SUFFICES ASSUME NEW p \in Posts, p.index <= Len(statuses'[p.run]),
                      statuses'[p.run][p.index] = "success"
               PROVE  p \notin inbox /\ done'[p] = Len(Statements(p)')
    BY <1>2 DEF Succeeded
  <2>1. Statements(p)' = Statements(p)
    <3>1. Posted(p)
      BY <1>4 DEF Posted
    <3> QED
      BY <1>4, <3>1, KeptStatements
  <2>2. CASE p = h.post /\ st = "success"
    <3>1. done' = done /\ h.step = Len(Statements(h.post)) + 1
      BY <1>1, <2>2, StatementsLength DEF systems
    <3> QED
      BY <1>1, <2>1, <2>2, <3>1, StatementsLength
  <2>3. CASE p.index <= Len(statuses[p.run]) /\ statuses[p.run][p.index] = "success"
    <3>1. p \notin inbox /\ h.post # p /\ done[p] = Len(Statements(p))
      BY <2>3 DEF ServiceInv, Succeeded
    <3> QED
      BY <1>5, <2>1, <3>1
  <2> QED
    BY <1>4, <2>2, <2>3
<1>9. CutOffFirst' /\ ReportIsTrue'
  BY <1>2 DEF CutOffFirst, ReportIsTrue
<1> QED
  BY <1>5, <1>6, <1>7, <1>8, <1>9 DEF ServiceInv

----------------------------------------------------------------------------
(* The invariant and the theorems *)

LEMMA InitServiceInv == Init => ServiceInv
<1> SUFFICES ASSUME Init PROVE ServiceInv
  OBVIOUS
<1>1. RunsOK
  BY DEF Init, RunsOK, PlansFit
<1>2. /\ inbox = {} /\ handling = {} /\ config = Unset
      /\ done = [p \in Posts |-> 0] /\ dry \in BOOLEAN
      /\ \A r \in Runs : Len(statuses[r]) = 0
  BY DEF Init
<1>3. PICK replica \in BOOLEAN : server = [attached |-> replica, read_only |-> replica]
  BY DEF Init
<1>4. ServiceTypeOK /\ PlansFit
  <2>1. server \in [attached : BOOLEAN, read_only : BOOLEAN]
    BY <1>3
  <2> QED
    BY <1>1, <1>2, <2>1 DEF RunsOK, ServiceTypeOK, Codes
<1>5. Placed
  BY <1>2 DEF Placed
<1>6. Succeeded
  BY <1>2, PostFields DEF Succeeded
<1>7. NoSplitBrain
  BY <1>3 DEF NoSplitBrain
<1> QED
  BY <1>2, <1>4, <1>5, <1>6, <1>7 DEF ServiceInv, CutOffFirst, ReportIsTrue

LEMMA NextServiceInv == ServiceInv /\ [Next]_vars => ServiceInv'
<1> SUFFICES ASSUME ServiceInv, [Next]_vars PROVE ServiceInv'
  OBVIOUS
<1>1. CASE \E r \in Runs : Begin(r) \/ RunStep(r)
  BY <1>1, PostActionInv, RunsInv DEF RunStep
<1>2. ASSUME NEW p \in inbox, Lose(p) PROVE ServiceInv'
  <2>1. UNCHANGED <<dry, clients, systems>> /\ inbox' \subseteq inbox /\ handling' \subseteq handling
    BY <1>2 DEF Lose
  <2> QED
    BY <2>1, Forgotten
<1>3. ASSUME NEW p \in inbox, StartHandler(p) PROVE ServiceInv'
  BY <1>3, StartInv
<1>4. ASSUME NEW h \in handling, Statement(h) PROVE ServiceInv'
  BY <1>4, StatementInv
<1>5. ASSUME NEW h \in handling, StatementFails(h) PROVE ServiceInv'
  <2>1. /\ handling' = handling \ {h} /\ Answer(h.post, "failed")
        /\ dry' = dry /\ inbox' = inbox /\ "failed" \in Codes
        /\ \/ UNCHANGED systems
           \/ h.step <= Len(Statements(h.post)) /\ Effect(h)
    BY <1>5 DEF StatementFails, Codes
  <2> QED
    BY <2>1, EndInv
<1>6. ASSUME NEW h \in handling, HandlerReturns(h) PROVE ServiceInv'
  <2>1. /\ handling' = handling \ {h} /\ Answer(h.post, StatusOf(h.post))
        /\ dry' = dry /\ inbox' = inbox /\ UNCHANGED systems
        /\ h.step > Len(Statements(h.post))
    BY <1>6 DEF HandlerReturns
  <2>2. StatusOf(h.post) \in Codes
    BY DEF StatusOf, Codes
  <2>3. PICK st \in Codes : Answer(h.post, st)
    BY <2>1, <2>2
  <2> QED
    BY <2>1, <2>3, EndInv
<1>7. CASE SupervisorRestart
  BY <1>7, RunsInv
<1>8. CASE ExecutorRestart
  <2>1. UNCHANGED <<dry, clients, systems>> /\ inbox' \subseteq inbox /\ handling' \subseteq handling
    BY <1>8 DEF ExecutorRestart
  <2> QED
    BY <2>1, Forgotten
<1>9. CASE UNCHANGED vars
  BY <1>9, Forgotten DEF vars
<1> QED
  BY <1>1, <1>2, <1>3, <1>4, <1>5, <1>6, <1>7, <1>8, <1>9 DEF Next

THEOREM ServiceInvariant == Spec => []ServiceInv
  BY InitServiceInv, NextServiceInv, PTL DEF Spec

\* The executor's state keeps its types, for any plans and however many runs
\* post at a time: no run is told of more actions than its plan has.
THEOREM ServiceTypeCorrect == Spec => []ServiceTypeOK
<1>1. ServiceInv => ServiceTypeOK
  BY DEF ServiceInv
<1> QED
  BY <1>1, ServiceInvariant, PTL

\* "success" from the executor means that every statement took effect.
THEOREM SuccessHolds == Spec => []SuccessIsDone
<1>1. ServiceInv => SuccessIsDone
  <2> SUFFICES ASSUME ServiceInv, NEW r \in Runs, NEW i \in DOMAIN statuses[r],
                      statuses[r][i] = "success"
               PROVE  done[[run |-> r, index |-> i]] = Len(Statements([run |-> r, index |-> i]))
    BY DEF SuccessIsDone
  <2>1. PICK p : p = [run |-> r, index |-> i]
    OBVIOUS
  <2>2. i \in Nat \ {0} /\ i <= Len(statuses[r]) /\ i <= MaxActions
    BY PlanLength, PlansAssumption DEF ServiceInv
  <2>3. p \in Posts /\ p.run = r /\ p.index = i
    BY <2>1, <2>2, PlansAssumption DEF Posts
  <2> QED
    BY <2>1, <2>2, <2>3 DEF ServiceInv, Succeeded
<1> QED
  BY <1>1, ServiceInvariant, PTL

\* No failover, finished or broken off, leaves a server that takes writes and
\* follows a source.
THEOREM NoSplitBrainHolds == Spec => []NoSplitBrain
<1>1. ServiceInv => NoSplitBrain
  BY DEF ServiceInv
<1> QED
  BY <1>1, ServiceInvariant, PTL

\* redis_config_set reports the value it replaced and the value it set.
THEOREM ReportIsTrueHolds == Spec => []ReportIsTrue
<1>1. ServiceInv => ReportIsTrue
  BY DEF ServiceInv
<1> QED
  BY <1>1, ServiceInvariant, PTL
====
