----------------------------- MODULE SerialProofs -----------------------------
(***************************************************************************)
(* The engine when requests come one at a time: worklist, fields, joins and*)
(* the end of the flow, for every process definition.                      *)
(***************************************************************************)
EXTENDS SerialFlow, ControlProofs

-----------------------------------------------------------------------------
(* Where control runs through.                                             *)

LEMMA OutgoingStages ==
    ASSUME NEW p \in Stage
    PROVE  Outgoing(p) \subseteq Stage /\ NextStages(p) \subseteq Outgoing(p)
<1>1. NextStages(p) \subseteq Stage
  BY EdgeAssumption DEF NextStages
<1>2. branches[p] \subseteq Stage /\ EndStage \in Stage
  BY EdgeAssumption, StageAssumption
<1> QED
  BY <1>1, <1>2 DEF Outgoing

LEMMA RunSelf == ASSUME NEW x \in Stage PROVE x \in Run[x]
  BY DEF Run

LEMMA RunStages == ASSUME NEW x \in Stage PROVE Run[x] \subseteq Stage
  BY DEF Run

LEMMA RunNext ==
    ASSUME NEW x \in Stage, NEW p \in Run[x], kind[p] \in Passing, NEW n \in Outgoing(p)
    PROVE  n \in Run[x]
<1>1. p \in Stage /\ n \in Stage
  BY RunStages, OutgoingStages
<1>2. ASSUME NEW R \in SUBSET Stage, x \in R, Closed(R)
      PROVE  n \in R
  <2>1. p \in R
    BY <1>2 DEF Run
  <2>2. p \in R \cap StagesOf(Passing)
    BY <1>1, <2>1 DEF StagesOf
  <2> QED
    BY <1>2, <2>2 DEF Closed
<1> QED
  BY <1>1, <1>2 DEF Run

LEMMA RunTransitive ==
    ASSUME NEW x \in Stage, NEW y \in Run[x]
    PROVE  Run[y] \subseteq Run[x]
<1>1. y \in Stage
  BY RunStages
<1> SUFFICES ASSUME NEW s \in Run[y] PROVE s \in Run[x]
  OBVIOUS
<1>2. ASSUME NEW R \in SUBSET Stage, x \in R, Closed(R)
      PROVE  s \in R
  <2>1. y \in R
    BY <1>2 DEF Run
  <2> QED
    BY <1>1, <1>2, <2>1 DEF Run
<1> QED
  BY <1>1, <1>2, RunStages DEF Run

\* What control may do from a later stage it may do from an earlier one.
LEMMA RunOnward ==
    ASSUME NEW p \in Stage, kind[p] \in Passing, NEW n \in Outgoing(p)
    PROVE  /\ n \in Stage /\ Run[n] \subseteq Run[p]
           /\ Opens(n) => Opens(p)
           /\ Ends(n) => Ends(p)
<1>1. n \in Stage /\ n \in Run[p]
  BY OutgoingStages, RunSelf, RunNext
<1>2. Run[n] \subseteq Run[p]
  BY <1>1, RunTransitive
<1> QED
  BY <1>1, <1>2 DEF Opens, Ends

LEMMA OpenedOpens ==
    ASSUME NEW p \in Stage, kind[p] \in Opened
    PROVE  Opens(p)
  BY RunSelf DEF Opens, StagesOf

-----------------------------------------------------------------------------
(* Agendas.                                                                *)

\* The agenda of a handler that has made the calls of the sequence new.
LEMMA Spliced ==
    ASSUME NEW S, NEW q \in Seq(S), q # <<>>, NEW new \in Seq(S), NEW r, r = new \o Tail(q)
    PROVE  /\ r \in Seq(S)
           /\ Len(new) \in Nat /\ Len(q) \in Nat \ {0}
           /\ DOMAIN new = 1..Len(new) /\ DOMAIN q = 1..Len(q) /\ DOMAIN r = 1..Len(r)
           /\ Len(r) = Len(new) + Len(q) - 1
           /\ \A i \in 1..Len(r) :
                IF i <= Len(new) THEN r[i] = new[i]
                ELSE i - Len(new) + 1 \in 2..Len(q) /\ r[i] = q[i - Len(new) + 1]
<1>1. /\ Tail(q) \in Seq(S) /\ Len(Tail(q)) = Len(q) - 1
      /\ Len(q) \in Nat \ {0}
      /\ \A i \in 1..Len(Tail(q)) : Tail(q)[i] = q[i + 1]
  BY HeadTailProperties, EmptySeq
<1>2. /\ r \in Seq(S) /\ Len(r) = Len(new) + Len(Tail(q))
      /\ \A i \in 1..Len(r) : r[i] = IF i <= Len(new) THEN new[i] ELSE Tail(q)[i - Len(new)]
  BY <1>1, ConcatProperties
<1>3. Len(new) \in Nat
  OBVIOUS
<1>4. ASSUME NEW i \in 1..Len(r), ~(i <= Len(new))
      PROVE  /\ i - Len(new) \in 1..Len(Tail(q))
             /\ i - Len(new) + 1 \in 2..Len(q)
             /\ r[i] = q[i - Len(new) + 1]
  <2>1. i - Len(new) \in 1..Len(Tail(q)) /\ i - Len(new) + 1 \in 2..Len(q)
    BY <1>1, <1>2, <1>3, <1>4
  <2> QED
    BY <1>1, <1>2, <1>4, <2>1
<1>5. DOMAIN new = 1..Len(new) /\ DOMAIN q = 1..Len(q) /\ DOMAIN r = 1..Len(r)
  BY <1>2
<1> QED
  BY <1>1, <1>2, <1>3, <1>4, <1>5

\* A sequence with one more call behind or in front.
LEMMA WithLast ==
    ASSUME NEW S, NEW s \in Seq(S), NEW x \in S, NEW r, r = s \o <<x>>
    PROVE  /\ r \in Seq(S) /\ DOMAIN r = 1..(Len(s) + 1) /\ Len(r) = Len(s) + 1
           /\ \A i \in 1..Len(s) : r[i] = s[i]
           /\ r[Len(s) + 1] = x
<1>1. <<x>> \in Seq(S) /\ Len(<<x>>) = 1 /\ <<x>>[1] = x /\ Len(s) \in Nat
  OBVIOUS
<1>2. /\ r \in Seq(S) /\ Len(r) = Len(s) + 1
      /\ \A i \in 1..Len(s) + 1 : r[i] = IF i <= Len(s) THEN s[i] ELSE <<x>>[i - Len(s)]
  BY <1>1, ConcatProperties
<1>3. \A i \in 1..Len(s) : r[i] = s[i]
  BY <1>1, <1>2
<1>4. r[Len(s) + 1] = x
  <2>1. Len(s) + 1 \in 1..Len(s) + 1 /\ ~(Len(s) + 1 <= Len(s)) /\ (Len(s) + 1) - Len(s) = 1
    BY <1>1
  <2> QED
    BY <1>1, <1>2, <2>1
<1> QED
  BY <1>2, <1>3, <1>4

LEMMA WithFirst ==
    ASSUME NEW S, NEW s \in Seq(S), NEW x \in S, NEW r, r = <<x>> \o s
    PROVE  /\ r \in Seq(S) /\ DOMAIN r = 1..(Len(s) + 1) /\ Len(r) = Len(s) + 1
           /\ r[1] = x
           /\ \A i \in 2..(Len(s) + 1) : i - 1 \in 1..Len(s) /\ r[i] = s[i - 1]
<1>1. <<x>> \in Seq(S) /\ Len(<<x>>) = 1 /\ <<x>>[1] = x /\ Len(s) \in Nat
  OBVIOUS
<1>2. /\ r \in Seq(S) /\ Len(r) = 1 + Len(s)
      /\ \A i \in 1..1 + Len(s) : r[i] = IF i <= 1 THEN <<x>>[i] ELSE s[i - 1]
  BY <1>1, ConcatProperties
<1>3. DOMAIN r = 1..(Len(s) + 1)
  BY <1>1, <1>2
<1>4. r[1] = x
  BY <1>1, <1>2
<1>5. ASSUME NEW i \in 2..(Len(s) + 1)
      PROVE  i - 1 \in 1..Len(s) /\ r[i] = s[i - 1]
  BY <1>1, <1>2
<1> QED
  BY <1>1, <1>2, <1>3, <1>4, <1>5

-----------------------------------------------------------------------------
(* What a call of the executor may call: where, in which order, and what   *)
(* those calls may be about.                                               *)

\* The calls new that call c makes; c is the last of its agenda or not.
Follows(c, last, new) ==
    /\ \A i \in DOMAIN new :
         /\ Fits(new[i], i = 1, i = Len(new) /\ last)
         /\ new[i].op # "startFlow"
         /\ new[i].at # c.at =>
              /\ new[i].at \in Outgoing(c.at)
              /\ \/ c.op = "startFlow"
                 \/ kind[c.at] \in Passing
                 \/ kind[c.at] = "user" /\ last
         /\ new[i].op \in Carries \cup {"makeFlowEnd"} =>
              c.op \in Carries \cup {"startFlow"}
         /\ new[i].op = "goToNextStage" =>
              /\ new[i].at \in Outgoing(c.at)
              /\ kind[c.at] = "parallel" =>
                   /\ i \in DOMAIN nextOf[c.at] /\ new[i].at = nextOf[c.at][i]
                   /\ \A h \in 1..i : new[h].at = nextOf[c.at][h]
         /\ new[i].op = "makeStageActive" =>
              i = 1 /\ c.op = "goToNextStage" /\ c.at = new[i].at
         /\ new[i].op \in LagOp =>
              c.at = new[i].at /\ c.op \notin {"goToNextStage", "iterateNextStages"}
    /\ OrderedForks => \A i, j \in DOMAIN new :
         i < j /\ MayEnd(new[i]) /\ MayOpen(new[j]) => \E h \in 1..(i - 1) : Holds(new[h])
    /\ Holds(c) => c.op = "makeStageActive" \/ \E i \in DOMAIN new : Holds(new[i])

\* One call at the stage of c, other than a hop.
LEMMA OneFollows ==
    ASSUME NEW c, NEW last \in BOOLEAN, NEW d, d.at = c.at,
           Fits(d, TRUE, last), d.op \notin {"startFlow", "goToNextStage"},
           d.op \in Carries \cup {"makeFlowEnd"} => c.op \in Carries \cup {"startFlow"},
           d.op = "makeStageActive" => c.op = "goToNextStage",
           d.op \in LagOp => c.op \notin {"goToNextStage", "iterateNextStages"},
           Holds(c) => c.op = "makeStageActive" \/ Holds(d)
    PROVE  Follows(c, last, <<d>>)
<1>1. DOMAIN <<d>> = {1} /\ Len(<<d>>) = 1 /\ <<d>>[1] = d
  OBVIOUS
<1>2. (1 = Len(<<d>>) /\ last) = last
  OBVIOUS
<1> HIDE DEF Fits, Carries
<1>3. \A i, j \in DOMAIN <<d>> : ~(i < j)
  BY <1>1
<1> QED
  BY <1>1, <1>2, <1>3 DEF Follows

LEMMA NoneFollows ==
    ASSUME NEW c, NEW last \in BOOLEAN, Holds(c) => c.op = "makeStageActive"
    PROVE  Follows(c, last, <<>>)
  BY DEF Follows

LEMMA Hop ==
    ASSUME NEW x
    PROVE  /\ Do("goToNextStage", x).op = "goToNextStage"
           /\ Do("goToNextStage", x).at = x
           /\ \A first, last : Fits(Do("goToNextStage", x), first, last)
           /\ Holds(Do("goToNextStage", x)) <=> kind[x] \in Waiting
           /\ MayOpen(Do("goToNextStage", x)) <=> Opens(x)
           /\ MayEnd(Do("goToNextStage", x)) <=> Ends(x)
<1>1. Do("goToNextStage", x).op = "goToNextStage" /\ Do("goToNextStage", x).at = x
  BY DEF Do
<1> QED
  BY <1>1 DEF Fits, EngineOp, Behind, Holds, MayOpen, MayEnd, Carries

\* A fork of stage p in front of or behind (off) a call of the gateway p itself.
LEMMA ForkFollows ==
    ASSUME NEW p \in Stage, NEW c, c.at = p, NEW last \in BOOLEAN,
           NEW off \in {0, 1}, NEW new \in Seq(Call),
           \A i \in DOMAIN new :
              \/ /\ i - off \in DOMAIN nextOf[p]
                 /\ new[i] = Do("goToNextStage", nextOf[p][i - off])
              \/ /\ new[i].at = p
                 /\ new[i].op \in {"markStageCompleted", "updateUserTask"}
                 /\ Fits(new[i], i = 1, i = Len(new) /\ last),
           \A n \in DOMAIN nextOf[p] : 
              n + off \in DOMAIN new /\ new[n + off] = Do("goToNextStage", nextOf[p][n]),
           kind[p] = "parallel" => off = 0,
           c.op \in Carries \cup {"startFlow"},
           ~Holds(c),
           (\E i \in DOMAIN new : new[i].op = "updateUserTask") => c.op = "afterComplete",
           \/ c.op = "startFlow"
           \/ kind[p] \in Passing
           \/ kind[p] = "user" /\ last
    PROVE  Follows(c, last, new)
<1>1. nextOf[p] \in Seq(Stage) /\ DOMAIN nextOf[p] = 1..Len(nextOf[p]) /\ Len(nextOf[p]) \in Nat
  BY EdgeAssumption
<1>2. DOMAIN new = 1..Len(new) /\ Len(new) \in Nat
  OBVIOUS
<1>3. ASSUME NEW i \in DOMAIN new, i - off \in DOMAIN nextOf[p],
             new[i] = Do("goToNextStage", nextOf[p][i - off])
      PROVE  /\ Fits(new[i], i = 1, i = Len(new) /\ last)
             /\ new[i].op = "goToNextStage" /\ new[i].at = nextOf[p][i - off]
             /\ new[i].at \in Outgoing(p)
  BY <1>3, Hop DEF Outgoing, NextStages
<1>4. ASSUME NEW i \in DOMAIN new, kind[p] = "parallel", new[i].op = "goToNextStage"
      PROVE  /\ i \in DOMAIN nextOf[p] /\ new[i].at = nextOf[p][i]
             /\ \A h \in 1..i : new[h].at = nextOf[p][h]
  <2>1. off = 0 /\ i \in DOMAIN nextOf[p]
    <3>1. i - 0 = i
      BY <1>2
    <3> QED
      BY <1>4, <3>1
  <2>2. ASSUME NEW h \in 1..i
        PROVE  new[h].at = nextOf[p][h]
    <3>1. h \in DOMAIN nextOf[p] /\ h + 0 = h
      BY <1>1, <1>2, <2>1
    <3> QED
      BY <2>1, <3>1, Hop
  <2> QED
    BY <1>2, <2>1, <2>2
<1>5. ASSUME OrderedForks, NEW i \in DOMAIN new, NEW j \in DOMAIN new,
             i < j, MayEnd(new[i]), MayOpen(new[j])
      PROVE  \E h \in 1..(i - 1) : Holds(new[h])
  <2>1. new[i].op \notin {"markStageCompleted", "updateUserTask"}
        /\ new[j].op \notin {"markStageCompleted", "updateUserTask"}
    BY <1>5 DEF MayEnd, MayOpen, Carries
  <2>2. /\ i - off \in DOMAIN nextOf[p] /\ new[i] = Do("goToNextStage", nextOf[p][i - off])
        /\ j - off \in DOMAIN nextOf[p] /\ new[j] = Do("goToNextStage", nextOf[p][j - off])
    BY <2>1
  <2>3. Ends(nextOf[p][i - off]) /\ Opens(nextOf[p][j - off])
    BY <1>5, <2>2, Hop
  <2>4. i - off < j - off
    BY <1>2, <1>5
  <2>5. PICK h \in 1..((i - off) - 1) : kind[nextOf[p][h]] \in Waiting
    BY <1>5, <2>2, <2>3, <2>4 DEF OrderedForks
  <2>6. h \in DOMAIN nextOf[p] /\ h + off \in 1..(i - 1)
    <3>1. i - off \in 1..Len(nextOf[p]) /\ i \in Nat
      BY <1>1, <1>2, <2>2
    <3>2. h \in 1..((i - off) - 1)
      OBVIOUS
    <3>3. h \in 1..Len(nextOf[p])
      BY <1>1, <3>1, <3>2
    <3>4. h + off \in 1..(i - 1)
      BY <3>1, <3>2
    <3> QED
      BY <1>1, <3>3, <3>4
  <2>7. Holds(new[h + off])
    BY <2>5, <2>6, Hop
  <2> QED
    BY <2>6, <2>7
<1>6. ASSUME NEW i \in DOMAIN new
      PROVE  /\ Fits(new[i], i = 1, i = Len(new) /\ last)
             /\ new[i].op \in {"goToNextStage", "markStageCompleted", "updateUserTask"}
             /\ new[i].at # p => new[i].at \in Outgoing(p)
             /\ new[i].op = "goToNextStage" => new[i].at \in Outgoing(p)
  <2>1. CASE /\ i - off \in DOMAIN nextOf[p]
             /\ new[i] = Do("goToNextStage", nextOf[p][i - off])
    BY <1>3, <2>1
  <2>2. CASE /\ new[i].at = p
             /\ new[i].op \in {"markStageCompleted", "updateUserTask"}
             /\ Fits(new[i], i = 1, i = Len(new) /\ last)
    BY <2>2
  <2> QED
    BY <2>1, <2>2
<1>7. ASSUME NEW i \in DOMAIN new, new[i].op \in LagOp
      PROVE  c.at = new[i].at /\ c.op \notin {"goToNextStage", "iterateNextStages"}
  <2>1. CASE new[i] = Do("goToNextStage", nextOf[p][i - off])
    BY <1>7, <2>1, Hop DEF LagOp
  <2>2. CASE new[i].at = p /\ new[i].op \in {"markStageCompleted", "updateUserTask"}
    BY <1>7, <2>2 DEF LagOp
  <2> QED
    BY <2>1, <2>2
<1> QED
  BY <1>4, <1>5, <1>6, <1>7 DEF Follows

\* The same for the hops alone, and with a mark of the gateway behind them.
LEMMA HopsFollow ==
    ASSUME NEW p \in Stage, NEW c, c.at = p, NEW last \in BOOLEAN, NEW new \in Seq(Call),
           DOMAIN nextOf[p] \subseteq DOMAIN new,
           \A n \in DOMAIN nextOf[p] : new[n] = Do("goToNextStage", nextOf[p][n]),
           \A i \in DOMAIN new \ DOMAIN nextOf[p] :
              /\ new[i].at = p /\ new[i].op = "markStageCompleted"
              /\ Fits(new[i], i = 1, i = Len(new) /\ last),
           c.op \in Carries \cup {"startFlow"},
           ~Holds(c),
           \/ c.op = "startFlow"
           \/ kind[p] \in Passing
           \/ kind[p] = "user" /\ last
    PROVE  Follows(c, last, new)
<1>1. DOMAIN nextOf[p] = 1..Len(nextOf[p]) /\ Len(nextOf[p]) \in Nat
      /\ DOMAIN new = 1..Len(new) /\ Len(new) \in Nat
  BY EdgeAssumption
<1>2. \A i \in DOMAIN new : i - 0 = i
  BY <1>1
<1>3. \A n \in DOMAIN nextOf[p] : n + 0 = n
  BY <1>1
<1>4. \A i \in DOMAIN new :
        \/ /\ i - 0 \in DOMAIN nextOf[p]
           /\ new[i] = Do("goToNextStage", nextOf[p][i - 0])
        \/ /\ new[i].at = p
           /\ new[i].op \in {"markStageCompleted", "updateUserTask"}
           /\ Fits(new[i], i = 1, i = Len(new) /\ last)
  BY <1>2
<1>5. \A n \in DOMAIN nextOf[p] :
        n + 0 \in DOMAIN new /\ new[n + 0] = Do("goToNextStage", nextOf[p][n])
  BY <1>3
<1>6. ~\E i \in DOMAIN new : new[i].op = "updateUserTask"
  BY <1>1, Hop
<1> QED
  BY <1>4, <1>5, <1>6, ForkFollows

-----------------------------------------------------------------------------
(* What a call of the executor writes.                                     *)

\* Stages change one at a time, and only the calls named here change them.
Writes(c) ==
    /\ \A s \in Stage \ {c.at} : status'[s] = status[s] /\ failed'[s] = failed[s]
    /\ c.op = "startFlow" => status'[c.at] = "started"
    /\ c.op = "makeStageActive" => status'[c.at] = "active"
    /\ c.op = "makeTaskComplete" =>
         /\ status'[c.at] \in {"completed", "error"}
         /\ status'[c.at] = "error" => failed'[c.at] /\ c.at \in showsError
    /\ c.op \in {"makeFlowEnd", "markStageCompleted"} => status'[c.at] = "completed"
    /\ c.op \notin {"startFlow", "makeStageActive", "makeTaskComplete", "makeFlowEnd",
                    "markStageCompleted"} => status' = status /\ failed' = failed
    /\ flow' = IF c.op = "makeFlowEnd" THEN "completed" ELSE flow

\* The parameters, and the stages that have finished.
Saves(c) ==
    /\ done' \in {done, done \cup {c.at}}
    /\ c.op = "makeTaskComplete" => params' = c.seen \cup {c.at}
    /\ c.op \notin {"makeTaskComplete", "startFlow"} =>
         params' = params /\ (kind[c.at] \in Activity => done' = done)

\* What the calls it makes have read.
Reads(c, new) ==
    \A i \in DOMAIN new :
      /\ new[i].op = "makeTaskComplete" => new[i].seen = params'
      /\ new[i].op = "goToNextStage" /\ kind[c.at] = "parallel" =>
           JoinReady(c.at) /\ c.op = "goToNextStage"
      /\ new[i].op = "makeFlowEnd" => ~AnyActive /\ status' = status

Step(t, new) ==
    /\ new \in Seq(Call) /\ Then(t, new)
    /\ Follows(Head(agenda[t]), Tail(agenda[t]) = <<>>, new)
    /\ Writes(Head(agenda[t])) /\ Saves(Head(agenda[t])) /\ Reads(Head(agenda[t]), new)

LEMMA HeadFits ==
    ASSUME TypeOK, NEW t \in Thread, Working(t), NEW op, Turn(t, op)
    PROVE  LET c == Head(agenda[t]) IN
           /\ ~Idle(t) /\ c \in Call /\ c.op = op /\ c.at \in Stage
           /\ agenda[t] \in Seq(Call) /\ agenda[t] # <<>> /\ c = agenda[t][1]
           /\ (Len(agenda[t]) = 1) = (Tail(agenda[t]) = <<>>)
           /\ Fits(c, TRUE, Tail(agenda[t]) = <<>>)
<1>1. agenda[t] \in Seq(Call) /\ agenda[t] # <<>>
  BY DEF TypeOK, Turn, Idle
<1>2. /\ Len(agenda[t]) \in Nat \ {0} /\ DOMAIN agenda[t] = 1..Len(agenda[t])
      /\ Head(agenda[t]) = agenda[t][1]
  BY <1>1, EmptySeq
<1>3. (Len(agenda[t]) = 1) = (Tail(agenda[t]) = <<>>)
  <2>1. Tail(agenda[t]) \in Seq(Call) /\ Len(Tail(agenda[t])) = Len(agenda[t]) - 1
    BY <1>1, HeadTailProperties
  <2>2. Tail(agenda[t]) = <<>> <=> Len(Tail(agenda[t])) = 0
    BY <2>1, EmptySeq
  <2> QED
    BY <1>2, <2>1, <2>2
<1>4. Fits(agenda[t][1], 1 = 1, 1 = Len(agenda[t]))
  <2>1. 1 \in DOMAIN agenda[t]
    BY <1>2
  <2> QED
    BY <2>1 DEF Working
<1>5. (1 = 1) = TRUE /\ (1 = Len(agenda[t])) = (Tail(agenda[t]) = <<>>)
  BY <1>3
<1>6. Fits(agenda[t][1], TRUE, Tail(agenda[t]) = <<>>)
  BY <1>4, <1>5
<1> QED
  BY <1>1, <1>2, <1>3, <1>6, TurnType

LEMMA StartFlowSteps ==
    ASSUME TypeOK, NEW t \in Thread, Working(t), StartFlow(t)
    PROVE  \E new : Step(t, new)
<1> DEFINE c == Head(agenda[t])  last == Tail(agenda[t]) = <<>>
<1>1. /\ c.op = "startFlow" /\ c.at = Start /\ Start \in Stage /\ kind[Start] = "start"
      /\ Then(t, Hops(Start)) /\ Hops(Start) \in Seq(Call)
      /\ status' = [status EXCEPT ![Start] = "started"] /\ failed' = failed /\ flow' = flow
      /\ done' = done \cup {Start}
  BY HeadFits, StageAssumption, HopsType DEF StartFlow, Fits
<1>2. nextOf[Start] \in Seq(Stage) /\ DOMAIN nextOf[Start] = {1}
  BY <1>1, EdgeAssumption
<1>3. Follows(c, last, Hops(Start))
  <2>1. DOMAIN Hops(Start) = DOMAIN nextOf[Start]
        /\ \A i \in DOMAIN nextOf[Start] :
             Hops(Start)[i] = Do("goToNextStage", nextOf[Start][i])
    BY DEF Hops
  <2>2. ~Holds(c) /\ kind[Start] # "parallel" /\ Len(Hops(Start)) \in Nat
    BY <1>1 DEF Holds
  <2> QED
    BY <1>1, <2>1, <2>2, HopsFollow
<1>4. Writes(c) /\ Saves(c)
  BY <1>1 DEF Writes, Saves, TypeOK
<1>5. Reads(c, Hops(Start))
  BY <1>1, <1>2, Hop DEF Reads, Hops
<1> QED
  BY <1>1, <1>3, <1>4, <1>5 DEF Step

\* The calls of makeTaskComplete, of the end and of a mark.
LEMMA CallFields ==
    ASSUME NEW k, NEW e
    PROVE  /\ [TaskCompletion(k) EXCEPT !.flag = e].op = "makeTaskComplete"
           /\ [TaskCompletion(k) EXCEPT !.flag = e].at = k
           /\ [TaskCompletion(k) EXCEPT !.flag = e].seen = params
           /\ TaskCompletion(k).op = "makeTaskComplete"
           /\ TaskCompletion(k).at = k
           /\ TaskCompletion(k).seen = params
           /\ FlowEnd(k).at = k
           /\ FlowEnd(k).op = IF AnyActive THEN "markStageCompleted" ELSE "makeFlowEnd"
           /\ \A op : Do(op, k).op = op /\ Do(op, k).at = k
           /\ \A op : DoIf(op, k, e).op = op /\ DoIf(op, k, e).at = k
                      /\ DoIf(op, k, e).flag = e
           /\ \A op : /\ [Do(op, k) EXCEPT !.val = e].op = op
                      /\ [Do(op, k) EXCEPT !.val = e].at = k
                      /\ [Do(op, k) EXCEPT !.val = e].val = e
           /\ \A op : /\ [Do(op, k) EXCEPT !.seen = e].op = op
                      /\ [Do(op, k) EXCEPT !.seen = e].at = k
                      /\ [Do(op, k) EXCEPT !.seen = e].seen = e
  BY DEF TaskCompletion, DoIf, Do, FlowEnd

\* A call that is alone, with what it has read.
LEMMA OneRead ==
    ASSUME NEW c, NEW d, d.op # "goToNextStage",
           d.op = "makeTaskComplete" => d.seen = params',
           d.op = "makeFlowEnd" => ~AnyActive /\ status' = status
    PROVE  Reads(c, <<d>>)
  BY DEF Reads

LEMMA CompleteSteps ==
    ASSUME TypeOK, NEW k \in Stage, NEW e \in BOOLEAN, NEW c, c.at = k,
           NEW last \in BOOLEAN, kind[k] \in {"auto", "direct", "deferred"},
           c.op \in Carries, params' = params
    PROVE  /\ Complete(k, e) \in Seq(Call)
           /\ Follows(c, last, Complete(k, e)) /\ Reads(c, Complete(k, e))
<1> DEFINE d == [TaskCompletion(k) EXCEPT !.flag = e]
<1>1. ~Holds(c)
  BY DEF Holds, Waiting, Opened
<1>2. kind[k] \in Passing \ {"parallel"}
  BY DEF Passing
<1>3. Complete(k, e) \in {<<>>, <<Do("throw", k)>>, <<d>>}
  BY DEF Complete
<1>4. Follows(c, last, <<>>) /\ Reads(c, <<>>)
  BY <1>1, NoneFollows DEF Reads
<1>5. Follows(c, last, <<Do("throw", k)>>) /\ Reads(c, <<Do("throw", k)>>)
  <2>1. Do("throw", k).op = "throw" /\ Do("throw", k).at = k
    BY CallFields
  <2>2. Fits(Do("throw", k), TRUE, last)
    BY <2>1 DEF Fits, EngineOp
  <2>3. Do("throw", k).op \notin Carries \cup {"makeFlowEnd"}
    BY <2>1 DEF Carries
  <2> QED
    BY <1>1, <2>1, <2>2, <2>3, OneFollows, OneRead DEF LagOp
<1>6. Follows(c, last, <<d>>) /\ Reads(c, <<d>>)
  <2>1. d.op = "makeTaskComplete" /\ d.at = k /\ d.seen = params
    BY CallFields
  <2>2. Fits(d, TRUE, last)
    BY <1>2, <2>1 DEF Fits, EngineOp
  <2> HIDE DEF d
  <2> QED
    BY <1>1, <2>1, <2>2, OneFollows, OneRead DEF LagOp
<1> QED
  BY <1>3, <1>4, <1>5, <1>6, CompleteType

LEMMA MarkFits ==
    ASSUME NEW k, kind[k] \in Gateway \cup {"end"}
    PROVE  \A first, last : Fits(Do("markStageCompleted", k), first, last)
<1>1. Do("markStageCompleted", k).op = "markStageCompleted"
      /\ Do("markStageCompleted", k).at = k
  BY CallFields
<1> QED
  BY <1>1 DEF Fits, EngineOp, Behind

LEMMA MarkSteps ==
    ASSUME TypeOK, NEW k \in Stage, NEW c, c.at = k, NEW last \in BOOLEAN,
           kind[k] \in Gateway \cup {"end"}
    PROVE  /\ Follows(c, last, <<Do("markStageCompleted", k)>>)
           /\ Reads(c, <<Do("markStageCompleted", k)>>)
<1> DEFINE d == Do("markStageCompleted", k)
<1>1. d.op = "markStageCompleted" /\ d.at = k
  BY CallFields
<1>2. Fits(d, TRUE, last)
  BY MarkFits
<1>3. ~Holds(c) /\ d.op \notin Carries \cup {"makeFlowEnd"}
  BY <1>1 DEF Holds, Waiting, Opened, Gateway, Carries
<1> HIDE DEF d
<1>4. Follows(c, last, <<d>>) /\ Reads(c, <<d>>)
  BY <1>1, <1>2, <1>3, OneFollows, OneRead DEF LagOp
<1> QED
  BY <1>4 DEF d

LEMMA FlowEndSteps ==
    ASSUME TypeOK, NEW k \in Stage, NEW c, c.at = k, NEW last \in BOOLEAN,
           kind[k] = "end", c.op \in Carries, status' = status
    PROVE  Follows(c, last, <<FlowEnd(k)>>) /\ Reads(c, <<FlowEnd(k)>>)
<1> DEFINE d == FlowEnd(k)
<1>1. d.at = k /\ d.op = IF AnyActive THEN "markStageCompleted" ELSE "makeFlowEnd"
  BY CallFields
<1>2. Fits(d, TRUE, last)
  BY <1>1 DEF Fits, EngineOp
<1>3. ~Holds(c)
  BY DEF Holds, Waiting, Opened
<1> HIDE DEF d
<1>4. Follows(c, last, <<d>>) /\ Reads(c, <<d>>)
  BY <1>1, <1>2, <1>3, OneFollows, OneRead DEF LagOp
<1> QED
  BY <1>4 DEF d

\* A fork, if the gateway lets control through, and then the mark of the gateway.
LEMMA GatewayForkSteps ==
    ASSUME TypeOK, NEW k \in Stage, kind[k] \in {"exclusive", "parallel"},
           NEW c, c.at = k, c.op = "goToNextStage", NEW last \in BOOLEAN,
           NEW new, new = Hops(k) \o <<Do("markStageCompleted", k)>>,
           kind[k] = "parallel" => JoinReady(k)
    PROVE  Follows(c, last, new) /\ Reads(c, new)
<1> DEFINE m == Do("markStageCompleted", k)
<1>1. /\ m \in Call /\ m.op = "markStageCompleted" /\ m.at = k
      /\ \A first : Fits(m, first, last)
  BY CallFields, MarkFits, DoType, AllCalls DEF Gateway
<1>2. /\ Hops(k) \in Seq(Call) /\ DOMAIN Hops(k) = DOMAIN nextOf[k]
      /\ \A n \in DOMAIN nextOf[k] : Hops(k)[n] = Do("goToNextStage", nextOf[k][n])
  BY HopsType DEF Hops
<1>3. DOMAIN Hops(k) = 1..Len(Hops(k)) /\ Len(Hops(k)) \in Nat
  BY <1>2
<1> HIDE DEF m
<1>4. /\ new \in Seq(Call) /\ DOMAIN new = 1..(Len(Hops(k)) + 1)
      /\ Len(new) = Len(Hops(k)) + 1
      /\ \A i \in 1..Len(Hops(k)) : new[i] = Hops(k)[i]
      /\ new[Len(Hops(k)) + 1] = m
  BY <1>1, <1>2, WithLast DEF m
<1>5. DOMAIN nextOf[k] \subseteq DOMAIN new
      /\ \A n \in DOMAIN nextOf[k] : new[n] = Do("goToNextStage", nextOf[k][n])
  BY <1>2, <1>3, <1>4
<1>6. \A i \in DOMAIN new \ DOMAIN nextOf[k] : i = Len(Hops(k)) + 1
  BY <1>2, <1>3, <1>4
<1>7. \A i \in DOMAIN new \ DOMAIN nextOf[k] :
        /\ new[i].at = k /\ new[i].op = "markStageCompleted"
        /\ Fits(new[i], i = 1, i = Len(new) /\ last)
  <2>1. ASSUME NEW i \in DOMAIN new \ DOMAIN nextOf[k]
        PROVE  new[i] = m /\ i = Len(new)
    BY <1>4, <1>6
  <2>2. \A i : i = Len(new) => ((i = Len(new) /\ last) = last)
    OBVIOUS
  <2> QED
    BY <1>1, <2>1, <2>2
<1>8. kind[k] \in Passing /\ ~Holds(c) /\ c.op \in Carries
  BY DEF Passing, Holds, Waiting, Opened, Carries
<1>9. Follows(c, last, new)
  BY <1>4, <1>5, <1>7, <1>8, HopsFollow
<1>10. \A i \in DOMAIN new : new[i].op \in {"goToNextStage", "markStageCompleted"}
  BY <1>5, <1>7, Hop
<1> QED
  BY <1>9, <1>10 DEF Reads

LEMMA DispatchSteps ==
    ASSUME TypeOK, NEW k \in Stage, kind[k] # "exclusive",
           NEW c, c.at = k, c.op = "goToNextStage", NEW last \in BOOLEAN,
           status' = status, params' = params
    PROVE  Follows(c, last, Dispatch(k)) /\ Reads(c, Dispatch(k))
<1>1. c.op \in Carries
  BY DEF Carries
<1>2. CASE kind[k] \in {"start", "event"}
  BY <1>2, NoneFollows DEF Dispatch, Holds, Waiting, Opened, Reads
<1>3. CASE kind[k] = "end"
  BY <1>1, <1>3, FlowEndSteps DEF Dispatch
<1>4. CASE kind[k] \in {"auto", "direct"}
  BY <1>1, <1>4, CompleteSteps DEF Dispatch, TypeOK
<1>5. CASE kind[k] = "parallel"
  <2>1. CASE JoinReady(k)
    BY <1>5, <2>1, GatewayForkSteps DEF Dispatch
  <2>2. CASE ~JoinReady(k)
    <3>1. Do("markStageCompleted", k) \in Call
      BY DoType, AllCalls
    <3>2. <<>> \o <<Do("markStageCompleted", k)>> = <<Do("markStageCompleted", k)>>
      BY <3>1, ConcatEmptySeq
    <3> QED
      BY <1>5, <2>2, <3>2, MarkSteps DEF Dispatch, Gateway
  <2> QED
    BY <2>1, <2>2
<1>6. CASE kind[k] = "inert"
  BY <1>6, MarkSteps DEF Dispatch, Gateway
<1>7. CASE kind[k] \notin {"start", "event", "end", "auto", "direct", "parallel", "inert"}
  <2> DEFINE d == DoIf("makeStageActive", k, status[k] # "waiting")
  <2>1. kind[k] \in Opened
    BY <1>7, StageAssumption DEF Kind, Event, Activity, Gateway, Opened
  <2>2. Dispatch(k) = <<d>>
    BY <1>7 DEF Dispatch
  <2>3. d.op = "makeStageActive" /\ d.at = k
    BY CallFields
  <2> HIDE DEF d
  <2>4. Fits(d, TRUE, last) /\ (Holds(c) => Holds(d))
    BY <2>1, <2>3 DEF Fits, EngineOp, Holds
  <2> QED
    BY <1>1, <2>2, <2>3, <2>4, OneFollows, OneRead DEF LagOp
<1> QED
  BY <1>2, <1>3, <1>4, <1>5, <1>6, <1>7

\* An exclusive gateway goes one way, and is marked behind it.
LEMMA OneWaySteps ==
    ASSUME TypeOK, NEW k \in Stage, kind[k] = "exclusive",
           NEW c, c.at = k, c.op = "goToNextStage", NEW last \in BOOLEAN,
           NEW d \in Call,
           \/ \E b \in branches[k] : d = Do("goToNextStage", b)
           \/ nextOf[k] = <<>> /\ d.op = "iterateNextStages" /\ d.at = k
    PROVE  /\ Follows(c, last, <<d>> \o <<Do("markStageCompleted", k)>>)
           /\ Reads(c, <<d>> \o <<Do("markStageCompleted", k)>>)
<1> DEFINE m == Do("markStageCompleted", k)
           new == <<d>> \o <<m>>
<1>1. /\ m \in Call /\ m.op = "markStageCompleted" /\ m.at = k
      /\ \A first : Fits(m, first, last)
  <2>1. m \in Call
    BY DoType, AllCalls
  <2>2. kind[k] \in Gateway \cup {"end"}
    BY DEF Gateway
  <2>3. m.op = "markStageCompleted" /\ m.at = k
    BY CallFields
  <2>4. \A first : Fits(m, first, last)
    BY <2>2, MarkFits
  <2> QED
    BY <2>1, <2>3, <2>4
<1> HIDE DEF m
<1>3. DOMAIN new = {1, 2} /\ Len(new) = 2 /\ new[1] = d /\ new[2] = m
  <2>1. <<d>> \in Seq(Call) /\ Len(<<d>>) = 1 /\ <<d>>[1] = d
    OBVIOUS
  <2>2. /\ DOMAIN new = 1..2 /\ Len(new) = 2
        /\ new[1] = <<d>>[1] /\ new[2] = m
    BY <1>1, <2>1, WithLast
  <2> QED
    BY <2>1, <2>2
<1>4. /\ d.op \in {"goToNextStage", "iterateNextStages"}
      /\ d.at # k => d.at \in Outgoing(k)
      /\ d.op = "goToNextStage" => d.at \in Outgoing(k)
      /\ Fits(d, TRUE, FALSE)
  <2>1. ASSUME NEW b \in branches[k], d = Do("goToNextStage", b)
        PROVE  d.op = "goToNextStage" /\ d.at \in Outgoing(k) /\ Fits(d, TRUE, FALSE)
    BY <2>1, Hop DEF Outgoing
  <2>2. ASSUME nextOf[k] = <<>>, d.op = "iterateNextStages", d.at = k
        PROVE  Fits(d, TRUE, FALSE)
    BY <2>2 DEF Fits, EngineOp, Passing
  <2> QED
    BY <2>1, <2>2
<1>5. kind[k] \in Passing /\ ~Holds(c) /\ c.op \in Carries /\ ~MayOpen(m)
  BY <1>1 DEF Passing, Holds, Waiting, Opened, Carries, MayOpen
<1>6. /\ (1 = 1) = TRUE /\ (1 = Len(new) /\ last) = FALSE
      /\ (2 = 1) = FALSE /\ (2 = Len(new) /\ last) = last
  BY <1>3
<1>7. /\ Fits(new[1], 1 = 1, 1 = Len(new) /\ last)
      /\ Fits(new[2], 2 = 1, 2 = Len(new) /\ last)
  BY <1>1, <1>3, <1>4, <1>6
<1> HIDE DEF new
<1>8. \A i, j \in DOMAIN new : i < j => j = 2
  BY <1>3
<1>9. \A i, j \in DOMAIN new : ~(i < j /\ MayEnd(new[i]) /\ MayOpen(new[j]))
  BY <1>3, <1>5, <1>8
<1>10. \A i \in DOMAIN new :
         /\ Fits(new[i], i = 1, i = Len(new) /\ last)
         /\ new[i].op \in {"goToNextStage", "iterateNextStages", "markStageCompleted"}
         /\ new[i].at # k => new[i].at \in Outgoing(k)
         /\ new[i].op = "goToNextStage" => new[i].at \in Outgoing(k)
  BY <1>1, <1>3, <1>4, <1>7
<1>11. Follows(c, last, new)
  BY <1>5, <1>9, <1>10 DEF Follows, LagOp
<1>12. Reads(c, new)
  BY <1>10 DEF Reads
<1> QED
  BY <1>11, <1>12 DEF new, m

LEMMA GoToNextStageSteps ==
    ASSUME TypeOK, NEW t \in Thread, Working(t), GoToNextStage(t)
    PROVE  \E new : Step(t, new)
<1> DEFINE c == Head(agenda[t])  k == c.at  last == Tail(agenda[t]) = <<>>
           m == Do("markStageCompleted", k)
<1>1. c.op = "goToNextStage" /\ k \in Stage /\ Fits(c, TRUE, last)
  BY HeadFits DEF GoToNextStage
<1>2. UNCHANGED <<flow, status, failed, params, done>>
  BY DEF GoToNextStage, docVars
<1>3. Writes(c) /\ Saves(c)
  BY <1>1, <1>2 DEF Writes, Saves
<1>4. CASE kind[k] # "exclusive" /\ Then(t, Dispatch(k))
  <2>1. Dispatch(k) \in Seq(Call)
    BY <1>1, DispatchType
  <2>2. Follows(c, last, Dispatch(k)) /\ Reads(c, Dispatch(k))
    BY <1>1, <1>2, <1>4, DispatchSteps
  <2> QED
    BY <1>3, <1>4, <2>1, <2>2 DEF Step
<1>5. ASSUME NEW way, way \in {<<Do("goToNextStage", b)>> : b \in branches[k]}
                                 \cup {IterateNextStages(k)},
             kind[k] = "exclusive", Then(t, way \o <<m>>)
      PROVE  \E new : Step(t, new)
  <2>1. m \in Call /\ \A b \in branches[k] : Do("goToNextStage", b) \in Call
    BY <1>1, EdgeAssumption, DoType, AllCalls
  <2>2. way \in Seq(Call)
    <3>1. IterateNextStages(k) \in Seq(Call)
      BY <1>1, IterateType
    <3>2. \A b \in branches[k] : <<Do("goToNextStage", b)>> \in Seq(Call)
      BY <2>1
    <3> QED
      BY <1>5, <3>1, <3>2
  <2>3. way \o <<m>> \in Seq(Call)
    BY <2>1, <2>2, WithLast
  <2>4. Follows(c, last, way \o <<m>>) /\ Reads(c, way \o <<m>>)
    <3>1. CASE \E b \in branches[k] : way = <<Do("goToNextStage", b)>>
      <4>1. PICK b \in branches[k] : way = <<Do("goToNextStage", b)>>
        BY <3>1
      <4> QED
        BY <1>1, <1>5, <2>1, <4>1, OneWaySteps
    <3>2. CASE way = IterateNextStages(k) /\ nextOf[k] = <<>>
      <4> DEFINE d == DoIf("iterateNextStages", k, flow = "completed")
      <4>1. d \in Call
        BY <1>1, DoType, AllCalls
      <4>2. d.op = "iterateNextStages" /\ d.at = k
        BY CallFields
      <4>3. way = <<d>>
        BY <3>2 DEF IterateNextStages
      <4> HIDE DEF d
      <4> QED
        BY <1>1, <1>5, <3>2, <4>1, <4>2, <4>3, OneWaySteps
    <3>3. CASE way = IterateNextStages(k) /\ nextOf[k] # <<>>
      <4>1. way = Hops(k)
        BY <3>3 DEF IterateNextStages
      <4> QED
        BY <1>1, <1>5, <4>1, GatewayForkSteps
    <3> QED
      BY <1>5, <3>1, <3>2, <3>3
  <2> QED
    BY <1>3, <1>5, <2>3, <2>4 DEF Step
<1> QED
  BY <1>4, <1>5 DEF GoToNextStage

\* A call that makes no other.
LEMMA NothingSteps ==
    ASSUME TypeOK, NEW t \in Thread, Then(t, <<>>), ~Holds(Head(agenda[t])),
           Writes(Head(agenda[t])), Saves(Head(agenda[t]))
    PROVE  \E new : Step(t, new)
<1> DEFINE c == Head(agenda[t])
<1>1. Follows(c, Tail(agenda[t]) = <<>>, <<>>)
  BY NoneFollows
<1>2. Reads(c, <<>>) /\ <<>> \in Seq(Call)
  BY EmptySeq DEF Reads
<1> QED
  BY <1>1, <1>2 DEF Step

\* A call that makes one other.
LEMMA OneSteps ==
    ASSUME NEW t \in Thread, NEW d \in Call, Then(t, <<d>>),
           Follows(Head(agenda[t]), Tail(agenda[t]) = <<>>, <<d>>),
           Writes(Head(agenda[t])), Saves(Head(agenda[t])),
           Reads(Head(agenda[t]), <<d>>)
    PROVE  \E new : Step(t, new)
<1> DEFINE new == <<d>>
<1>1. new \in Seq(Call)
  OBVIOUS
<1>2. /\ Then(t, new) /\ Reads(Head(agenda[t]), new)
      /\ Follows(Head(agenda[t]), Tail(agenda[t]) = <<>>, new)
  OBVIOUS
<1> HIDE DEF new
<1>3. Step(t, new)
  BY <1>1, <1>2 DEF Step
<1> QED
  BY <1>3

LEMMA MakeStageActiveSteps ==
    ASSUME TypeOK, NEW t \in Thread, Working(t), MakeStageActive(t)
    PROVE  \E new : Step(t, new)
<1> DEFINE c == Head(agenda[t])  k == c.at  last == Tail(agenda[t]) = <<>>
           e == failed[k] /\ ~c.flag
           d == DoIf("onStageActive", k, e)
<1>1. /\ c.op = "makeStageActive" /\ k \in Stage /\ Fits(c, TRUE, last) /\ c \in Call
      /\ Then(t, <<d>>)
      /\ status' = [status EXCEPT ![k] = "active"] /\ failed' = [failed EXCEPT ![k] = e]
      /\ UNCHANGED <<flow, params, done>>
  BY HeadFits DEF MakeStageActive, history
<1>2. e \in BOOLEAN
  BY <1>1 DEF TypeOK, Call
<1>3. d \in Call
  BY <1>1, <1>2, DoType, AllCalls
<1>4. d.op = "onStageActive" /\ d.at = k
  BY CallFields
<1> HIDE DEF d
<1>5. Writes(c) /\ Saves(c)
  BY <1>1 DEF Writes, Saves, TypeOK
<1>6. Fits(d, TRUE, last) /\ c.op \in Carries
  BY <1>1, <1>4 DEF Fits, EngineOp, Carries
<1>7. Follows(c, last, <<d>>) /\ Reads(c, <<d>>)
  BY <1>1, <1>4, <1>6, OneFollows, OneRead
<1> QED
  BY <1>1, <1>3, <1>5, <1>7, OneSteps

LEMMA OnStageActiveSteps ==
    ASSUME TypeOK, NEW t \in Thread, Working(t), OnStageActive(t)
    PROVE  \E new : Step(t, new)
<1> DEFINE c == Head(agenda[t])  k == c.at  last == Tail(agenda[t]) = <<>>
           d == DoIf("createUserTasks", k, task[k] # "none")
<1>1. /\ c.op = "onStageActive" /\ k \in Stage /\ c \in Call
      /\ UNCHANGED <<flow, status, failed, params, done>>
  BY HeadFits DEF OnStageActive, docVars, history
<1>2. Writes(c) /\ Saves(c) /\ ~Holds(c) /\ c.op \in Carries
  BY <1>1 DEF Writes, Saves, Holds, Carries
<1>3. CASE kind[k] = "user"
  <2>1. d \in Call
    BY <1>1, DoType, AllCalls
  <2>2. d.op = "createUserTasks" /\ d.at = k
    BY CallFields
  <2>3. Then(t, <<d>>)
    BY <1>3 DEF OnStageActive
  <2> HIDE DEF d
  <2>4. Fits(d, TRUE, last) /\ d.op \notin Carries
    BY <1>3, <2>2 DEF Fits, EngineOp, Carries
  <2>5. Follows(c, last, <<d>>) /\ Reads(c, <<d>>)
    BY <1>1, <1>2, <2>2, <2>4, OneFollows, OneRead
  <2> QED
    BY <1>2, <2>1, <2>3, <2>5, OneSteps
<1>4. CASE kind[k] = "deferred"
  <2>1. Then(t, Complete(k, c.flag)) /\ c.flag \in BOOLEAN
    BY <1>1, <1>4 DEF OnStageActive, Call
  <2>2. /\ Complete(k, c.flag) \in Seq(Call)
        /\ Follows(c, last, Complete(k, c.flag)) /\ Reads(c, Complete(k, c.flag))
    BY <1>1, <1>2, <1>4, <2>1, CompleteSteps
  <2> QED
    BY <1>2, <2>1, <2>2 DEF Step
<1>5. CASE kind[k] \notin {"user", "deferred"}
  BY <1>2, <1>5, NothingSteps DEF OnStageActive
<1> QED
  BY <1>3, <1>4, <1>5

LEMMA MakeTaskCompleteSteps ==
    ASSUME TypeOK, NEW t \in Thread, Working(t), MakeTaskComplete(t)
    PROVE  \E new : Step(t, new)
<1> DEFINE c == Head(agenda[t])  k == c.at  last == Tail(agenda[t]) = <<>>
<1>1. /\ c.op = "makeTaskComplete" /\ k \in Stage /\ Fits(c, TRUE, last) /\ c \in Call
      /\ flow' = flow /\ params' = c.seen \cup {k} /\ done' = done \cup {k}
  BY HeadFits DEF MakeTaskComplete
<1>2. PICK e \in AfterConnector(k, c.flag) : \E f \in AfterService(k, e) :
         /\ status' = [status EXCEPT ![k] = Shown(k, e)]
         /\ failed' = [failed EXCEPT ![k] = f]
         /\ Then(t, <<DoIf("afterComplete", k, Valid(k, e))>>)
  BY DEF MakeTaskComplete
<1>3. PICK f \in AfterService(k, e) :
         /\ status' = [status EXCEPT ![k] = Shown(k, e)]
         /\ failed' = [failed EXCEPT ![k] = f]
         /\ Then(t, <<DoIf("afterComplete", k, Valid(k, e))>>)
  BY <1>2
<1> DEFINE d == DoIf("afterComplete", k, Valid(k, e))
<1>4. e \in BOOLEAN /\ (e => f)
  BY <1>1, <1>2, <1>3 DEF AfterConnector, AfterService, Call
<1>5. Writes(c)
  BY <1>1, <1>3, <1>4 DEF Writes, Shown, TypeOK
<1>6. Saves(c)
  BY <1>1 DEF Saves
<1>7. Valid(k, e) \in BOOLEAN
  BY DEF Valid
<1>8. d \in Call
  BY <1>1, <1>7, DoType, AllCalls
<1>9. d.op = "afterComplete" /\ d.at = k
  BY CallFields
<1>10. Then(t, <<d>>)
  BY <1>3
<1> HIDE DEF d
<1>11. Fits(d, TRUE, last) /\ c.op \in Carries /\ ~Holds(c)
  BY <1>1, <1>9 DEF Fits, EngineOp, Carries, Holds
<1>12. Follows(c, last, <<d>>) /\ Reads(c, <<d>>)
  BY <1>1, <1>9, <1>11, OneFollows, OneRead
<1> QED
  BY <1>5, <1>6, <1>8, <1>10, <1>12, OneSteps

LEMMA LeafSteps ==
    ASSUME TypeOK, NEW t \in Thread, Working(t),
           \/ CreateUserTasks(t) \/ UpdateUserTask(t)
           \/ MakeFlowEnd(t)     \/ MarkStageCompleted(t)
    PROVE  \E new : Step(t, new)
<1> DEFINE c == Head(agenda[t])  k == c.at  last == Tail(agenda[t]) = <<>>
<1>1. CASE CreateUserTasks(t)
  <2>1. c.op = "createUserTasks" /\ Then(t, <<>>) /\ UNCHANGED <<flow, status, failed, params, done>>
    BY <1>1, HeadFits DEF CreateUserTasks, history
  <2>2. Writes(c) /\ Saves(c) /\ ~Holds(c)
    BY <2>1 DEF Writes, Saves, Holds
  <2> QED
    BY <2>1, <2>2, NothingSteps
<1>2. CASE UpdateUserTask(t)
  <2>1. c.op = "updateUserTask" /\ Then(t, <<>>) /\ UNCHANGED <<flow, status, failed, params, done>>
    BY <1>2, HeadFits DEF UpdateUserTask, history
  <2>2. Writes(c) /\ Saves(c) /\ ~Holds(c)
    BY <2>1 DEF Writes, Saves, Holds
  <2> QED
    BY <2>1, <2>2, NothingSteps
<1>3. ASSUME MakeFlowEnd(t) \/ MarkStageCompleted(t)
      PROVE  \E new : Step(t, new)
  <2>1. c.op \in {"makeFlowEnd", "markStageCompleted"} /\ k \in Stage /\ Fits(c, TRUE, last)
    BY <1>3, HeadFits DEF MakeFlowEnd, MarkStageCompleted
  <2>2. /\ Then(t, <<>>) /\ UNCHANGED <<failed, params>>
        /\ status' = [status EXCEPT ![k] = "completed"] /\ done' = done \cup {k}
        /\ flow' = IF c.op = "makeFlowEnd" THEN "completed" ELSE flow
    BY <1>3 DEF MakeFlowEnd, MarkStageCompleted, Turn
  <2>3. kind[k] \notin Activity
    BY <2>1 DEF Fits, Gateway, Activity
  <2>4. Writes(c) /\ Saves(c) /\ ~Holds(c)
    BY <2>1, <2>2, <2>3 DEF Writes, Saves, Holds, TypeOK
  <2> QED
    BY <2>2, <2>4, NothingSteps
<1> QED
  BY <1>1, <1>2, <1>3

\* What comes behind a completed stage, with the task document before it or not.
LEMMA OnwardSteps ==
    ASSUME TypeOK, NEW k \in Stage, NEW c, c.at = k, c.op = "afterComplete",
           NEW last \in BOOLEAN, Fits(c, TRUE, last), kind[k] # "user"
    PROVE  Follows(c, last, IterateNextStages(k)) /\ Reads(c, IterateNextStages(k))
<1>1. kind[k] \in Passing \ {"parallel"} /\ c.op \in Carries /\ ~Holds(c)
  BY DEF Fits, Carries, Holds
<1>2. CASE nextOf[k] = <<>>
  <2> DEFINE d == DoIf("iterateNextStages", k, flow = "completed")
  <2>1. d.op = "iterateNextStages" /\ d.at = k
    BY CallFields
  <2>2. IterateNextStages(k) = <<d>>
    BY <1>2 DEF IterateNextStages
  <2> HIDE DEF d
  <2>3. Fits(d, TRUE, last)
    BY <1>1, <1>2, <2>1 DEF Fits, EngineOp
  <2> QED
    BY <1>1, <2>1, <2>2, <2>3, OneFollows, OneRead
<1>3. CASE nextOf[k] # <<>>
  <2>1. IterateNextStages(k) = Hops(k)
    BY <1>3 DEF IterateNextStages
  <2>2. /\ Hops(k) \in Seq(Call) /\ DOMAIN Hops(k) = DOMAIN nextOf[k]
        /\ \A n \in DOMAIN nextOf[k] : Hops(k)[n] = Do("goToNextStage", nextOf[k][n])
    BY HopsType DEF Hops
  <2>3. Follows(c, last, Hops(k))
    BY <1>1, <2>2, HopsFollow
  <2>4. Reads(c, Hops(k))
    BY <1>1, <2>2, Hop DEF Reads
  <2> QED
    BY <2>1, <2>3, <2>4
<1> QED
  BY <1>2, <1>3

LEMMA UserOnwardSteps ==
    ASSUME TypeOK, NEW k \in Stage, NEW c, c.at = k, c.op = "afterComplete",
           NEW last \in BOOLEAN, Fits(c, TRUE, last), kind[k] = "user",
           NEW u \in Call, u.op = "updateUserTask", u.at = k
    PROVE  /\ Follows(c, last, <<u>> \o IterateNextStages(k))
           /\ Reads(c, <<u>> \o IterateNextStages(k))
<1>1. last /\ c.op \in Carries /\ ~Holds(c) /\ ~MayEnd(u) /\ u.op # "startFlow"
  BY DEF Fits, Carries, Holds, MayEnd, Passing
<1>2. \A final : Fits(u, TRUE, final)
  BY DEF Fits, EngineOp
<1>3. CASE nextOf[k] = <<>>
  <2> DEFINE d == DoIf("iterateNextStages", k, flow = "completed")
  <2>1. d.op = "iterateNextStages" /\ d.at = k
    BY CallFields
  <2>2. IterateNextStages(k) = <<d>>
    BY <1>3 DEF IterateNextStages
  <2>3. d \in Call
    BY DoType, AllCalls
  <2> HIDE DEF d
  <2>4. Fits(d, FALSE, TRUE)
    BY <1>1, <1>3, <2>1 DEF Fits, Behind
  <2> DEFINE new == <<u>> \o <<d>>
  <2>5. DOMAIN new = {1, 2} /\ Len(new) = 2 /\ new[1] = u /\ new[2] = d
    <3>1. <<u>> \in Seq(Call) /\ Len(<<u>>) = 1 /\ <<u>>[1] = u
      OBVIOUS
    <3>2. DOMAIN new = 1..2 /\ Len(new) = 2 /\ new[1] = <<u>>[1] /\ new[2] = d
      BY <2>3, <3>1, WithLast
    <3> QED
      BY <3>1, <3>2
  <2>6. /\ (1 = 1) = TRUE
        /\ (2 = 1) = FALSE /\ (2 = Len(new) /\ last) = TRUE
    BY <1>1, <2>5
  <2>7. /\ Fits(new[1], 1 = 1, 1 = Len(new) /\ last)
        /\ Fits(new[2], 2 = 1, 2 = Len(new) /\ last)
    BY <1>2, <2>4, <2>5, <2>6
  <2> HIDE DEF new
  <2>8. \A i \in DOMAIN new :
          /\ Fits(new[i], i = 1, i = Len(new) /\ last)
          /\ new[i].op \in {"updateUserTask", "iterateNextStages"}
          /\ new[i].at = k
    BY <2>1, <2>5, <2>7
  <2>9. \A i, j \in DOMAIN new : ~(i < j /\ MayEnd(new[i]) /\ MayOpen(new[j]))
    BY <1>1, <2>5
  <2>10. Follows(c, last, new)
    BY <1>1, <2>8, <2>9 DEF Follows
  <2>11. Reads(c, new)
    BY <2>8 DEF Reads
  <2> QED
    BY <2>2, <2>10, <2>11 DEF new
<1>4. CASE nextOf[k] # <<>>
  <2> DEFINE new == <<u>> \o Hops(k)
  <2>1. IterateNextStages(k) = Hops(k)
    BY <1>4 DEF IterateNextStages
  <2>2. /\ Hops(k) \in Seq(Call) /\ DOMAIN Hops(k) = DOMAIN nextOf[k]
        /\ \A n \in DOMAIN nextOf[k] : Hops(k)[n] = Do("goToNextStage", nextOf[k][n])
    BY HopsType DEF Hops
  <2>3. DOMAIN Hops(k) = 1..Len(Hops(k)) /\ Len(Hops(k)) \in Nat
    BY <2>2
  <2>4. /\ new \in Seq(Call) /\ DOMAIN new = 1..(Len(Hops(k)) + 1)
        /\ new[1] = u
        /\ \A i \in 2..(Len(Hops(k)) + 1) :
             i - 1 \in 1..Len(Hops(k)) /\ new[i] = Hops(k)[i - 1]
    BY <2>2, WithFirst
  <2> HIDE DEF new
  <2>5. ASSUME NEW i \in DOMAIN new
        PROVE  \/ /\ i - 1 \in DOMAIN nextOf[k]
                  /\ new[i] = Do("goToNextStage", nextOf[k][i - 1])
               \/ /\ new[i].at = k
                  /\ new[i].op \in {"markStageCompleted", "updateUserTask"}
                  /\ Fits(new[i], i = 1, i = Len(new) /\ last)
    <3>1. CASE i = 1
      <4>1. (i = 1) = TRUE
        BY <3>1
      <4> QED
        BY <1>2, <2>4, <3>1, <4>1
    <3>2. CASE i # 1
      <4>1. i \in 2..(Len(Hops(k)) + 1)
        BY <2>3, <2>4, <3>2
      <4> QED
        BY <2>2, <2>3, <2>4, <4>1
    <3> QED
      BY <3>1, <3>2
  <2>6. ASSUME NEW n \in DOMAIN nextOf[k]
        PROVE  n + 1 \in DOMAIN new /\ new[n + 1] = Do("goToNextStage", nextOf[k][n])
    <3>1. n + 1 \in 2..(Len(Hops(k)) + 1) /\ n + 1 \in 1..(Len(Hops(k)) + 1) /\ (n + 1) - 1 = n
      BY <2>2, <2>3
    <3> QED
      BY <2>2, <2>4, <3>1
  <2>7. Follows(c, last, new)
    BY <1>1, <2>4, <2>5, <2>6, ForkFollows
  <2>8. Reads(c, new)
    <3>1. \A i \in DOMAIN new : new[i].op \in {"goToNextStage", "updateUserTask", "markStageCompleted"}
      BY <2>5, Hop
    <3> QED
      BY <3>1 DEF Reads
  <2> QED
    BY <2>1, <2>7, <2>8 DEF new
<1> QED
  BY <1>3, <1>4

LEMMA AfterCompleteSteps ==
    ASSUME TypeOK, NEW t \in Thread, Working(t), AfterComplete(t)
    PROVE  \E new : Step(t, new)
<1> DEFINE c == Head(agenda[t])  k == c.at  last == Tail(agenda[t]) = <<>>
           u == [Do("updateUserTask", k) EXCEPT !.val = status[k]]
           first == IF kind[k] = "user" THEN <<u>> ELSE <<>>
           rest == IF c.flag THEN IterateNextStages(k) ELSE <<>>
<1>1. /\ c.op = "afterComplete" /\ k \in Stage /\ Fits(c, TRUE, last)
      /\ UNCHANGED <<flow, status, failed, params, done>>
      /\ Then(t, first \o rest)
  BY HeadFits DEF AfterComplete, docVars, history
<1>2. Writes(c) /\ Saves(c) /\ ~Holds(c)
  BY <1>1 DEF Writes, Saves, Holds
<1>3. u \in Call /\ u.op = "updateUserTask" /\ u.at = k
  <2>1. status[k] \in StageStatus
    BY <1>1 DEF TypeOK
  <2>2. u \in Call
    BY <1>1, <2>1, DoType, AllCalls
  <2>3. u.op = "updateUserTask" /\ u.at = k
    BY CallFields
  <2> QED
    BY <2>2, <2>3
<1>4. IterateNextStages(k) \in Seq(Call)
  BY <1>1, IterateType
<1> HIDE DEF u
<1>5. CASE kind[k] = "user" /\ c.flag
  <2>1. Then(t, <<u>> \o IterateNextStages(k))
    BY <1>1, <1>5
  <2>2. <<u>> \o IterateNextStages(k) \in Seq(Call)
    BY <1>3, <1>4, WithFirst
  <2>3. /\ Follows(c, last, <<u>> \o IterateNextStages(k))
        /\ Reads(c, <<u>> \o IterateNextStages(k))
    BY <1>1, <1>3, <1>5, UserOnwardSteps
  <2> QED
    BY <1>2, <2>1, <2>2, <2>3 DEF Step
<1>6. CASE kind[k] = "user" /\ ~c.flag
  <2>1. <<u>> \o <<>> = <<u>>
    BY <1>3, ConcatEmptySeq
  <2>2. Then(t, <<u>>)
    BY <1>1, <1>6, <2>1
  <2>3. Fits(u, TRUE, last) /\ u.op \notin Carries
    BY <1>3, <1>6 DEF Fits, EngineOp, Carries
  <2>4. Follows(c, last, <<u>>) /\ Reads(c, <<u>>)
    BY <1>1, <1>2, <1>3, <2>3, OneFollows, OneRead
  <2> QED
    BY <1>2, <1>3, <2>2, <2>4, OneSteps
<1>7. CASE kind[k] # "user" /\ c.flag
  <2>1. <<>> \o IterateNextStages(k) = IterateNextStages(k)
    BY <1>4, ConcatEmptySeq
  <2>2. Then(t, IterateNextStages(k))
    BY <1>1, <1>7, <2>1
  <2>3. Follows(c, last, IterateNextStages(k)) /\ Reads(c, IterateNextStages(k))
    BY <1>1, <1>7, OnwardSteps
  <2> QED
    BY <1>2, <1>4, <2>2, <2>3 DEF Step
<1>8. CASE kind[k] # "user" /\ ~c.flag
  <2>1. Then(t, <<>>)
    BY <1>1, <1>8
  <2> QED
    BY <1>2, <2>1, NothingSteps
<1> QED
  BY <1>5, <1>6, <1>7, <1>8

LEMMA IterateToEndSteps ==
    ASSUME TypeOK, NEW t \in Thread, Working(t), IterateToEnd(t)
    PROVE  \E new : Step(t, new)
<1> DEFINE c == Head(agenda[t])  k == c.at  last == Tail(agenda[t]) = <<>>
           d == FlowEnd(EndStage)
<1>1. /\ c.op = "iterateNextStages" /\ k \in Stage /\ Fits(c, TRUE, last)
      /\ UNCHANGED <<flow, status, failed, params, done>>
  BY HeadFits DEF IterateToEnd, docVars
<1>2. Writes(c) /\ Saves(c) /\ ~Holds(c) /\ c.op \in Carries
  BY <1>1 DEF Writes, Saves, Holds, Carries
<1>3. CASE Then(t, <<>>)
  BY <1>2, <1>3, NothingSteps
<1>4. CASE Then(t, <<d>>)
  <2>1. EndStage \in Stage /\ kind[EndStage] = "end"
    BY StageAssumption
  <2>2. d \in Call
    BY <2>1, DoType, AllCalls DEF FlowEnd
  <2>3. d.at = EndStage /\ d.op = IF AnyActive THEN "markStageCompleted" ELSE "makeFlowEnd"
    BY CallFields
  <2>4. /\ EndStage \in Outgoing(k)
        /\ kind[k] \in Passing \/ (kind[k] = "user" /\ last)
    <3>1. /\ nextOf[k] = <<>>
          /\ (kind[k] = "user" /\ last) \/ kind[k] \in Passing \ {"parallel"}
      BY <1>1 DEF Fits
    <3>2. kind[k] # "parallel"
      BY <3>1
    <3> QED
      BY <3>1, <3>2 DEF Outgoing
  <2>5. Then(t, <<d>>)
    BY <1>4
  <2> HIDE DEF d
  <2>6. Fits(d, TRUE, last)
    BY <2>1, <2>3 DEF Fits, EngineOp
  <2>7. Follows(c, last, <<d>>)
    <3>1. DOMAIN <<d>> = {1} /\ Len(<<d>>) = 1 /\ <<d>>[1] = d
      OBVIOUS
    <3>2. (1 = Len(<<d>>) /\ last) = last
      OBVIOUS
    <3>3. \A i, j \in DOMAIN <<d>> : ~(i < j)
      BY <3>1
    <3>4. d.op \notin {"startFlow", "goToNextStage", "makeStageActive"}
      BY <2>3
    <3> QED
      BY <1>2, <2>3, <2>4, <2>6, <3>1, <3>2, <3>3, <3>4 DEF Follows, LagOp
  <2>8. Reads(c, <<d>>)
    BY <1>1, <2>3, OneRead
  <2> QED
    BY <1>2, <2>2, <2>5, <2>7, <2>8, OneSteps
<1> QED
  BY <1>3, <1>4 DEF IterateToEnd

\* The steps of the executor, but for an exception.
Runs(t) ==
    \/ StartFlow(t)        \/ GoToNextStage(t)   \/ MakeStageActive(t)
    \/ OnStageActive(t)    \/ CreateUserTasks(t) \/ MakeTaskComplete(t)
    \/ AfterComplete(t)    \/ UpdateUserTask(t)  \/ IterateToEnd(t)
    \/ MakeFlowEnd(t)      \/ MarkStageCompleted(t)

LEMMA RunSteps ==
    ASSUME TypeOK, NEW t \in Thread, Working(t), Runs(t)
    PROVE  \E new : Step(t, new)
  BY StartFlowSteps, GoToNextStageSteps, MakeStageActiveSteps, OnStageActiveSteps,
     MakeTaskCompleteSteps, AfterCompleteSteps, IterateToEndSteps, LeafSteps DEF Runs

-----------------------------------------------------------------------------
(* A step keeps the plan.                                                  *)

\* Where the calls of the agenda r come from, after those of q but the first
\* have been put behind the calls new.
Splice(q, new, r) ==
    /\ r \in Seq(Call) /\ Len(new) \in Nat /\ Len(q) \in Nat \ {0}
    /\ DOMAIN new = 1..Len(new) /\ DOMAIN q = 1..Len(q) /\ DOMAIN r = 1..Len(r)
    /\ Len(r) = Len(new) + Len(q) - 1
    /\ \A i \in DOMAIN r :
         \/ i \in DOMAIN new /\ r[i] = new[i]
         \/ /\ i > Len(new) /\ i - Len(new) + 1 \in 2..Len(q)
            /\ r[i] = q[i - Len(new) + 1]
    /\ \A i \in DOMAIN new : i \in DOMAIN r /\ r[i] = new[i]
    /\ \A j \in 2..Len(q) :
         j + Len(new) - 1 \in DOMAIN r /\ r[j + Len(new) - 1] = q[j]
    /\ Tail(q) = <<>> <=> Len(q) = 1

LEMMA StepSplice ==
    ASSUME TypeOK, NEW t \in Thread, ~Idle(t), NEW new, Step(t, new)
    PROVE  Splice(agenda[t], new, agenda'[t])
<1> DEFINE q == agenda[t]  r == agenda'[t]
<1>1. /\ q \in Seq(Call) /\ q # <<>> /\ new \in Seq(Call) /\ r = new \o Tail(q)
  BY DEF TypeOK, Idle, Step, Then
<1> HIDE DEF q, r
<1>2. /\ r \in Seq(Call)
      /\ Len(new) \in Nat /\ Len(q) \in Nat \ {0}
      /\ DOMAIN new = 1..Len(new) /\ DOMAIN q = 1..Len(q) /\ DOMAIN r = 1..Len(r)
      /\ Len(r) = Len(new) + Len(q) - 1
      /\ \A i \in 1..Len(r) :
           IF i <= Len(new) THEN r[i] = new[i]
           ELSE i - Len(new) + 1 \in 2..Len(q) /\ r[i] = q[i - Len(new) + 1]
  BY <1>1, Spliced
<1>3. ASSUME NEW i \in DOMAIN r
      PROVE  \/ i \in DOMAIN new /\ r[i] = new[i]
             \/ /\ i > Len(new) /\ i - Len(new) + 1 \in 2..Len(q)
                /\ r[i] = q[i - Len(new) + 1]
  BY <1>2
<1>4. ASSUME NEW i \in DOMAIN new
      PROVE  i \in DOMAIN r /\ r[i] = new[i]
  BY <1>2
<1>5. ASSUME NEW j \in 2..Len(q)
      PROVE  j + Len(new) - 1 \in DOMAIN r /\ r[j + Len(new) - 1] = q[j]
  <2> DEFINE i == j + Len(new) - 1
  <2>1. i \in 1..Len(r) /\ ~(i <= Len(new)) /\ i - Len(new) + 1 = j
    BY <1>2
  <2> HIDE DEF i
  <2>2. r[i] = q[i - Len(new) + 1]
    BY <1>2, <2>1
  <2>3. i \in DOMAIN r /\ r[i] = q[j]
    BY <1>2, <2>1, <2>2
  <2> QED
    BY <2>3 DEF i
<1>6. Tail(q) = <<>> <=> Len(q) = 1
  <2>1. Tail(q) \in Seq(Call) /\ Len(Tail(q)) = Len(q) - 1
    BY <1>1, HeadTailProperties
  <2>2. Tail(q) = <<>> <=> Len(Tail(q)) = 0
    BY <2>1, EmptySeq
  <2> QED
    BY <1>2, <2>1, <2>2
<1> QED
  BY <1>2, <1>3, <1>4, <1>5, <1>6 DEF Splice, q, r

LEMMA FitsHead ==
    ASSUME NEW c, NEW last, Fits(c, FALSE, last), NEW first \in BOOLEAN
    PROVE  Fits(c, first, last)
  BY DEF Fits, EngineOp, Behind

LEMMA PlanStep ==
    ASSUME TypeOK, NEW t \in Thread, ~Idle(t), Working(t), NEW new, Step(t, new)
    PROVE  Working(t)'
<1> DEFINE q == agenda[t]  r == agenda'[t]
<1>1. Splice(q, new, r)
  BY StepSplice
<1>2. \A i \in DOMAIN q : Fits(q[i], i = 1, i = Len(q))
  BY DEF Working
<1>3. /\ \A i \in DOMAIN new : Fits(new[i], i = 1, i = Len(new) /\ Tail(q) = <<>>)
      /\ \A i \in DOMAIN new : new[i].op # "startFlow"
  BY DEF Step, Follows
<1>4. flow' \in {"active", "completed"}
  BY DEF Step, Writes, Working
<1> HIDE DEF q, r
<1>0. /\ Len(new) \in Nat /\ Len(q) \in Nat \ {0} /\ Len(r) = Len(new) + Len(q) - 1
      /\ DOMAIN new = 1..Len(new) /\ DOMAIN q = 1..Len(q) /\ DOMAIN r = 1..Len(r)
      /\ Tail(q) = <<>> <=> Len(q) = 1
  BY <1>1 DEF Splice
<1>5. ASSUME NEW i \in DOMAIN r
      PROVE  Fits(r[i], i = 1, i = Len(r)) /\ r[i].op # "startFlow"
  <2>1. CASE i \in DOMAIN new /\ r[i] = new[i]
    <3>1. i = Len(r) <=> (i = Len(new) /\ Len(q) = 1)
      BY <1>0, <2>1
    <3>2. (i = Len(r)) = (i = Len(new) /\ Tail(q) = <<>>)
      BY <1>0, <3>1
    <3> QED
      BY <1>3, <2>1, <3>2
  <2>2. CASE /\ i > Len(new) /\ i - Len(new) + 1 \in 2..Len(q)
             /\ r[i] = q[i - Len(new) + 1]
    <3> DEFINE j == i - Len(new) + 1
    <3>1. /\ j \in DOMAIN q /\ (j = 1) = FALSE
          /\ i = Len(r) <=> j = Len(q)
      BY <1>0, <2>2
    <3>2. (i = Len(r)) = (j = Len(q))
      BY <3>1
    <3>3. r[i] = q[j]
      BY <2>2
    <3> HIDE DEF j
    <3>4. Fits(r[i], FALSE, i = Len(r))
      BY <1>2, <3>1, <3>2, <3>3
    <3>5. r[i].op # "startFlow"
      BY <3>4 DEF Fits, Behind
    <3> QED
      BY <3>4, <3>5, FitsHead
  <2> QED
    BY <1>1, <2>1, <2>2 DEF Splice
<1>6. ~(r # <<>> /\ Head(r).op = "startFlow")
  <2>1. r # <<>> => Head(r) = r[1] /\ 1 \in DOMAIN r
    BY <1>1 DEF Splice
  <2> QED
    BY <1>5, <2>1
<1> QED
  BY <1>4, <1>5, <1>6 DEF Working, Turn, Idle, r

\* The head of a working agenda, whatever its operation.
LEMMA WorkingHead ==
    ASSUME TypeOK, NEW t \in Thread, ~Idle(t), Working(t)
    PROVE  LET c == Head(agenda[t]) IN
           /\ c \in Call /\ c.at \in Stage /\ c.op \in EngineOp
           /\ agenda[t] \in Seq(Call) /\ agenda[t] # <<>>
           /\ c = agenda[t][1] /\ 1 \in DOMAIN agenda[t]
           /\ Fits(c, TRUE, Tail(agenda[t]) = <<>>)
           /\ c.op = "startFlow" => /\ Tail(agenda[t]) = <<>> /\ c.at = Start
                                    /\ flow = "active" /\ done = {}
<1> DEFINE op == Head(agenda[t]).op
<1>1. Turn(t, op)
  BY DEF Turn
<1> HIDE DEF op
<1>2. LET c == Head(agenda[t]) IN
      /\ ~Idle(t) /\ c \in Call /\ c.op = op /\ c.at \in Stage
      /\ agenda[t] \in Seq(Call) /\ agenda[t] # <<>> /\ c = agenda[t][1]
      /\ Fits(c, TRUE, Tail(agenda[t]) = <<>>)
  BY <1>1, HeadFits
<1>3. 1 \in DOMAIN agenda[t]
  BY <1>2, EmptySeq
<1>4. op \in EngineOp /\ (op = "startFlow" => Tail(agenda[t]) = <<>> /\ Head(agenda[t]).at = Start)
  BY <1>2 DEF Fits
<1>5. op = "startFlow" => flow = "active" /\ done = {}
  BY <1>1 DEF Working
<1> QED
  BY <1>2, <1>3, <1>4, <1>5

\* Calls stay within what control may do from the call that makes them.
LEMMA StepOnward ==
    ASSUME TypeOK, NEW t \in Thread, ~Idle(t), Working(t), NEW new, Step(t, new),
           NEW i \in DOMAIN new
    PROVE  LET c == Head(agenda[t]) IN
           /\ new[i] \in Call /\ new[i].at \in Stage
           /\ Tail(agenda[t]) # <<>> =>
                new[i].at \in Run[c.at] /\ (Ends(new[i].at) => Ends(c.at))
           /\ c.op # "startFlow" => (Opens(new[i].at) => Opens(c.at))
<1> DEFINE c == Head(agenda[t])  last == Tail(agenda[t]) = <<>>
<1>1. c.at \in Stage /\ (c.op = "startFlow" => last)
  BY WorkingHead
<1>2. new \in Seq(Call)
      /\ (new[i].at # c.at =>
            /\ new[i].at \in Outgoing(c.at)
            /\ \/ c.op = "startFlow"
               \/ kind[c.at] \in Passing
               \/ kind[c.at] = "user" /\ last)
  BY DEF Step, Follows
<1>3. new[i] \in Call /\ new[i].at \in Stage
  <2>1. new[i] \in Call
    BY <1>2, ElementOfSeq
  <2> QED
    BY <2>1 DEF Call
<1> HIDE DEF c, last
<1>4. CASE new[i].at = c.at
  BY <1>1, <1>3, <1>4, RunSelf DEF c, last
<1>5. CASE new[i].at # c.at
  <2>1. CASE kind[c.at] \in Passing
    <3>1. /\ new[i].at \in Run[c.at]
          /\ Opens(new[i].at) => Opens(c.at)
          /\ Ends(new[i].at) => Ends(c.at)
      BY <1>1, <1>2, <1>5, <2>1, RunOnward, RunNext, RunSelf
    <3> QED
      BY <1>3, <3>1 DEF c, last
  <2>2. CASE kind[c.at] = "user" /\ last
    <3>1. Opens(c.at)
      BY <1>1, <2>2, OpenedOpens DEF Opened
    <3> QED
      BY <1>3, <2>2, <3>1 DEF c, last
  <2>3. CASE c.op = "startFlow"
    BY <1>1, <1>3, <2>3 DEF c, last
  <2> QED
    BY <1>2, <1>5, <2>1, <2>2, <2>3
<1> QED
  BY <1>4, <1>5

\* Only the first call of an agenda is a write of fields.
LEMMA FieldsStep ==
    ASSUME TypeOK, NEW t, Thread = {t}, ~Idle(t), Working(t), FieldsInv,
           NEW new, Step(t, new)
    PROVE  FieldsInv'
<1> DEFINE q == agenda[t]  r == agenda'[t]  c == Head(q)
<1>0. t \in Thread
  OBVIOUS
<1>1. /\ c.at \in Stage /\ c = q[1] /\ 1 \in DOMAIN q /\ c.op \in EngineOp
      /\ c.op = "startFlow" => done = {} /\ c.at = Start
  BY <1>0, WorkingHead
<1>2. Working(t)' /\ Splice(q, new, r)
  BY <1>0, PlanStep, StepSplice
<1>3. flow \in {"active", "completed"}
  BY DEF Working
<1>4. Saves(c) /\ Reads(c, new)
  BY DEF Step
<1>5. ASSUME NEW s \in done', kind[s] \in Activity
      PROVE  s \in params'
  <2>1. CASE c.op = "makeTaskComplete"
    <3>1. c.seen = params
      BY <1>0, <1>1, <2>1 DEF FieldsInv
    <3>2. s \in done => s \in params
      BY <1>3, <1>5 DEF FieldsInv
    <3> QED
      BY <1>4, <1>5, <2>1, <3>1, <3>2 DEF Saves
  <2>2. CASE c.op = "startFlow"
    <3>1. s = Start
      BY <1>1, <1>4, <1>5, <2>2 DEF Saves
    <3> QED
      BY <1>5, <3>1, StageAssumption DEF Activity
  <2>3. CASE c.op \notin {"makeTaskComplete", "startFlow"}
    <3>1. s \in done
      BY <1>4, <1>5, <2>3 DEF Saves
    <3> QED
      BY <1>3, <1>4, <1>5, <2>3, <3>1 DEF FieldsInv, Saves
  <2> QED
    BY <2>1, <2>2, <2>3
<1>6. ASSUME NEW i \in DOMAIN r, r[i].op \in {"makeTaskComplete", "saveParams"}
      PROVE  r[i].seen = params'
  <2>1. Fits(r[i], i = 1, i = Len(r))
    BY <1>2, <1>6 DEF Working
  <2>2. r[i].op = "makeTaskComplete"
    BY <1>6, <2>1 DEF Fits, EngineOp, Behind
  <2>3. CASE i \in DOMAIN new /\ r[i] = new[i]
    BY <1>4, <2>2, <2>3 DEF Reads
  <2>4. CASE /\ i > Len(new) /\ i - Len(new) + 1 \in 2..Len(q)
             /\ r[i] = q[i - Len(new) + 1]
    <3> DEFINE j == i - Len(new) + 1
    <3>1. j \in 2..Len(q) /\ Len(q) \in Nat /\ DOMAIN q = 1..Len(q)
      BY <1>2, <2>4 DEF Splice
    <3>2. j \in DOMAIN q /\ (j = 1) = FALSE /\ r[i] = q[j]
      BY <2>4, <3>1
    <3> HIDE DEF j
    <3>3. Fits(q[j], FALSE, j = Len(q))
      BY <3>2 DEF Working
    <3> QED
      BY <2>2, <3>2, <3>3 DEF Fits, Behind
  <2> QED
    BY <1>2, <1>6, <2>3, <2>4 DEF Splice
<1>7. \A u \in Thread : u = t
  OBVIOUS
<1> QED
  BY <1>5, <1>6, <1>7 DEF FieldsInv, r

LEMMA StaysFinished ==
    ASSUME NEW c, Writes(c), NEW s \in Stage, Finished(s),
           s # c.at \/ c.op \notin {"startFlow", "makeStageActive"}
    PROVE  Finished(s)'
<1>1. CASE s # c.at
  <2>1. status'[s] = status[s]
    BY <1>1 DEF Writes
  <2> QED
    BY <2>1 DEF Finished
<1>2. CASE s = c.at /\ c.op \notin {"startFlow", "makeStageActive"}
  <2>1. status'[s] = status[s] \/ status'[s] \in {"completed", "error"}
    BY <1>2 DEF Writes
  <2> QED
    BY <2>1 DEF Finished
<1> QED
  BY <1>1, <1>2

\* Nothing that runs before a stage behind a join re-opens a source of the join.
LEMMA JoinStep ==
    ASSUME TypeOK, NEW t, Thread = {t}, ~Idle(t), Working(t), JoinInv,
           NEW new, Step(t, new)
    PROVE  JoinInv'
<1> DEFINE q == agenda[t]  r == agenda'[t]  c == Head(q)
<1>0. t \in Thread
  OBVIOUS
<1>1. /\ c.at \in Stage /\ c = q[1] /\ 1 \in DOMAIN q /\ Fits(c, TRUE, Tail(q) = <<>>)
      /\ c.op = "startFlow" => Tail(q) = <<>>
  BY <1>0, WorkingHead
<1>2. /\ Splice(q, new, r) /\ Writes(c) /\ Reads(c, new)
      /\ Follows(c, Tail(q) = <<>>, new)
  BY <1>0, StepSplice DEF Step
<1>3. /\ Len(new) \in Nat /\ Len(q) \in Nat \ {0} /\ Len(r) = Len(new) + Len(q) - 1
      /\ DOMAIN new = 1..Len(new) /\ DOMAIN q = 1..Len(q) /\ DOMAIN r = 1..Len(r)
      /\ Tail(q) = <<>> <=> Len(q) = 1
  BY <1>2 DEF Splice
<1> SUFFICES ASSUME NEW g \in StagesOf({"parallel"}), NEW x \in Stage, OnlyBehind(x, g),
                    NEW i \in DOMAIN r,
                    r[i].op \in {"goToNextStage", "makeStageActive"}, r[i].at = x
             PROVE  /\ JoinReady(g)'
                    /\ \A h \in 1..(i - 1) : \E y \in Before(g, x) : r[h].at \in Run[y]
  BY <1>0 DEF JoinInv
<1>4. g \in Stage /\ kind[g] = "parallel" /\ Sources(g) \subseteq Stage
  BY DEF StagesOf, Sources
<1>5. ASSUME NEW j \in DOMAIN q, q[j].op \in {"goToNextStage", "makeStageActive"}, q[j].at = x
      PROVE  /\ JoinReady(g)
             /\ \A h \in 1..(j - 1) : \E y \in Before(g, x) : q[h].at \in Run[y]
  BY <1>0, <1>5 DEF JoinInv
<1>6. Before(g, x) \subseteq Stage
  <2>1. nextOf[g] \in Seq(Stage)
    BY <1>4, EdgeAssumption
  <2>2. \A n \in DOMAIN nextOf[g] : nextOf[g][n] \in Stage
    BY <2>1
  <2> QED
    BY <2>2 DEF Before
<1> HIDE DEF q, r, c
<1>7. CASE i \in DOMAIN new /\ r[i] = new[i]
  <2>1. CASE new[i].op = "makeStageActive"
    <3>1. i = 1 /\ c.op = "goToNextStage" /\ c.at = x
      BY <1>2, <1>7, <2>1 DEF Follows
    <3>2. JoinReady(g)
      BY <1>1, <1>5, <3>1
    <3>3. status' = status
      BY <1>2, <3>1 DEF Writes
    <3>4. JoinReady(g)'
      BY <3>2, <3>3 DEF JoinReady, Finished
    <3> QED
      BY <3>1, <3>4
  <2>2. CASE new[i].op = "goToNextStage"
    <3>1. x \in Outgoing(c.at)
      BY <1>2, <1>7, <2>2 DEF Follows
    <3>2. c.at = g
      BY <1>1, <3>1 DEF OnlyBehind
    <3>3. /\ i \in DOMAIN nextOf[g] /\ x = nextOf[g][i]
          /\ \A h \in 1..i : new[h].at = nextOf[g][h]
      BY <1>2, <1>4, <1>7, <2>2, <3>2 DEF Follows
    <3>4. JoinReady(g) /\ status' = status
      BY <1>2, <1>4, <1>7, <2>2, <3>2 DEF Reads, Writes
    <3>5. JoinReady(g)'
      BY <3>4 DEF JoinReady, Finished
    <3>6. ASSUME NEW h \in 1..(i - 1)
          PROVE  \E y \in Before(g, x) : r[h].at \in Run[y]
      <4>1. nextOf[g] \in Seq(Stage)
        BY <1>4, EdgeAssumption
      <4>2. DOMAIN nextOf[g] = 1..Len(nextOf[g]) /\ Len(nextOf[g]) \in Nat
        BY <4>1
      <4>3. h \in DOMAIN nextOf[g] /\ h < i /\ h \in 1..i /\ h \in DOMAIN new
        BY <1>3, <1>7, <3>3, <4>2
      <4>4. nextOf[g][h] \in Before(g, x)
        BY <3>3, <4>3 DEF Before
      <4>5. r[h] = new[h] /\ new[h].at = nextOf[g][h]
        BY <1>2, <3>3, <4>3 DEF Splice
      <4> QED
        BY <1>6, <4>4, <4>5, RunSelf
    <3> QED
      BY <3>5, <3>6
  <2> QED
    BY <1>7, <2>1, <2>2
<1>8. CASE /\ i > Len(new) /\ i - Len(new) + 1 \in 2..Len(q)
           /\ r[i] = q[i - Len(new) + 1]
  <2> DEFINE j == i - Len(new) + 1
  <2>1. j \in DOMAIN q /\ j \in 2..Len(q) /\ 1 \in 1..(j - 1) /\ r[i] = q[j] /\ Tail(q) # <<>>
    BY <1>3, <1>8
  <2>2. /\ JoinReady(g)
        /\ \A h \in 1..(j - 1) : \E y \in Before(g, x) : q[h].at \in Run[y]
    BY <1>5, <2>1
  <2>3. PICK z \in Before(g, x) : c.at \in Run[z]
    BY <1>1, <2>1, <2>2
  <2>4. ASSUME NEW s \in Sources(g)
        PROVE  Finished(s)'
    <3>1. Finished(s) /\ s \in Stage
      BY <1>4, <2>2 DEF JoinReady
    <3>2. c.op # "startFlow"
      BY <1>1, <2>1
    <3>3. s = c.at => c.op # "makeStageActive"
      <4>1. ASSUME s = c.at, c.op = "makeStageActive"
            PROVE  FALSE
        <5>1. kind[s] \in Opened
          BY <1>1, <4>1 DEF Fits
        <5>2. s \in Run[z] \cap Sources(g) \cap StagesOf(Opened)
          BY <2>3, <3>1, <4>1, <5>1 DEF StagesOf
        <5> QED
          BY <5>2 DEF OnlyBehind
      <4> QED
        BY <4>1
    <3> QED
      BY <1>2, <3>1, <3>2, <3>3, StaysFinished
  <2>5. ASSUME NEW h \in 1..(i - 1)
        PROVE  \E y \in Before(g, x) : r[h].at \in Run[y]
    <3>0. h \in DOMAIN r
      BY <1>3
    <3>1. CASE h \in DOMAIN new /\ r[h] = new[h]
      <4>1. new[h].at \in Run[c.at]
        BY <1>0, <2>1, <3>1, StepOnward DEF c, q
      <4>2. Run[c.at] \subseteq Run[z]
        BY <1>6, <2>3, RunTransitive
      <4> QED
        BY <3>1, <4>1, <4>2
    <3>2. CASE /\ h > Len(new) /\ h - Len(new) + 1 \in 2..Len(q)
               /\ r[h] = q[h - Len(new) + 1]
      <4>1. h - Len(new) + 1 \in 1..(j - 1)
        BY <1>3, <3>2
      <4> QED
        BY <2>2, <3>2, <4>1
    <3> QED
      BY <1>2, <3>0, <3>1, <3>2 DEF Splice
  <2> QED
    BY <2>4, <2>5 DEF JoinReady
<1> QED
  BY <1>2, <1>7, <1>8 DEF Splice

\* Only the completion of a user task, last of its agenda, ends a wait.
LEMMA HeldStays ==
    ASSUME TypeOK, NEW t \in Thread, ~Idle(t), Working(t), NEW new, Step(t, new),
           Held, Tail(agenda[t]) # <<>>
    PROVE  Held'
<1> DEFINE c == Head(agenda[t])
<1>1. PICK s \in StagesOf(Waiting) : status[s] = "active"
  BY DEF Held
<1>2. /\ c.at \in Stage /\ Fits(c, TRUE, Tail(agenda[t]) = <<>>)
      /\ c.op # "startFlow" /\ Writes(c)
  BY WorkingHead DEF Step
<1>3. s \in Stage /\ kind[s] \in Waiting
  BY DEF StagesOf
<1> HIDE DEF c
<1>4. CASE s # c.at
  BY <1>1, <1>2, <1>3, <1>4 DEF Writes, Held
<1>5. CASE s = c.at
  <2>1. c.op # "makeTaskComplete"
    BY <1>2, <1>3, <1>5 DEF Fits, Waiting, Opened, Passing
  <2>2. c.op \notin {"makeFlowEnd", "markStageCompleted"}
    BY <1>2, <1>3, <1>5 DEF Fits, Waiting, Opened, Gateway
  <2>3. status'[s] = "active"
    BY <1>1, <1>2, <1>5, <2>1, <2>2 DEF Writes
  <2> QED
    BY <2>3 DEF Held
<1> QED
  BY <1>4, <1>5

LEMMA EndStep ==
    ASSUME TypeOK, NEW t, Thread = {t}, ~Idle(t), Working(t), OrderedForks, EndInv,
           NEW new, Step(t, new)
    PROVE  EndInv'
<1> DEFINE q == agenda[t]  r == agenda'[t]  c == Head(q)
<1>0. t \in Thread
  OBVIOUS
<1>1. /\ c.at \in Stage /\ c = q[1] /\ 1 \in DOMAIN q /\ Fits(c, TRUE, Tail(q) = <<>>)
      /\ q # <<>>
      /\ c.op = "startFlow" => Tail(q) = <<>> /\ flow = "active"
  BY <1>0, WorkingHead
<1>2. /\ Splice(q, new, r) /\ Writes(c) /\ Reads(c, new)
      /\ Follows(c, Tail(q) = <<>>, new)
  BY <1>0, StepSplice DEF Step
<1>3. /\ Len(new) \in Nat /\ Len(q) \in Nat \ {0} /\ Len(r) = Len(new) + Len(q) - 1
      /\ DOMAIN new = 1..Len(new) /\ DOMAIN q = 1..Len(q) /\ DOMAIN r = 1..Len(r)
      /\ Tail(q) = <<>> <=> Len(q) = 1
  BY <1>2 DEF Splice
<1>4. /\ flow = "completed" => ~AnyActive /\ \A i \in DOMAIN q : ~MayOpen(q[i])
      /\ \A i, j \in DOMAIN q : i < j /\ MayEnd(q[i]) /\ MayOpen(q[j]) =>
           Held \/ \E h \in 1..(i - 1) : Holds(q[h])
      /\ c.op = "makeFlowEnd" => ~AnyActive
  BY <1>0, <1>1 DEF EndInv, Turn, Idle
<1>5. \A i \in DOMAIN new :
        /\ c.op # "startFlow" => (Opens(new[i].at) => Opens(c.at))
        /\ Tail(q) # <<>> => (Ends(new[i].at) => Ends(c.at))
  BY <1>0, StepOnward
<1>6. Tail(q) # <<>> /\ Held => Held'
  BY <1>0, HeldStays
<1>7. \A i \in DOMAIN q \ {1} : q[i].op \in Behind
  <2>1. ASSUME NEW i \in DOMAIN q \ {1}
        PROVE  q[i].op \in Behind
    <3>1. Fits(q[i], i = 1, i = Len(q)) /\ (i = 1) = FALSE
      BY DEF Working
    <3>2. Fits(q[i], FALSE, i = Len(q))
      BY <3>1
    <3> QED
      BY <3>2 DEF Fits
  <2> QED
    BY <2>1
<1>8. \A s \in Stage : status[s] = "error" => failed[s] /\ s \in showsError
  BY DEF EndInv
<1> HIDE DEF q, r, c
<1>9. ASSUME NEW s \in Stage, status'[s] = "error"
      PROVE  failed'[s] /\ s \in showsError
  <2>1. CASE s # c.at
    BY <1>2, <1>8, <1>9, <2>1 DEF Writes
  <2>2. CASE s = c.at
    BY <1>2, <1>8, <1>9, <2>2 DEF Writes
  <2> QED
    BY <2>1, <2>2
<1>10. ASSUME ~AnyActive, c.op # "makeStageActive"
       PROVE  ~AnyActive'
  <2>1. ASSUME NEW s \in Stage, status'[s] = "active"
        PROVE  FALSE
    <3>1. CASE s # c.at
      BY <1>2, <1>10, <2>1, <3>1 DEF Writes, AnyActive
    <3>2. CASE s = c.at
      BY <1>2, <1>10, <2>1, <3>2 DEF Writes, AnyActive
    <3> QED
      BY <3>1, <3>2
  <2> QED
    BY <2>1 DEF AnyActive
<1>11. c.op = "makeStageActive" => MayOpen(c)
  <2>1. c.op = "makeStageActive" => kind[c.at] \in Opened
    BY <1>1 DEF Fits
  <2> QED
    BY <1>1, <2>1, OpenedOpens DEF MayOpen, Carries
<1>12. flow' = "completed" => ~AnyActive'
  <2>1. CASE flow = "completed"
    BY <1>1, <1>4, <1>10, <1>11, <2>1
  <2>2. CASE flow # "completed"
    BY <1>2, <1>4, <1>10, <2>2 DEF Writes
  <2> QED
    BY <2>1, <2>2

\* A new call may do no more than the one that makes it.
<1>13. ASSUME NEW i \in DOMAIN new, MayOpen(new[i])
       PROVE  c.op = "startFlow" \/ MayOpen(c)
  <2>1. new[i].op \in Carries /\ Opens(new[i].at)
    BY <1>13 DEF MayOpen
  <2>2. c.op \in Carries \cup {"startFlow"}
    BY <1>2, <2>1 DEF Follows
  <2> QED
    BY <1>5, <2>1, <2>2 DEF MayOpen
<1>14. ASSUME NEW i \in DOMAIN new, MayEnd(new[i]), Tail(q) # <<>>
       PROVE  MayEnd(c)
  <2>1. new[i].op \in Carries \cup {"makeFlowEnd"} /\ Ends(new[i].at)
    BY <1>14 DEF MayEnd
  <2>2. c.op \in Carries
    BY <1>1, <1>2, <1>14, <2>1 DEF Follows
  <2> QED
    BY <1>5, <1>14, <2>1, <2>2 DEF MayEnd
<1>15. ASSUME flow' = "completed", NEW i \in DOMAIN r, MayOpen(r[i])
       PROVE  FALSE
  <2>1. CASE i \in DOMAIN new /\ r[i] = new[i]
    <3>1. new[i].op \in Carries
      BY <1>15, <2>1 DEF MayOpen
    <3>2. c.op # "makeFlowEnd" /\ c.op \in Carries \cup {"startFlow"}
      BY <1>2, <2>1, <3>1 DEF Follows, Carries
    <3>3. flow = "completed"
      BY <1>2, <1>15, <3>2 DEF Writes
    <3> QED
      BY <1>1, <1>4, <1>13, <1>15, <2>1, <3>3
  <2>2. CASE i > Len(new) /\ i - Len(new) + 1 \in 2..Len(q) /\ r[i] = q[i - Len(new) + 1]
    <3> DEFINE j == i - Len(new) + 1
    <3>1. j \in DOMAIN q /\ 1 < j /\ j \in Nat /\ MayOpen(q[j]) /\ Tail(q) # <<>>
      BY <1>3, <1>15, <2>2
    <3> HIDE DEF j
    <3>2. flow # "completed"
      BY <1>4, <3>1
    <3>3. c.op = "makeFlowEnd" /\ ~AnyActive
      BY <1>2, <1>4, <1>15, <3>2 DEF Writes
    <3>4. MayEnd(c)
      <4>1. kind[c.at] = "end"
        BY <1>1, <3>3 DEF Fits
      <4>2. Ends(c.at)
        BY <1>1, <4>1, RunSelf DEF Ends, StagesOf
      <4> QED
        BY <3>3, <4>2 DEF MayEnd
    <3>5. Held \/ \E h \in 1..(1 - 1) : Holds(q[h])
      BY <1>1, <1>4, <3>1, <3>4
    <3>6. Held
      BY <3>5
    <3> QED
      BY <3>3, <3>6 DEF Held, AnyActive, StagesOf
  <2> QED
    BY <1>2, <1>15, <2>1, <2>2 DEF Splice
<1>16. ASSUME NEW i \in DOMAIN r, NEW j \in DOMAIN r, i < j, MayEnd(r[i]), MayOpen(r[j])
       PROVE  Held' \/ \E h \in 1..(i - 1) : Holds(r[h])
  <2>1. CASE j \in DOMAIN new /\ r[j] = new[j]
    <3>1. i \in DOMAIN new /\ r[i] = new[i]
      <4>1. i \in DOMAIN new
        BY <1>3, <1>16, <2>1
      <4> QED
        BY <1>2, <4>1 DEF Splice
    <3>2. PICK h \in 1..(i - 1) : Holds(new[h])
      BY <1>2, <1>16, <2>1, <3>1 DEF Follows
    <3>3. h \in DOMAIN new
      BY <1>3, <3>1
    <3>4. Holds(r[h])
      BY <1>2, <3>2, <3>3 DEF Splice
    <3> QED
      BY <3>4
  <2>2. CASE /\ j > Len(new) /\ j - Len(new) + 1 \in 2..Len(q)
             /\ r[j] = q[j - Len(new) + 1]
    <3> DEFINE m == j - Len(new) + 1
    <3>1. m \in DOMAIN q /\ 1 < m /\ m \in Nat /\ MayOpen(q[m]) /\ Tail(q) # <<>>
      BY <1>3, <1>16, <2>2
    <3>2. CASE i \in DOMAIN new /\ r[i] = new[i]
      <4>1. MayEnd(c)
        BY <1>14, <1>16, <3>1, <3>2
      <4>2. Held \/ \E h \in 1..(1 - 1) : Holds(q[h])
        BY <1>1, <1>4, <3>1, <4>1
      <4>3. Held
        BY <4>2
      <4> QED
        BY <1>6, <3>1, <4>3
    <3>3. CASE /\ i > Len(new) /\ i - Len(new) + 1 \in 2..Len(q)
               /\ r[i] = q[i - Len(new) + 1]
      <4> DEFINE n == i - Len(new) + 1
      <4>1. n \in DOMAIN q /\ n \in 2..Len(q) /\ n < m /\ MayEnd(q[n])
        BY <1>3, <1>16, <2>2, <3>3
      <4>2. Held \/ \E h \in 1..(n - 1) : Holds(q[h])
        BY <1>4, <3>1, <4>1
      <4>3. CASE Held
        BY <1>6, <3>1, <4>3
      <4>4. ASSUME NEW h \in 1..(n - 1), Holds(q[h]), h # 1
            PROVE  \E k \in 1..(i - 1) : Holds(r[k])
        <5> DEFINE k == h + Len(new) - 1
        <5>0. /\ h \in Int /\ 1 <= h /\ h <= (i - Len(new) + 1) - 1 /\ h # 1
              /\ i \in Nat /\ i - Len(new) + 1 <= Len(q)
          BY <1>3, <3>3, <4>4
        <5>1. h \in 2..Len(q) /\ k \in 1..(i - 1)
          BY <1>3, <5>0
        <5>2. r[k] = q[h]
          BY <1>2, <5>1 DEF Splice
        <5> HIDE DEF k
        <5> QED
          BY <4>4, <5>1, <5>2
      <4>5. ASSUME Holds(c)
            PROVE  Held' \/ \E k \in 1..(i - 1) : Holds(r[k])
        <5>1. CASE c.op = "makeStageActive"
          <6>1. c.at \in StagesOf(Waiting) /\ status'[c.at] = "active"
            BY <1>1, <1>2, <4>5, <5>1 DEF Holds, Writes, StagesOf
          <6> QED
            BY <6>1 DEF Held
        <5>2. ASSUME NEW k \in DOMAIN new, Holds(new[k])
              PROVE  \E l \in 1..(i - 1) : Holds(r[l])
          <6>1. k \in 1..(i - 1)
            BY <1>3, <3>3, <5>2
          <6>2. r[k] = new[k]
            BY <1>2, <5>2 DEF Splice
          <6> QED
            BY <5>2, <6>1, <6>2
        <5> QED
          BY <1>2, <4>5, <5>1, <5>2 DEF Follows
      <4> QED
        BY <1>1, <4>2, <4>3, <4>4, <4>5
    <3> QED
      BY <1>2, <1>16, <3>2, <3>3 DEF Splice
  <2> QED
    BY <1>2, <1>16, <2>1, <2>2 DEF Splice
<1>17. r # <<>> /\ Head(r).op = "makeFlowEnd" => ~AnyActive'
  <2> SUFFICES ASSUME r # <<>>, Head(r).op = "makeFlowEnd" PROVE ~AnyActive'
    OBVIOUS
  <2>1. 1 \in DOMAIN r /\ Head(r) = r[1]
    BY <1>2, EmptySeq DEF Splice
  <2>2. CASE 1 \in DOMAIN new /\ r[1] = new[1]
    <3>1. ~AnyActive /\ status' = status
      BY <1>2, <2>1, <2>2 DEF Reads
    <3> QED
      BY <3>1 DEF AnyActive
  <2>3. CASE /\ 1 > Len(new) /\ 1 - Len(new) + 1 \in 2..Len(q)
             /\ r[1] = q[1 - Len(new) + 1]
    <3> DEFINE j == 1 - Len(new) + 1
    <3>1. j \in DOMAIN q \ {1} /\ r[1] = q[j]
      BY <1>3, <2>3
    <3> HIDE DEF j
    <3> QED
      BY <1>7, <2>1, <3>1 DEF Behind
  <2> QED
    BY <1>2, <2>1, <2>2, <2>3 DEF Splice
<1>18. Turn(t, "makeFlowEnd")' => ~AnyActive'
  BY <1>17 DEF Turn, Idle, r
<1>19. /\ flow' = "completed" => \A i \in DOMAIN r : ~MayOpen(r[i])
       /\ \A i, j \in DOMAIN r : i < j /\ MayEnd(r[i]) /\ MayOpen(r[j]) =>
            Held' \/ \E h \in 1..(i - 1) : Holds(r[h])
  BY <1>15, <1>16
<1>20. /\ flow' = "completed" => \A i \in DOMAIN agenda'[t] : ~MayOpen(agenda'[t][i])
       /\ \A i, j \in DOMAIN agenda'[t] :
            i < j /\ MayEnd(agenda'[t][i]) /\ MayOpen(agenda'[t][j]) =>
              Held' \/ \E h \in 1..(i - 1) : Holds(agenda'[t][h])
  BY <1>19 DEF r
<1>21. \A u \in Thread : u = t
  OBVIOUS
<1> QED
  BY <1>9, <1>12, <1>18, <1>20, <1>21 DEF EndInv

-----------------------------------------------------------------------------
(* The worklist follows.                                                   *)

\* In a working agenda only the head can have a document still to write.
LEMMA WorkingMirror ==
    ASSUME TypeOK, NEW t \in Thread, ~Idle(t), Working(t)
    PROVE  TaskInv(agenda[t]) <=>
             IF Lags(Head(agenda[t])) THEN LagInv(Head(agenda[t])) ELSE Reflected("todo")
<1> DEFINE c == Head(agenda[t])
<1>1. c.op \in EngineOp
  BY WorkingHead
<1>2. c.op \notin HalfDone
  BY <1>1 DEF EngineOp, HalfDone
<1>3. flow \in {"active", "completed"}
  BY DEF Working
<1>4. Mirror <=> Reflected("todo")
  BY <1>3 DEF Mirror
<1>5. CASE Lags(c)
  BY <1>2, <1>5 DEF TaskInv, HalfDone
<1>6. CASE ~Lags(c)
  BY <1>2, <1>4, <1>6 DEF TaskInv, HalfDone
<1> QED
  BY <1>5, <1>6

\* So for the state after a step, whose agenda begins with a new call, if any.
LEMMA NextMirror ==
    ASSUME TypeOK, TypeOK', NEW t, Thread = {t}, ~Idle(t), Working(t), NEW new, Step(t, new),
           \A i \in DOMAIN new : Lags(new[i]) => i = 1 /\ LagInv(new[i])',
           (\A i \in DOMAIN new : ~Lags(new[i])) => Reflected("todo")'
    PROVE  MirrorInv'
<1> DEFINE q == agenda[t]  r == agenda'[t]
<1>0. t \in Thread
  OBVIOUS
<1>1. Working(t)' /\ Splice(q, new, r)
  BY <1>0, PlanStep, StepSplice
<1>2. ASSUME ~Idle(t)'
      PROVE  IF Lags(Head(r)) THEN LagInv(Head(agenda[t]))' ELSE Reflected("todo")'
  <2>1. r # <<>> /\ Head(r) = r[1] /\ 1 \in DOMAIN r
    BY <1>1, <1>2, EmptySeq DEF Idle, Splice
  <2>2. Fits(r[1], 1 = 1, 1 = Len(r))
    BY <1>1, <2>1 DEF Working
  <2>3. CASE 1 \in DOMAIN new /\ r[1] = new[1]
    <3>1. CASE Lags(new[1])
      <4>1. LagInv(new[1])' /\ Head(r) = new[1]
        BY <2>1, <2>3, <3>1
      <4>2. Lags(Head(r))
        BY <3>1, <4>1
      <4>3. LagInv(Head(agenda[t]))'
        BY <4>1 DEF LagInv, r
      <4> QED
        BY <4>2, <4>3
    <3>2. CASE ~Lags(new[1])
      <4>1. \A i \in DOMAIN new : ~Lags(new[i])
        BY <3>2
      <4> QED
        BY <2>1, <2>3, <3>2, <4>1
    <3> QED
      BY <3>1, <3>2
  <2>4. CASE /\ 1 > Len(new) /\ 1 - Len(new) + 1 \in 2..Len(q)
             /\ r[1] = q[1 - Len(new) + 1]
    <3> DEFINE j == 1 - Len(new) + 1
    <3>1. j \in DOMAIN q /\ (j = 1) = FALSE /\ r[1] = q[j] /\ DOMAIN new = {}
      BY <1>1, <2>4 DEF Splice
    <3> HIDE DEF j
    <3>2. Fits(q[j], FALSE, j = Len(q))
      BY <3>1 DEF Working
    <3>3. ~Lags(Head(r))
      BY <2>1, <3>1, <3>2 DEF Fits, Behind, Lags, LagOp
    <3> QED
      BY <3>1, <3>3
  <2> QED
    BY <1>1, <2>1, <2>3, <2>4 DEF Splice
<1>3. ASSUME Idle(t)'
      PROVE  Mirror'
  <2>1. r = <<>>
    BY <1>3 DEF Idle
  <2>2. DOMAIN new = {}
    BY <1>1, <2>1 DEF Splice
  <2>3. Reflected("todo")'
    BY <2>2
  <2>4. flow' \in {"active", "completed"}
    BY <1>1 DEF Working
  <2> QED
    BY <2>3, <2>4 DEF Mirror
<1>4. ASSUME ~Idle(t)'
      PROVE  TaskInv(agenda[t])'
  <2>1. r # <<>> /\ Head(r) = r[1] /\ 1 \in DOMAIN r
    BY <1>1, <1>4, EmptySeq DEF Idle, Splice
  <2>2. Fits(r[1], 1 = 1, 1 = Len(r))
    BY <1>1, <2>1 DEF Working
  <2>3. Head(r).op \notin HalfDone
    BY <2>1, <2>2 DEF Fits, EngineOp, Behind, HalfDone
  <2>4. Lags(Head(r)) => LagInv(Head(agenda[t]))'
    BY <1>2, <1>4
  <2>5. ~Lags(Head(r)) => Mirror'
    <3>1. flow' \in {"active", "completed"}
      BY <1>1 DEF Working
    <3> QED
      BY <1>2, <1>4, <3>1 DEF Mirror
  <2> QED
    BY <2>3, <2>4, <2>5 DEF TaskInv, HalfDone, LagInv, r
<1>5. \A u \in Thread : u = t
  OBVIOUS
<1> QED
  BY <1>3, <1>4, <1>5 DEF MirrorInv

\* The calls of a step are those the action names.
LEMMA SameCalls ==
    ASSUME TypeOK, NEW t \in Thread, ~Idle(t), NEW new, Step(t, new),
           NEW m \in Seq(Call), Then(t, m)
    PROVE  new = m
<1> DEFINE q == agenda[t]
<1>1. /\ q \in Seq(Call) /\ q # <<>> /\ new \in Seq(Call)
      /\ agenda'[t] = new \o Tail(q) /\ agenda'[t] = m \o Tail(q)
  BY DEF TypeOK, Idle, Step, Then
<1>2. Tail(q) \in Seq(Call)
  BY <1>1, HeadTail
<1> HIDE DEF q
<1> QED
  BY <1>1, <1>2, ConcatSimplifications

\* Steps at other than user tasks, and those that only decide where to go.
LEMMA MirrorPlain ==
    ASSUME TypeOK, TypeOK', NEW t, Thread = {t}, ~Idle(t), Working(t),
           faults = 0, MirrorInv, NEW new, Step(t, new), task' = task,
           \/ Head(agenda[t]).at \notin UserStage
           \/ Head(agenda[t]).op \in {"goToNextStage", "iterateNextStages"}
    PROVE  MirrorInv'
<1> DEFINE c == Head(agenda[t])
<1>0. t \in Thread
  OBVIOUS
<1>1. Follows(c, Tail(agenda[t]) = <<>>, new) /\ Writes(c)
  BY DEF Step
<1>2. TaskInv(agenda[t])
  BY <1>0 DEF MirrorInv
<1>3. ~Lags(c)
  BY DEF Lags, LagOp
<1>4. Reflected("todo")
  BY <1>0, <1>2, <1>3, WorkingMirror
<1> HIDE DEF c
<1>5. ASSUME NEW s \in UserStage
      PROVE  status'[s] = status[s] /\ task'[s] = task[s]
  <2>1. s \in Stage
    BY DEF UserStage, StagesOf
  <2>2. CASE c.at \notin UserStage
    BY <1>1, <2>1, <2>2 DEF Writes
  <2>3. CASE c.op \in {"goToNextStage", "iterateNextStages"}
    BY <1>1, <2>3 DEF Writes
  <2> QED
    BY <2>2, <2>3 DEF c
<1>6. Reflected("todo")'
  BY <1>4, <1>5 DEF Reflected, Reflects
<1>7. \A i \in DOMAIN new : ~Lags(new[i])
  BY <1>1 DEF Follows, Lags, c
<1> QED
  BY <1>6, <1>7, NextMirror

\* A user task becomes active, and its document is written two calls later.
LEMMA MirrorOpening ==
    ASSUME TypeOK, TypeOK', NEW t, Thread = {t}, ~Idle(t), Working(t),
           faults = 0, MirrorInv, NEW new, Step(t, new),
           Head(agenda[t]).at \in UserStage,
           MakeStageActive(t) \/ OnStageActive(t) \/ CreateUserTasks(t)
    PROVE  MirrorInv'
<1> DEFINE c == Head(agenda[t])  k == c.at
<1>0. t \in Thread
  OBVIOUS
<1>1. k \in UserStage /\ k \in Stage /\ kind[k] = "user" /\ c \in Call
  BY <1>0, WorkingHead DEF UserStage, StagesOf
<1>2. TaskInv(agenda[t])
  BY <1>0 DEF MirrorInv
<1>3. IF Lags(c) THEN LagInv(c) ELSE Reflected("todo")
  BY <1>0, <1>2, WorkingMirror
<1>4. UserStage \subseteq Stage
  BY DEF UserStage, StagesOf
<1>5. CASE MakeStageActive(t)
  <2> DEFINE e == failed[k] /\ ~c.flag
             d == DoIf("onStageActive", k, e)
  <2>1. /\ c.op = "makeStageActive" /\ Then(t, <<d>>) /\ task' = task
        /\ status' = [status EXCEPT ![k] = "active"]
    BY <1>5 DEF MakeStageActive, Turn
  <2>2. d \in Call /\ d.op = "onStageActive" /\ d.at = k
    <3>1. e \in BOOLEAN
      BY <1>1 DEF TypeOK, Call
    <3>2. d \in Call
      BY <1>1, <3>1, DoType, AllCalls
    <3> QED
      BY <3>2, CallFields
  <2> HIDE DEF d
  <2>3. new = <<d>>
    <3>1. <<d>> \in Seq(Call)
      BY <2>2
    <3> QED
      BY <1>0, <2>1, <3>1, SameCalls
  <2>4. Reflected("todo")
    BY <1>3, <2>1 DEF Lags, LagOp
  <2>5. DOMAIN new = {1} /\ new[1] = d
    BY <2>3
  <2>6. LagInv(new[1])'
    <3>1. status'[k] = "active"
      BY <1>1, <2>1 DEF TypeOK
    <3>2. \A s \in UserStage \ {k} : Reflects(s, "todo")'
      BY <1>4, <2>1, <2>4 DEF Reflected, Reflects, TypeOK
    <3> QED
      BY <2>2, <2>5, <3>1, <3>2 DEF LagInv
  <2>7. Lags(d)
    BY <1>1, <2>2 DEF Lags, LagOp
  <2>8. \A i \in DOMAIN new : Lags(new[i]) => i = 1 /\ LagInv(new[i])'
    BY <2>5, <2>6
  <2> QED
    BY <2>5, <2>7, <2>8, NextMirror
<1>6. CASE OnStageActive(t)
  <2> DEFINE d == DoIf("createUserTasks", k, task[k] # "none")
  <2>1. c.op = "onStageActive" /\ Then(t, <<d>>) /\ task' = task /\ status' = status
    BY <1>1, <1>6 DEF OnStageActive, Turn, docVars
  <2>2. d \in Call /\ d.op = "createUserTasks" /\ d.at = k /\ d.flag = (task[k] # "none")
    <3>1. d \in Call
      BY <1>1, DoType, AllCalls
    <3> QED
      BY <3>1, CallFields
  <2> HIDE DEF d
  <2>3. new = <<d>>
    <3>1. <<d>> \in Seq(Call)
      BY <2>2
    <3> QED
      BY <1>0, <2>1, <3>1, SameCalls
  <2>4. LagInv(c)
    BY <1>1, <1>3, <2>1 DEF Lags, LagOp
  <2>5. DOMAIN new = {1} /\ new[1] = d
    BY <2>3
  <2>6. LagInv(new[1])'
    <3>1. status'[k] = "active" /\ d.flag = (task'[k] # "none")
      BY <2>1, <2>2, <2>4 DEF LagInv
    <3>2. \A s \in UserStage \ {k} : Reflects(s, "todo")'
      BY <2>1, <2>4 DEF LagInv, Reflects
    <3> QED
      BY <2>2, <2>5, <3>1, <3>2 DEF LagInv
  <2>7. Lags(d)
    BY <1>1, <2>2 DEF Lags, LagOp
  <2>8. \A i \in DOMAIN new : Lags(new[i]) => i = 1 /\ LagInv(new[i])'
    BY <2>5, <2>6
  <2> QED
    BY <2>5, <2>7, <2>8, NextMirror
<1>7. CASE CreateUserTasks(t)
  <2>1. /\ c.op = "createUserTasks" /\ Then(t, <<>>) /\ status' = status
        /\ IF c.flag \/ task[k] = "none" THEN task' = [task EXCEPT ![k] = "todo"]
                                         ELSE task' = task
    BY <1>7 DEF CreateUserTasks, Turn
  <2>2. new = <<>>
    BY <1>0, <2>1, EmptySeq, SameCalls
  <2>3. LagInv(c)
    BY <1>1, <1>3, <2>1 DEF Lags, LagOp
  <2>4. status[k] = "active" /\ task' = [task EXCEPT ![k] = "todo"]
    BY <2>1, <2>3 DEF LagInv
  <2>5. Reflected("todo")'
    BY <1>1, <1>4, <2>1, <2>3, <2>4 DEF Reflected, Reflects, LagInv, TypeOK
  <2> QED
    BY <2>2, <2>5, NextMirror
<1> QED
  BY <1>5, <1>6, <1>7

\* A user task finishes, and its document is written two calls later.
LEMMA MirrorClosing ==
    ASSUME TypeOK, TypeOK', ControlJustified, NEW t, Thread = {t}, ~Idle(t), Working(t),
           faults = 0, MirrorInv, NEW new, Step(t, new),
           Head(agenda[t]).at \in UserStage,
           MakeTaskComplete(t) \/ AfterComplete(t) \/ UpdateUserTask(t)
    PROVE  MirrorInv'
<1> DEFINE c == Head(agenda[t])  k == c.at
<1>0. t \in Thread
  OBVIOUS
<1>1. k \in UserStage /\ k \in Stage /\ kind[k] = "user" /\ c \in Call
  BY <1>0, WorkingHead DEF UserStage, StagesOf
<1>2. TaskInv(agenda[t])
  BY <1>0 DEF MirrorInv
<1>3. IF Lags(c) THEN LagInv(c) ELSE Reflected("todo")
  BY <1>0, <1>2, WorkingMirror
<1>4. UserStage \subseteq Stage
  BY DEF UserStage, StagesOf
<1>5. /\ Writes(c) /\ new \in Seq(Call)
      /\ \A i \in DOMAIN new : Fits(new[i], i = 1, i = Len(new) /\ Tail(agenda[t]) = <<>>)
  BY DEF Step, Follows
<1>6. ASSUME NEW i \in DOMAIN new, Lags(new[i])
      PROVE  i = 1
  BY <1>5, <1>6 DEF Fits, Lags, LagOp, Behind
<1>7. CASE MakeTaskComplete(t)
  <2>1. c.op = "makeTaskComplete" /\ task' = task
    BY <1>7 DEF MakeTaskComplete, Turn
  <2>2. PICK d \in Call : d.op = "afterComplete" /\ d.at = k /\ Then(t, <<d>>)
    <3>1. PICK e : Then(t, <<DoIf("afterComplete", k, Valid(k, e))>>)
      BY <1>7 DEF MakeTaskComplete
    <3>2. Valid(k, e) \in BOOLEAN
      BY DEF Valid
    <3> DEFINE d == DoIf("afterComplete", k, Valid(k, e))
    <3>3. d \in Call
      BY <1>1, <3>2, DoType, AllCalls
    <3>4. d.op = "afterComplete" /\ d.at = k
      BY CallFields
    <3>5. Then(t, <<d>>)
      BY <3>1
    <3> HIDE DEF d
    <3> QED
      BY <3>3, <3>4, <3>5
  <2>3. new = <<d>>
    <3>1. <<d>> \in Seq(Call)
      OBVIOUS
    <3> QED
      BY <1>0, <2>2, <3>1, SameCalls
  <2>4. DOMAIN new = {1} /\ new[1] = d
    BY <2>3
  <2>5. Reflected("todo")
    BY <1>3, <2>1 DEF Lags, LagOp
  <2>6. LagInv(new[1])'
    <3>1. status'[k] \in {"completed", "error"}
      BY <1>5, <2>1 DEF Writes
    <3>2. \A s \in UserStage \ {k} : Reflects(s, "todo")'
      BY <1>4, <1>5, <2>1, <2>5 DEF Reflected, Reflects, Writes
    <3> QED
      BY <2>2, <2>4, <3>1, <3>2 DEF LagInv
  <2>7. Lags(new[1])
    BY <1>1, <2>2, <2>4 DEF Lags, LagOp
  <2> QED
    BY <1>6, <2>4, <2>6, <2>7, NextMirror
<1>8. CASE AfterComplete(t)
  <2> DEFINE u == [Do("updateUserTask", k) EXCEPT !.val = status[k]]
             rest == IF c.flag THEN IterateNextStages(k) ELSE <<>>
  <2>1. c.op = "afterComplete" /\ task' = task /\ status' = status /\ Then(t, <<u>> \o rest)
    BY <1>1, <1>8 DEF AfterComplete, Turn, docVars
  <2>2. u \in Call /\ u.op = "updateUserTask" /\ u.at = k /\ u.val = status[k]
    <3>1. status[k] \in StageStatus
      BY <1>1 DEF TypeOK
    <3>2. u \in Call
      BY <1>1, <3>1, DoType, AllCalls
    <3> QED
      BY <3>2, CallFields
  <2> HIDE DEF u
  <2>3. rest \in Seq(Call)
    BY <1>1, IterateType, EmptySeq
  <2> HIDE DEF rest
  <2>4. new = <<u>> \o rest
    <3>1. <<u>> \o rest \in Seq(Call)
      BY <2>2, <2>3, WithFirst
    <3> QED
      BY <1>0, <2>1, <3>1, SameCalls
  <2>5. 1 \in DOMAIN new /\ new[1] = u
    BY <2>2, <2>3, <2>4, WithFirst
  <2>6. LagInv(c)
    BY <1>1, <1>3, <2>1 DEF Lags, LagOp
  <2>7. LagInv(new[1])'
    <3>1. status'[k] \in {"completed", "error"} /\ new[1].val = status'[k]
      BY <2>1, <2>2, <2>5, <2>6 DEF LagInv
    <3>2. \A s \in UserStage \ {k} : Reflects(s, "todo")'
      BY <2>1, <2>6 DEF LagInv, Reflects
    <3> QED
      BY <2>2, <2>5, <3>1, <3>2 DEF LagInv
  <2>8. Lags(new[1])
    BY <1>1, <2>2, <2>5 DEF Lags, LagOp
  <2> QED
    BY <1>6, <2>5, <2>7, <2>8, NextMirror
<1>9. CASE UpdateUserTask(t)
  <2>1. /\ c.op = "updateUserTask" /\ Then(t, <<>>) /\ status' = status
        /\ task' = [task EXCEPT ![k] = IF @ = "none" THEN @
                                       ELSE IF c.val = "completed" THEN "done" ELSE c.val]
    BY <1>9 DEF UpdateUserTask, Turn
  <2>2. new = <<>>
    BY <1>0, <2>1, EmptySeq, SameCalls
  <2>3. LagInv(c)
    BY <1>1, <1>3, <2>1 DEF Lags, LagOp
  <2>4. status[k] \in {"completed", "error"} /\ c.val = status[k]
    BY <2>1, <2>3 DEF LagInv
  <2>5. task[k] # "none"
    BY <1>1, <2>4 DEF ControlJustified, StatusJustified, FinishedHasTask
  <2>6. task \in [Stage -> TaskStatus]
    BY DEF TypeOK
  <2>7. ASSUME NEW s \in UserStage
        PROVE  Reflects(s, "todo")'
    <3>1. CASE s = k
      <4>1. task'[k] = IF c.val = "completed" THEN "done" ELSE c.val
        BY <1>1, <2>1, <2>5, <2>6
      <4> QED
        BY <2>1, <2>4, <3>1, <4>1 DEF Reflects
    <3>2. CASE s # k
      <4>1. Reflects(s, "todo")
        BY <2>3, <3>2 DEF LagInv
      <4>2. task'[s] = task[s] /\ status'[s] = status[s]
        BY <1>4, <2>1, <2>6, <3>2
      <4> QED
        BY <4>1, <4>2 DEF Reflects
    <3> QED
      BY <3>1, <3>2
  <2>8. Reflected("todo")'
    BY <2>7 DEF Reflected
  <2> QED
    BY <2>2, <2>8, NextMirror
<1> QED
  BY <1>7, <1>8, <1>9

LEMMA MirrorStep ==
    ASSUME TypeOK, TypeOK', ControlJustified, NEW t, Thread = {t}, ~Idle(t), Working(t),
           MirrorInv, Runs(t)
    PROVE  MirrorInv'
<1> DEFINE c == Head(agenda[t])
<1>0. t \in Thread
  OBVIOUS
<1>1. faults' = faults
  BY DEF Runs, StartFlow, GoToNextStage, MakeStageActive, OnStageActive, CreateUserTasks,
         MakeTaskComplete, AfterComplete, UpdateUserTask, IterateToEnd, MakeFlowEnd,
         MarkStageCompleted
<1>2. CASE faults # 0
  BY <1>1, <1>2 DEF MirrorInv
<1>3. CASE faults = 0
  <2>1. PICK new : Step(t, new)
    BY <1>0, RunSteps
  <2>2. /\ c.at \in Stage /\ Fits(c, TRUE, Tail(agenda[t]) = <<>>)
    BY <1>0, WorkingHead
  <2>3. CASE StartFlow(t) \/ MakeFlowEnd(t) \/ MarkStageCompleted(t)
    <3>1. task' = task /\ c.op \in {"startFlow", "makeFlowEnd", "markStageCompleted"}
      BY <2>3 DEF StartFlow, MakeFlowEnd, MarkStageCompleted, Turn
    <3>2. c.at \notin UserStage
      BY <2>2, <3>1, StageAssumption DEF Fits, UserStage, StagesOf, Gateway
    <3> QED
      BY <1>3, <2>1, <3>1, <3>2, MirrorPlain
  <2>4. CASE GoToNextStage(t) \/ IterateToEnd(t)
    <3>1. task' = task /\ c.op \in {"goToNextStage", "iterateNextStages"}
      BY <2>4 DEF GoToNextStage, IterateToEnd, Turn, docVars
    <3> QED
      BY <1>3, <2>1, <3>1, MirrorPlain
  <2>5. CASE c.at \in UserStage
    BY <1>3, <2>1, <2>3, <2>4, <2>5, MirrorOpening, MirrorClosing DEF Runs
  <2>6. CASE /\ c.at \notin UserStage
             /\ \/ MakeStageActive(t) \/ OnStageActive(t)
                \/ MakeTaskComplete(t) \/ AfterComplete(t)
    <3>1. task' = task
      BY <2>6 DEF MakeStageActive, OnStageActive, MakeTaskComplete, AfterComplete, docVars
    <3> QED
      BY <1>3, <2>1, <2>6, <3>1, MirrorPlain
  <2>7. CASE c.at \notin UserStage /\ (CreateUserTasks(t) \/ UpdateUserTask(t))
    <3>1. c.op \in {"createUserTasks", "updateUserTask"}
      BY <2>7 DEF CreateUserTasks, UpdateUserTask, Turn
    <3> QED
      BY <2>2, <2>7, <3>1 DEF Fits, UserStage, StagesOf
  <2> QED
    BY <2>3, <2>4, <2>5, <2>6, <2>7 DEF Runs
<1> QED
  BY <1>2, <1>3

-----------------------------------------------------------------------------
(* Requests that do not run the flow, or not yet.                          *)

\* None of their calls is one of the executor's.
LEMMA ErrandCalls ==
    ASSUME TypeOK', NEW t \in Thread, Errand(t)'
    PROVE  \A i \in DOMAIN agenda'[t] : agenda'[t][i].op \notin EngineOp
<1> DEFINE a == agenda'[t]
<1>1. a \in Seq(Call) /\ DOMAIN a = 1..Len(a)
  BY DEF TypeOK
<1>2. CASE Len(a) = 1 /\ Head(a).op \notin EngineOp
  <2>1. DOMAIN a = {1} /\ Head(a) = a[1]
    BY <1>1, <1>2
  <2> QED
    BY <1>2, <2>1
<1>3. CASE Len(a) = 2 /\ a[1].op \notin EngineOp /\ a[2].op \notin EngineOp
  <2>1. DOMAIN a = {1, 2}
    BY <1>1, <1>3
  <2> QED
    BY <1>3, <2>1
<1>4. \/ Len(a) = 1 /\ Head(a).op \notin EngineOp
      \/ Len(a) = 2 /\ a[1].op \notin EngineOp /\ a[2].op \notin EngineOp
  BY DEF Errand, Single, Pair, EngineOp, RequestOp
<1> QED
  BY <1>2, <1>3, <1>4

\* A step that leaves the stages alone, to an agenda without executor calls.
LEMMA Aside ==
    ASSUME TypeOK', NEW t, Thread = {t}, SerialInv,
           UNCHANGED <<status, failed, done>>,
           flow' = "completed" => flow = "completed",
           flow' # "cancelled" => flow # "cancelled" /\ params \subseteq params',
           Idle(t)' \/ Errand(t)',
           \A i \in DOMAIN agenda'[t] :
             agenda'[t][i].op = "saveParams" => agenda'[t][i].seen = params',
           faults' = 0 /\ EndInv /\ MirrorInv =>
             IF Idle(t)' THEN Mirror' ELSE TaskInv(agenda[t])'
    PROVE  SerialInv'
<1> DEFINE r == agenda'[t]
<1>0. t \in Thread /\ \A u \in Thread : u = t
  OBVIOUS
<1>1. \A i \in DOMAIN r : r[i].op \notin EngineOp
  <2>1. CASE Idle(t)'
    BY <2>1, EmptySeq DEF Idle
  <2> QED
    BY <1>0, <2>1, ErrandCalls
<1>2. PlanInv'
  BY <1>0 DEF PlanInv
<1>3. FieldsInv'
  <2>1. FieldsInv
    BY DEF SerialInv
  <2> QED
    BY <1>0, <1>1, <2>1 DEF FieldsInv, EngineOp
<1>4. JoinInv'
  BY <1>0, <1>1 DEF JoinInv, EngineOp
<1>5. \A i \in DOMAIN r : r[i].op \notin Carries \cup {"makeFlowEnd"}
  BY <1>1 DEF Carries, EngineOp
<1>6. ASSUME EndInv PROVE EndInv'
  <2>1. \A s \in Stage : status'[s] = "error" => failed'[s] /\ s \in showsError
    BY <1>6 DEF EndInv
  <2>2. flow' = "completed" => ~AnyActive'
    BY <1>6 DEF EndInv, AnyActive
  <2>3. /\ \A i \in DOMAIN r : ~MayOpen(r[i])
        /\ \A i \in DOMAIN r : ~MayEnd(r[i])
    BY <1>5 DEF MayOpen, MayEnd
  <2>4. ~Turn(t, "makeFlowEnd")'
    <3>1. r # <<>> => Head(r) = r[1] /\ 1 \in DOMAIN r
      BY <1>0, EmptySeq DEF TypeOK
    <3> QED
      BY <1>1, <3>1 DEF Turn, Idle, EngineOp
  <2> QED
    BY <1>0, <2>1, <2>2, <2>3, <2>4 DEF EndInv
<1>7. EndInv /\ MirrorInv => MirrorInv'
  BY <1>0 DEF MirrorInv
<1> QED
  BY <1>2, <1>3, <1>4, <1>6, <1>7 DEF SerialInv

LEMMA TailOfTwo ==
    ASSUME NEW q \in Seq(Call), Len(q) = 2
    PROVE  /\ Tail(q) \in Seq(Call) /\ Tail(q) # <<>> /\ Len(Tail(q)) = 1
           /\ Head(Tail(q)) = q[2] /\ DOMAIN Tail(q) = {1} /\ Tail(q)[1] = q[2]
<1>1. q # <<>>
  BY EmptySeq
<1>2. Tail(q) \in Seq(Call) /\ Len(Tail(q)) = 1 /\ DOMAIN Tail(q) = {1} /\ Tail(q)[1] = q[2]
  <2>1. /\ Tail(q) \in Seq(Call) /\ Len(Tail(q)) = 1
        /\ \A i \in 1..Len(Tail(q)) : Tail(q)[i] = q[i + 1]
    BY <1>1, HeadTailProperties
  <2> QED
    BY <2>1
<1>3. Tail(q) # <<>> /\ Head(Tail(q)) = Tail(q)[1]
  BY <1>2, EmptySeq
<1> QED
  BY <1>2, <1>3

\* A new request keeps the worklist as it is.
LEMMA BeginSerial ==
    ASSUME TypeOK, TypeOK', NEW t, Thread = {t}, SerialInv,
           NEW a \in Seq(Call), Begin(t, a),
           \/ /\ Len(a) = 1
              /\ Head(a).op \in RequestOp \cup {"claimTask", "saveParams"}
              /\ Head(a).op = "saveParams" => Head(a).seen = params
           \/ Len(a) = 2 /\ a[1].op = "cancelFlow" /\ a[2].op = "cancelTasks"
           \/ Len(a) = 2 /\ a[1].op = "cancelTasks" /\ a[2].op = "cancelFlow"
    PROVE  SerialInv'
<1> DEFINE r == agenda'[t]
<1>0. t \in Thread
  OBVIOUS
<1>1. /\ Idle(t) /\ r = a
      /\ UNCHANGED <<flow, status, failed, params, task, done, faults>>
  BY <1>0 DEF Begin, docVars, history, TypeOK
<1>2. r \in Seq(Call) /\ r # <<>> /\ Head(r) = r[1] /\ DOMAIN r = 1..Len(r)
  <2>1. Len(a) # 0
    OBVIOUS
  <2> QED
    BY <1>1, <2>1, EmptySeq
<1>3. Errand(t)'
  BY <1>1 DEF Errand, Single, Pair
<1>4. \A i \in DOMAIN r : r[i].op = "saveParams" => r[i].seen = params'
  <2>1. CASE Len(a) = 1
    <3>1. DOMAIN r = {1}
      BY <1>1, <1>2, <2>1
    <3> QED
      BY <1>1, <1>2, <2>1, <3>1
  <2>2. CASE Len(a) = 2
    <3>1. DOMAIN r = {1, 2}
      BY <1>1, <1>2, <2>2
    <3> QED
      BY <1>1, <1>2, <2>2, <3>1
  <2> QED
    BY <2>1, <2>2
<1>5. ASSUME faults' = 0, MirrorInv
      PROVE  TaskInv(agenda[t])'
  <2>1. Mirror
    BY <1>0, <1>1, <1>5 DEF MirrorInv
  <2>2. Mirror'
    BY <1>1, <2>1 DEF Mirror, TasksClosed, Reflected, Reflects
  <2>3. /\ ~Lags(Head(r)) /\ Head(r).op \notin {"holdTasks", "resumeTasks"}
        /\ Head(r).op = "cancelFlow" => Tail(r) # <<>>
    <3>1. Len(r) = 2 => Tail(r) # <<>>
      BY <1>2, TailOfTwo
    <3> QED
      BY <1>1, <1>2, <3>1 DEF Lags, LagOp, RequestOp
  <2> QED
    BY <2>2, <2>3 DEF TaskInv, HalfDone
<1>6. ~Idle(t)'
  BY <1>2 DEF Idle
<1> QED
  BY <1>1, <1>3, <1>4, <1>5, <1>6, Aside

LEMMA CancelShapes ==
    ASSUME NEW s \in Stage, NEW b \in BOOLEAN, NEW a \in CancelWays(s, b)
    PROVE  /\ a \in Seq(Call) /\ Len(a) = 2
           /\ \/ a[1].op = "cancelFlow" /\ a[2].op = "cancelTasks"
              \/ a[1].op = "cancelTasks" /\ a[2].op = "cancelFlow"
<1>1. /\ DoIf("cancelFlow", s, b).op = "cancelFlow"
      /\ Do("cancelTasks", s).op = "cancelTasks"
  BY DEF Do, DoIf
<1>2. a \in Seq(Call)
  BY CancelWaysType
<1> QED
  BY <1>1, <1>2 DEF CancelWays

LEMMA RequestSerial ==
    ASSUME TypeOK, TypeOK', NEW t, Thread = {t}, SerialInv, Request(t)
    PROVE  SerialInv'
<1>0. t \in Thread /\ UserStage \subseteq Stage /\ Start \in Stage
  BY StageAssumption DEF UserStage, StagesOf
<1>1. ASSUME NEW d \in Call, Begin(t, <<d>>),
             d.op \in RequestOp \cup {"claimTask", "saveParams"},
             d.op = "saveParams" => d.seen = params
      PROVE  SerialInv'
  <2> DEFINE a == <<d>>
  <2>1. a \in Seq(Call) /\ Len(a) = 1 /\ Head(a) = d /\ Begin(t, a)
    BY <1>1
  <2> HIDE DEF a
  <2> QED
    BY <1>1, <2>1, BeginSerial
<1>2. ASSUME NEW op \in RequestOp \cup {"claimTask"}, NEW s \in UserStage,
             Begin(t, <<Do(op, s)>>)
      PROVE  SerialInv'
  <2>1. Do(op, s) \in Call /\ Do(op, s).op = op
    <3>1. op \in CallOp
      BY AllCalls
    <3> QED
      BY <1>0, <3>1, DoType DEF Do
  <2>2. op # "saveParams"
    BY DEF RequestOp
  <2> QED
    BY <1>1, <1>2, <2>1, <2>2
<1>3. CASE UpdateInstances(t)
  <2> DEFINE d == [Do("saveParams", Start) EXCEPT !.seen = params]
  <2>1. d \in Call /\ d.op = "saveParams" /\ d.seen = params
    BY <1>0, SaveType DEF Do
  <2>2. Begin(t, <<d>>)
    BY <1>3 DEF UpdateInstances
  <2> HIDE DEF d
  <2> QED
    BY <1>1, <2>1, <2>2
<1>4. CASE CancelInstance(t)
  <2>1. PICK a \in CancelWays(Start, FALSE) : Begin(t, a)
    BY <1>4 DEF CancelInstance
  <2> QED
    BY <1>0, <2>1, CancelShapes, BeginSerial
<1> QED
  BY <1>2, <1>3, <1>4 DEF Request, CompleteTask, ClaimTask

\* What stands behind the first call of such a request.
One(q, op) == Len(q) = 1 /\ Head(q).op = op

LEMMA ErrandShape ==
    ASSUME TypeOK, NEW t \in Thread, PlanInv, NEW op, Turn(t, op), op \notin EngineOp
    PROVE  LET r == Tail(agenda[t]) IN
           /\ ~Idle(t) /\ Head(agenda[t]) \in Call /\ r \in Seq(Call)
           /\ op \in RequestOp \cup {"claimTask", "saveParams"} => r = <<>>
           /\ op = "cancelFlow"  => r = <<>> \/ One(r, "cancelTasks")
           /\ op = "cancelTasks" => \/ flow = "cancelled" /\ r = <<>>
                                   \/ One(r, "cancelFlow")
           /\ op = "holdFlow"    => flow # "on-hold" /\ One(r, "holdTasks")
           /\ op = "holdTasks"   => flow # "active"  /\ r = <<>>
           /\ op = "resumeFlow"  => flow = "on-hold" /\ One(r, "resumeTasks")
           /\ op = "resumeTasks" => flow = "active"  /\ r = <<>>
<1> DEFINE q == agenda[t]  r == Tail(q)
<1>1. /\ ~Idle(t) /\ q \in Seq(Call) /\ q # <<>> /\ Head(q) = q[1] /\ Head(q).op = op
      /\ Head(q) \in Call /\ r \in Seq(Call)
  BY EmptySeq, HeadTail DEF TypeOK, Turn, Idle
<1>2. Errand(t)
  <2>1. ~Working(t)
    BY <1>1, WorkingHead
  <2> QED
    BY <1>1, <2>1 DEF PlanInv
<1>3. Len(q) = 1 => r = <<>>
  <2>1. Len(r) = Len(q) - 1
    BY <1>1, HeadTailProperties
  <2>2. Len(r) = 0 => r = <<>>
    BY <1>1, EmptySeq
  <2> QED
    BY <2>1, <2>2
<1>4. Len(q) = 2 => Len(r) = 1 /\ Head(r) = q[2]
  BY <1>1, TailOfTwo
<1>5. /\ \A ops : Single(t, ops) => op \in ops /\ Len(q) = 1
      /\ \A x, y : Pair(t, x, y) => op = x /\ Len(q) = 2 /\ q[2].op = y
  BY <1>1 DEF Single, Pair
<1> HIDE DEF q, r
<1>6. \A x, y : Pair(t, x, y) => op = x /\ One(r, y)
  BY <1>4, <1>5 DEF One
<1>7. \A ops : Single(t, ops) => op \in ops /\ r = <<>>
  BY <1>3, <1>5
<1>8. CASE Single(t, RequestOp \cup {"claimTask", "saveParams", "cancelFlow"})
  BY <1>1, <1>7, <1>8 DEF RequestOp, q, r
<1>9. CASE Pair(t, "cancelFlow", "cancelTasks") \/ Pair(t, "cancelTasks", "cancelFlow")
  BY <1>1, <1>6, <1>9 DEF RequestOp, q, r
<1>10. CASE \/ flow = "cancelled" /\ Single(t, {"cancelTasks"})
            \/ flow # "active"    /\ Single(t, {"holdTasks"})
            \/ flow = "active"    /\ Single(t, {"resumeTasks"})
  BY <1>1, <1>7, <1>10 DEF RequestOp, q, r
<1>11. CASE \/ flow # "on-hold"   /\ Pair(t, "holdFlow", "holdTasks")
            \/ flow = "on-hold"   /\ Pair(t, "resumeFlow", "resumeTasks")
  BY <1>1, <1>6, <1>11 DEF RequestOp, q, r
<1> QED
  BY <1>2, <1>8, <1>9, <1>10, <1>11 DEF Errand

\* The request goes on with what stands behind its first call.
LEMMA ErrandRest ==
    ASSUME TypeOK, NEW t \in Thread, ~Idle(t), Then(t, <<>>)
    PROVE  agenda'[t] = Tail(agenda[t])
<1>1. Tail(agenda[t]) \in Seq(Call)
  BY HeadTail DEF TypeOK, Idle
<1>2. agenda'[t] = <<>> \o Tail(agenda[t])
  BY DEF Then, TypeOK
<1> QED
  BY <1>1, <1>2, ConcatEmptySeq

\* A user task that is on hold, resumed or closed with its flow.
LEMMA Moved ==
    ASSUME TypeOK, NEW from, NEW to, "none" \notin from, status' = status,
           task' = [s \in Stage |-> IF task[s] \in from THEN to ELSE task[s]]
    PROVE  /\ TasksClosed /\ from \cap {"done"} = {} => TasksClosed'
           /\ from = TaskStatus \ {"none"} /\ to = "done" => TasksClosed'
           /\ from = {"todo"} /\ to = "on-hold" =>
                /\ Reflected("todo") => Reflected("on-hold")'
                /\ Reflected("on-hold") => Reflected("on-hold")'
                /\ Reflected("todo") /\ ~AnyActive => Reflected("todo")'
           /\ from = {"on-hold"} /\ to = "todo" /\ Reflected("on-hold") => Reflected("todo")'
<1>1. UserStage \subseteq Stage
  BY DEF UserStage, StagesOf
<1>2. \A s \in UserStage :
        /\ task'[s] = IF task[s] \in from THEN to ELSE task[s]
        /\ task[s] \in TaskStatus
  BY <1>1 DEF TypeOK
<1>3. TasksClosed /\ from \cap {"done"} = {} => TasksClosed'
  BY <1>2 DEF TasksClosed
<1>4. from = TaskStatus \ {"none"} /\ to = "done" => TasksClosed'
  BY <1>2 DEF TasksClosed
<1>5. ASSUME from = {"todo"}, to = "on-hold"
      PROVE  /\ Reflected("todo") => Reflected("on-hold")'
             /\ Reflected("on-hold") => Reflected("on-hold")'
             /\ Reflected("todo") /\ ~AnyActive => Reflected("todo")'
  BY <1>1, <1>2, <1>5 DEF Reflected, Reflects, AnyActive
<1>6. ASSUME from = {"on-hold"}, to = "todo", Reflected("on-hold")
      PROVE  Reflected("todo")'
  BY <1>2, <1>6 DEF Reflected, Reflects
<1> QED
  BY <1>3, <1>4, <1>5, <1>6

\* The request is over.
LEMMA AsideOver ==
    ASSUME TypeOK', NEW t, Thread = {t}, SerialInv,
           UNCHANGED <<status, failed, done>>,
           flow' = "completed" => flow = "completed",
           flow' # "cancelled" => flow # "cancelled" /\ params \subseteq params',
           agenda'[t] = <<>>,
           faults' = 0 /\ EndInv /\ MirrorInv => Mirror'
    PROVE  SerialInv'
<1>1. Idle(t)' /\ DOMAIN agenda'[t] = {}
  BY DEF Idle
<1> QED
  BY <1>1, Aside

\* The request has one call left.
LEMMA AsideOne ==
    ASSUME TypeOK', NEW t, Thread = {t}, SerialInv,
           UNCHANGED <<status, failed, done>>,
           flow' = "completed" => flow = "completed",
           flow' # "cancelled" => flow # "cancelled" /\ params \subseteq params',
           NEW op, One(agenda'[t], op), op # "saveParams", Single(t, {op})',
           Errand(t)',
           faults' = 0 /\ EndInv /\ MirrorInv => TaskInv(agenda[t])'
    PROVE  SerialInv'
<1> DEFINE r == agenda'[t]
<1>1. r \in Seq(Call) /\ Len(r) = 1 /\ Head(r).op = op
  BY DEF TypeOK, One
<1>2. r # <<>> /\ DOMAIN r = {1} /\ Head(r) = r[1]
  BY <1>1, EmptySeq
<1>3. ~Idle(t)' /\ \A i \in DOMAIN r : r[i].op # "saveParams"
  BY <1>1, <1>2 DEF Idle
<1> QED
  BY <1>3, Aside

\* Before a request has touched the worklist it mirrors the instance.
LEMMA MirrorBefore ==
    ASSUME NEW t \in Thread, NEW op, Turn(t, op), op \notin LagOp \cup HalfDone,
           faults = 0, MirrorInv
    PROVE  Mirror
<1>1. ~Idle(t) /\ Head(agenda[t]).op = op
  BY DEF Turn
<1> QED
  BY <1>1 DEF MirrorInv, TaskInv, HalfDone, Lags

LEMMA HoldSerial ==
    ASSUME TypeOK, TypeOK', NEW t, Thread = {t}, SerialInv, MakeFlowHold(t)
    PROVE  SerialInv'
<1>0. t \in Thread /\ PlanInv
  BY DEF SerialInv
<1>1. CASE MoveFlow(t, "holdFlow", "active", "on-hold")
  <2>1. /\ Turn(t, "holdFlow") /\ Then(t, <<>>)
        /\ flow' = IF flow = "active" THEN "on-hold" ELSE flow
        /\ UNCHANGED <<status, failed, params, task, faults, done>>
    BY <1>1 DEF MoveFlow, history
  <2>2. ~Idle(t) /\ flow # "on-hold" /\ One(Tail(agenda[t]), "holdTasks")
    BY <1>0, <2>1, ErrandShape DEF EngineOp
  <2>3. agenda'[t] = Tail(agenda[t])
    BY <1>0, <2>1, <2>2, ErrandRest
  <2>4. One(agenda'[t], "holdTasks") /\ Single(t, {"holdTasks"})'
    BY <2>2, <2>3 DEF One, Single
  <2>5. flow' # "active" /\ Errand(t)'
    BY <2>1, <2>4 DEF Errand
  <2>6. ASSUME faults' = 0, MirrorInv
        PROVE  TaskInv(agenda[t])'
    <3>1. Mirror
      BY <1>0, <2>1, <2>6, MirrorBefore DEF LagOp, HalfDone
    <3>2. IF flow' = "cancelled" THEN TasksClosed' ELSE Reflected("todo")'
      BY <2>1, <2>2, <3>1 DEF Mirror, TasksClosed, Reflected, Reflects
    <3>3. Head(agenda'[t]).op = "holdTasks"
      BY <2>4 DEF One
    <3> QED
      BY <3>2, <3>3 DEF TaskInv, HalfDone, Lags, LagOp
  <2> QED
    BY <2>1, <2>4, <2>5, <2>6, AsideOne
<1>2. CASE MoveTasks(t, "holdTasks", {"todo"}, "on-hold")
  <2>1. /\ Turn(t, "holdTasks") /\ Then(t, <<>>)
        /\ task' = [s \in Stage |-> IF task[s] \in {"todo"} THEN "on-hold" ELSE task[s]]
        /\ UNCHANGED <<flow, status, failed, params, faults, done>>
    BY <1>2 DEF MoveTasks, history
  <2>2. ~Idle(t) /\ flow # "active" /\ Tail(agenda[t]) = <<>>
    BY <1>0, <2>1, ErrandShape DEF EngineOp
  <2>3. agenda'[t] = <<>>
    BY <1>0, <2>1, <2>2, ErrandRest
  <2>4. ASSUME faults' = 0, EndInv, MirrorInv
        PROVE  Mirror'
    <3>1. IF flow = "cancelled" THEN TasksClosed ELSE Reflected("todo")
      BY <1>0, <2>1, <2>2, <2>4 DEF MirrorInv, TaskInv, Turn
    <3>2. /\ TasksClosed => TasksClosed'
          /\ Reflected("todo") => Reflected("on-hold")'
          /\ Reflected("on-hold") => Reflected("on-hold")'
          /\ Reflected("todo") /\ ~AnyActive => Reflected("todo")'
      <4>1. "none" \notin {"todo"} /\ {"todo"} \cap {"done"} = {}
        OBVIOUS
      <4>2. status' = status
        BY <2>1
      <4> QED
        BY <2>1, <4>1, <4>2, Moved
    <3>3. flow = "completed" => ~AnyActive
      BY <2>4 DEF EndInv
    <3>4. flow' = "cancelled" \/ flow' = "on-hold" \/ flow' = "completed"
      BY <2>1, <2>2 DEF TypeOK, FlowStatus
    <3> QED
      BY <2>1, <3>1, <3>2, <3>3, <3>4 DEF Mirror
  <2> QED
    BY <2>1, <2>3, <2>4, AsideOver
<1> QED
  BY <1>1, <1>2 DEF MakeFlowHold

LEMMA ResumeSerial ==
    ASSUME TypeOK, TypeOK', NEW t, Thread = {t}, SerialInv, MakeFlowResume(t)
    PROVE  SerialInv'
<1>0. t \in Thread /\ PlanInv
  BY DEF SerialInv
<1>1. CASE MoveFlow(t, "resumeFlow", "on-hold", "active")
  <2>1. /\ Turn(t, "resumeFlow") /\ Then(t, <<>>)
        /\ flow' = IF flow = "on-hold" THEN "active" ELSE flow
        /\ UNCHANGED <<status, failed, params, task, faults, done>>
    BY <1>1 DEF MoveFlow, history
  <2>2. ~Idle(t) /\ flow = "on-hold" /\ One(Tail(agenda[t]), "resumeTasks")
    BY <1>0, <2>1, ErrandShape DEF EngineOp
  <2>3. agenda'[t] = Tail(agenda[t])
    BY <1>0, <2>1, <2>2, ErrandRest
  <2>4. One(agenda'[t], "resumeTasks") /\ Single(t, {"resumeTasks"})'
    BY <2>2, <2>3 DEF One, Single
  <2>5. flow' = "active" /\ Errand(t)'
    BY <2>1, <2>2, <2>4 DEF Errand
  <2>6. ASSUME faults' = 0, MirrorInv
        PROVE  TaskInv(agenda[t])'
    <3>1. Mirror
      BY <1>0, <2>1, <2>6, MirrorBefore DEF LagOp, HalfDone
    <3>2. Reflected("on-hold")'
      BY <2>1, <2>2, <3>1 DEF Mirror, Reflected, Reflects
    <3>3. Head(agenda'[t]).op = "resumeTasks"
      BY <2>4 DEF One
    <3> QED
      BY <3>2, <3>3 DEF TaskInv, HalfDone, Lags, LagOp
  <2> QED
    BY <2>1, <2>2, <2>4, <2>5, <2>6, AsideOne
<1>2. CASE MoveTasks(t, "resumeTasks", {"on-hold"}, "todo")
  <2>1. /\ Turn(t, "resumeTasks") /\ Then(t, <<>>)
        /\ task' = [s \in Stage |-> IF task[s] \in {"on-hold"} THEN "todo" ELSE task[s]]
        /\ UNCHANGED <<flow, status, failed, params, faults, done>>
    BY <1>2 DEF MoveTasks, history
  <2>2. ~Idle(t) /\ flow = "active" /\ Tail(agenda[t]) = <<>>
    BY <1>0, <2>1, ErrandShape DEF EngineOp
  <2>3. agenda'[t] = <<>>
    BY <1>0, <2>1, <2>2, ErrandRest
  <2>4. ASSUME faults' = 0, MirrorInv
        PROVE  Mirror'
    <3>1. Reflected("on-hold")
      BY <1>0, <2>1, <2>2, <2>4 DEF MirrorInv, TaskInv, Turn
    <3>2. Reflected("todo")'
      BY <2>1, <3>1, Moved
    <3> QED
      BY <2>1, <2>2, <3>2 DEF Mirror
  <2> QED
    BY <2>1, <2>3, <2>4, AsideOver
<1> QED
  BY <1>1, <1>2 DEF MakeFlowResume

LEMMA CancelSerial ==
    ASSUME TypeOK, TypeOK', NEW t, Thread = {t}, SerialInv, MakeFlowCancel(t)
    PROVE  SerialInv'
<1>0. t \in Thread /\ PlanInv
  BY DEF SerialInv
<1>1. CASE CancelFlow(t)
  <2>1. /\ Turn(t, "cancelFlow") /\ Then(t, <<>>) /\ flow' = "cancelled"
        /\ UNCHANGED <<status, failed, task, faults, done>>
    BY <1>1 DEF CancelFlow, history
  <2>2. ~Idle(t) /\ (Tail(agenda[t]) = <<>> \/ One(Tail(agenda[t]), "cancelTasks"))
    BY <1>0, <2>1, ErrandShape DEF EngineOp
  <2>3. agenda'[t] = Tail(agenda[t])
    BY <1>0, <2>1, <2>2, ErrandRest
  <2>4. CASE One(agenda'[t], "cancelTasks")
    <3>1. Single(t, {"cancelTasks"})' /\ Head(agenda'[t]).op = "cancelTasks"
      BY <2>4 DEF One, Single
    <3>2. Errand(t)'
      BY <2>1, <3>1 DEF Errand
    <3>3. TaskInv(agenda[t])'
      BY <3>1 DEF TaskInv, HalfDone, Lags, LagOp
    <3> QED
      BY <2>1, <2>4, <3>1, <3>2, <3>3, AsideOne
  <2>5. CASE agenda'[t] = <<>>
    <3>1. ASSUME faults' = 0, MirrorInv
          PROVE  Mirror'
      <4>1. TasksClosed
        BY <1>0, <2>1, <2>2, <2>3, <2>5, <3>1 DEF MirrorInv, TaskInv, Turn
      <4> QED
        BY <2>1, <4>1 DEF Mirror, TasksClosed
    <3> QED
      BY <2>1, <2>5, <3>1, AsideOver
  <2> QED
    BY <2>2, <2>3, <2>4, <2>5
<1>2. CASE MoveTasks(t, "cancelTasks", TaskStatus \ {"none"}, "done")
  <2>1. /\ Turn(t, "cancelTasks") /\ Then(t, <<>>)
        /\ task' = [s \in Stage |->
                      IF task[s] \in TaskStatus \ {"none"} THEN "done" ELSE task[s]]
        /\ UNCHANGED <<flow, status, failed, params, faults, done>>
    BY <1>2 DEF MoveTasks, history
  <2>2. /\ ~Idle(t)
        /\ \/ flow = "cancelled" /\ Tail(agenda[t]) = <<>>
           \/ One(Tail(agenda[t]), "cancelFlow")
    BY <1>0, <2>1, ErrandShape DEF EngineOp
  <2>3. agenda'[t] = Tail(agenda[t])
    BY <1>0, <2>1, <2>2, ErrandRest
  <2>4. TasksClosed'
    <3>1. "none" \notin TaskStatus \ {"none"} /\ status' = status
      BY <2>1
    <3> QED
      BY <2>1, <3>1, Moved
  <2>5. CASE One(agenda'[t], "cancelFlow")
    <3>1. Single(t, {"cancelFlow"})' /\ Head(agenda'[t]).op = "cancelFlow"
      BY <2>5 DEF One, Single
    <3>2. Single(t, RequestOp \cup {"claimTask", "saveParams", "cancelFlow"})'
      BY <3>1 DEF Single
    <3>3. Errand(t)'
      BY <3>2 DEF Errand
    <3>4. TaskInv(agenda[t])'
      BY <2>4, <3>1 DEF TaskInv, HalfDone, Lags, LagOp
    <3> QED
      BY <2>1, <2>5, <3>1, <3>3, <3>4, AsideOne
  <2>6. CASE flow = "cancelled" /\ agenda'[t] = <<>>
    <3>1. Mirror'
      BY <2>1, <2>4, <2>6 DEF Mirror
    <3> QED
      BY <2>1, <2>6, <3>1, AsideOver
  <2> QED
    BY <2>2, <2>3, <2>5, <2>6
<1> QED
  BY <1>1, <1>2 DEF MakeFlowCancel

LEMMA SaveSerial ==
    ASSUME TypeOK, TypeOK', NEW t, Thread = {t}, SerialInv, SaveParams(t) \/ ClaimWrite(t)
    PROVE  SerialInv'
<1>0. t \in Thread /\ PlanInv /\ FieldsInv
  BY DEF SerialInv
<1>1. PICK op \in {"saveParams", "claimTask"} :
        /\ Turn(t, op) /\ Then(t, <<>>)
        /\ UNCHANGED <<flow, status, failed, task, faults, done>>
        /\ params' = IF op = "saveParams" THEN Head(agenda[t]).seen \cup {Head(agenda[t]).at}
                                          ELSE params
  BY DEF SaveParams, ClaimWrite, history
<1>2. ~Idle(t) /\ Tail(agenda[t]) = <<>>
  BY <1>0, <1>1, ErrandShape DEF EngineOp
<1>3. agenda'[t] = <<>>
  BY <1>0, <1>1, <1>2, ErrandRest
<1>4. params \subseteq params'
  <2>1. agenda[t] \in Seq(Call) /\ agenda[t] # <<>>
    BY <1>0, <1>2 DEF TypeOK, Idle
  <2>2. 1 \in DOMAIN agenda[t] /\ Head(agenda[t]) = agenda[t][1]
    BY <2>1, EmptySeq
  <2>3. op = "saveParams" => Head(agenda[t]).seen = params
    BY <1>0, <1>1, <2>2 DEF FieldsInv, Turn
  <2> QED
    BY <1>1, <2>3
<1>5. ASSUME faults' = 0, MirrorInv
      PROVE  Mirror'
  <2>1. Mirror
    BY <1>0, <1>1, <1>5, MirrorBefore DEF LagOp, HalfDone
  <2> QED
    BY <1>1, <2>1 DEF Mirror, TasksClosed, Reflected, Reflects
<1>6. \/ flow' = "cancelled" /\ flow = "cancelled"
      \/ flow # "cancelled"
  BY <1>1
<1> QED
  BY <1>1, <1>3, <1>4, <1>5, <1>6, AsideOver

\* The request goes on with the calls a after its first read.
LEMMA GoesOn ==
    ASSUME TypeOK, NEW t \in Thread, PlanInv, NEW op \in RequestOp, Turn(t, op),
           NEW a \in Seq(Call), Then(t, a)
    PROVE  agenda'[t] = a
<1>1. Tail(agenda[t]) = <<>>
  <2>1. op \notin EngineOp
    BY DEF RequestOp, EngineOp
  <2> QED
    BY <2>1, ErrandShape
<1>2. agenda'[t] = a \o <<>>
  BY <1>1 DEF Then, TypeOK
<1> QED
  BY <1>2, ConcatEmptySeq

\* A completion that is accepted: the flow has not ended, since the task is
\* active or has an error that does not stop it.
LEMMA CompleteSerial ==
    ASSUME TypeOK, TypeOK', ControlJustified, NEW t, Thread = {t}, SerialInv,
           Turn(t, "complete"), NEW s, s = Head(agenda[t]).at, Accepts("complete", s),
           Then(t, <<TaskCompletion(s)>>), UNCHANGED <<docVars, faults, done>>
    PROVE  SerialInv'
<1> DEFINE d == TaskCompletion(s)  r == agenda'[t]
<1>0. t \in Thread /\ PlanInv /\ \A u \in Thread : u = t
  BY DEF SerialInv
<1>1. s \in UserStage /\ s \in Stage /\ kind[s] = "user"
  <2>1. Head(agenda[t]) \in Allowed(reached, done, Tasked) /\ Head(agenda[t]).op = "complete"
    BY <1>0, TurnAllowed
  <2>2. s \in UserStage
    BY <2>1 DEF Allowed, RequestOp
  <2> QED
    BY <2>2 DEF UserStage, StagesOf
<1>2. d \in Call /\ d.op = "makeTaskComplete" /\ d.at = s /\ d.seen = params
  BY <1>1, TaskCompletionType DEF TaskCompletion, DoIf, Do
<1> HIDE DEF d
<1>3. r = <<d>>
  <2>1. <<d>> \in Seq(Call) /\ Then(t, <<d>>)
    BY <1>2 DEF d
  <2>2. "complete" \in RequestOp
    BY DEF RequestOp
  <2> QED
    BY <1>0, <2>1, <2>2, GoesOn
<1>4. DOMAIN r = {1} /\ r[1] = d /\ Head(r) = d /\ Len(r) = 1 /\ r # <<>>
  BY <1>3
<1>5. /\ status[s] \in {"active", "error"} /\ flow \in {"active", "completed"}
      /\ Valid(s, failed[s])
  BY DEF Accepts, TypeOK, FlowStatus
<1>6. UNCHANGED <<flow, status, failed, params, task, done, faults>>
  BY DEF docVars
<1>7. Working(t)'
  <2>1. Fits(d, TRUE, TRUE)
    BY <1>1, <1>2 DEF Fits, EngineOp
  <2>2. (1 = 1) = TRUE /\ (1 = Len(r)) = TRUE
    BY <1>4
  <2>3. \A i \in DOMAIN r : Fits(r[i], i = 1, i = Len(r))
    BY <1>4, <2>1, <2>2
  <2>4. ~Turn(t, "startFlow")'
    BY <1>2, <1>4 DEF Turn
  <2> QED
    BY <1>5, <1>6, <2>3, <2>4 DEF Working
<1>8. PlanInv'
  BY <1>0, <1>7 DEF PlanInv
<1>9. FieldsInv'
  <2>1. FieldsInv
    BY DEF SerialInv
  <2> QED
    BY <1>0, <1>2, <1>4, <1>6, <2>1 DEF FieldsInv
<1>10. JoinInv'
  BY <1>0, <1>2, <1>4 DEF JoinInv
<1>11. ASSUME ErrorsStop, EndInv
       PROVE  EndInv'
  <2>1. flow # "completed"
    <3>1. ASSUME flow = "completed"
          PROVE  FALSE
      <4>1. status[s] = "error"
        BY <1>1, <1>5, <1>11, <3>1 DEF EndInv, AnyActive
      <4>2. failed[s] /\ s \in showsError
        BY <1>1, <1>11, <4>1 DEF EndInv
      <4> QED
        BY <1>1, <1>5, <1>11, <4>2 DEF ErrorsStop, Valid
    <3> QED
      BY <3>1
  <2>2. \A i, j \in DOMAIN r : ~(i < j)
    BY <1>4
  <2>3. ~Turn(t, "makeFlowEnd")'
    BY <1>2, <1>4 DEF Turn
  <2>4. \A x \in Stage : status'[x] = "error" => failed'[x] /\ x \in showsError
    BY <1>6, <1>11 DEF EndInv
  <2> QED
    BY <1>0, <1>6, <2>1, <2>2, <2>3, <2>4 DEF EndInv
<1>12. ASSUME MirrorInv PROVE MirrorInv'
  <2>1. ASSUME faults' = 0
        PROVE  TaskInv(agenda[t])'
    <3>1. Mirror
      BY <1>0, <1>6, <1>12, <2>1, MirrorBefore DEF LagOp, HalfDone
    <3>2. Mirror'
      BY <1>6, <3>1 DEF Mirror, TasksClosed, Reflected, Reflects
    <3>3. Head(r).op = "makeTaskComplete"
      BY <1>2, <1>4
    <3> QED
      BY <3>2, <3>3 DEF TaskInv, HalfDone, Lags, LagOp
  <2>2. ~Idle(t)'
    BY <1>4 DEF Idle
  <2> QED
    BY <1>0, <2>1, <2>2 DEF MirrorInv
<1> QED
  BY <1>8, <1>9, <1>10, <1>11, <1>12 DEF SerialInv

\* A request that goes on as an errand.
LEMMA ErrandSerial ==
    ASSUME TypeOK, TypeOK', NEW t, Thread = {t}, SerialInv, NEW verb \in RequestOp,
           Turn(t, verb), UNCHANGED <<docVars, faults, done>>,
           NEW a \in Seq(Call), Then(t, a),
           \/ Len(a) = 1 /\ Head(a).op = "saveParams" /\ Head(a).seen = params
           \/ /\ Len(a) = 2
              /\ \/ a[1].op = "cancelFlow" /\ a[2].op = "cancelTasks"
                 \/ a[1].op = "cancelTasks" /\ a[2].op = "cancelFlow"
                 \/ a[1].op = "holdFlow" /\ a[2].op = "holdTasks" /\ flow # "on-hold"
                 \/ a[1].op = "resumeFlow" /\ a[2].op = "resumeTasks" /\ flow = "on-hold"
    PROVE  SerialInv'
<1> DEFINE r == agenda'[t]
<1>0. t \in Thread /\ PlanInv
  BY DEF SerialInv
<1>1. r = a
  BY <1>0, GoesOn
<1>2. UNCHANGED <<flow, status, failed, params, task, done, faults>>
  BY DEF docVars
<1>3. Len(a) = 1 \/ Len(a) = 2
  OBVIOUS
<1>4. a # <<>> /\ Head(a) = a[1] /\ DOMAIN a = 1..Len(a)
  BY <1>3, EmptySeq
<1>5. Errand(t)'
  BY <1>1, <1>2 DEF Errand, Single, Pair
<1>6. \A i \in DOMAIN r : r[i].op = "saveParams" => r[i].seen = params'
  <2>1. CASE Len(a) = 1
    <3>1. DOMAIN r = {1}
      BY <1>1, <1>4, <2>1
    <3> QED
      BY <1>1, <1>2, <1>4, <2>1, <3>1
  <2>2. CASE Len(a) = 2
    <3>1. DOMAIN r = {1, 2}
      BY <1>1, <1>4, <2>2
    <3> QED
      BY <1>1, <2>2, <3>1
  <2> QED
    BY <1>3, <2>1, <2>2
<1>7. ASSUME faults' = 0, MirrorInv
      PROVE  TaskInv(agenda[t])'
  <2>1. Mirror
    BY <1>0, <1>2, <1>7, MirrorBefore DEF RequestOp, LagOp, HalfDone
  <2>2. Mirror'
    BY <1>2, <2>1 DEF Mirror, TasksClosed, Reflected, Reflects
  <2>3. Len(a) = 2 => Tail(a) # <<>>
    BY TailOfTwo
  <2>4. /\ ~Lags(Head(r)) /\ Head(r).op \notin {"holdTasks", "resumeTasks"}
        /\ Head(r).op = "cancelFlow" => Tail(r) # <<>>
    BY <1>1, <1>4, <2>3 DEF Lags, LagOp
  <2> QED
    BY <2>2, <2>4 DEF TaskInv, HalfDone
<1>8. ~Idle(t)'
  BY <1>1, <1>4 DEF Idle
<1> QED
  BY <1>2, <1>5, <1>6, <1>7, <1>8, Aside

LEMMA CheckSerial ==
    ASSUME TypeOK, TypeOK', ControlJustified, NEW t, Thread = {t}, SerialInv, CheckRequest(t)
    PROVE  SerialInv'
<1> DEFINE s == Head(agenda[t]).at
<1>0. t \in Thread /\ PlanInv
  BY DEF SerialInv
<1>1. PICK verb \in RequestOp :
        /\ Turn(t, verb)
        /\ IF Accepts(verb, s) THEN \E way \in Ways(verb, s) : Then(t, way)
                               ELSE Then(t, <<>>)
  BY DEF CheckRequest
<1>2. UNCHANGED <<docVars, faults, done>>
  BY DEF CheckRequest, history
<1>3. s \in Stage /\ ~Idle(t)
  BY <1>0, <1>1, TurnType
<1>4. CASE ~Accepts(verb, s)
  <2>1. Then(t, <<>>) /\ <<>> \in Seq(Call)
    BY <1>1, <1>4, EmptySeq
  <2>2. agenda'[t] = <<>>
    BY <1>0, <1>1, <2>1, GoesOn
  <2>3. ASSUME faults' = 0, MirrorInv
        PROVE  Mirror'
    <3>1. Mirror
      BY <1>0, <1>1, <1>2, <2>3, MirrorBefore DEF RequestOp, LagOp, HalfDone
    <3> QED
      BY <1>2, <3>1 DEF docVars, Mirror, TasksClosed, Reflected, Reflects
  <2>4. UNCHANGED <<flow, status, failed, params, done>>
    BY <1>2 DEF docVars
  <2>5. flow = "cancelled" \/ flow # "cancelled"
    OBVIOUS
  <2> QED
    BY <2>2, <2>3, <2>4, <2>5, AsideOver
<1>5. CASE Accepts(verb, s)
  <2>1. PICK way \in Ways(verb, s) : Then(t, way) /\ way \in Seq(Call)
    BY <1>1, <1>3, <1>5, WaysType
  <2>2. CASE verb = "complete"
    <3>1. Then(t, <<TaskCompletion(s)>>)
      BY <2>1, <2>2 DEF Ways
    <3> QED
      BY <1>1, <1>2, <1>5, <2>2, <3>1, CompleteSerial
  <2>3. CASE verb = "hold"
    <3>1. way = <<Do("holdFlow", s), Do("holdTasks", s)>>
      BY <2>1, <2>3 DEF Ways
    <3>2. /\ Len(way) = 2 /\ way[1] = Do("holdFlow", s) /\ way[2] = Do("holdTasks", s)
          /\ Do("holdFlow", s).op = "holdFlow" /\ Do("holdTasks", s).op = "holdTasks"
      BY <3>1 DEF Do
    <3>3. flow # "on-hold"
      BY <1>5, <2>3 DEF Accepts
    <3> QED
      BY <1>1, <1>2, <2>1, <3>2, <3>3, ErrandSerial
  <2>4. CASE verb = "cancel"
    <3>1. way \in CancelWays(s, TRUE)
      BY <2>1, <2>4 DEF Ways
    <3> QED
      BY <1>1, <1>2, <1>3, <2>1, <3>1, CancelShapes, ErrandSerial
  <2>5. CASE verb = "resume"
    <3>1. way = <<Do("resumeFlow", s), Do("resumeTasks", s)>>
      BY <2>1, <2>5 DEF Ways
    <3>2. /\ Len(way) = 2 /\ way[1] = Do("resumeFlow", s) /\ way[2] = Do("resumeTasks", s)
          /\ Do("resumeFlow", s).op = "resumeFlow" /\ Do("resumeTasks", s).op = "resumeTasks"
      BY <3>1 DEF Do
    <3>3. flow = "on-hold"
      BY <1>5, <2>5 DEF Accepts
    <3> QED
      BY <1>1, <1>2, <2>1, <3>2, <3>3, ErrandSerial
  <2>6. CASE verb = "save"
    <3> DEFINE d == [Do("saveParams", s) EXCEPT !.seen = params]
    <3>1. way = <<d>>
      BY <2>1, <2>6 DEF Ways
    <3>2. d.op = "saveParams" /\ d.seen = params
      BY DEF Do
    <3> HIDE DEF d
    <3>3. Len(way) = 1 /\ Head(way) = d
      BY <3>1
    <3> QED
      BY <1>1, <1>2, <2>1, <3>2, <3>3, ErrandSerial
  <2> QED
    BY <2>2, <2>3, <2>4, <2>5, <2>6 DEF RequestOp
<1> QED
  BY <1>4, <1>5

-----------------------------------------------------------------------------
(* Every step keeps the invariant.                                         *)

\* A request whose turn is a call of the executor runs the flow.
LEMMA EngineTurn ==
    ASSUME TypeOK, NEW t \in Thread, PlanInv, NEW op \in EngineOp, Turn(t, op)
    PROVE  ~Idle(t) /\ Working(t)
<1>1. /\ ~Idle(t) /\ agenda[t] \in Seq(Call) /\ agenda[t] # <<>>
      /\ Head(agenda[t]) = agenda[t][1] /\ Head(agenda[t]).op = op
  BY EmptySeq DEF TypeOK, Turn, Idle
<1>2. ~Errand(t)
  BY <1>1 DEF Errand, Single, Pair, EngineOp, RequestOp
<1> QED
  BY <1>1, <1>2 DEF PlanInv

LEMMA StepSerial ==
    ASSUME TypeOK, NEW t, Thread = {t}, SerialInv, ~Idle(t), Working(t), NEW new, Step(t, new)
    PROVE  /\ PlanInv' /\ FieldsInv' /\ JoinInv'
           /\ OrderedForks /\ EndInv => EndInv'
<1>1. t \in Thread /\ \A u \in Thread : u = t
  OBVIOUS
<1>2. Working(t)'
  BY <1>1, PlanStep
<1>3. PlanInv'
  BY <1>1, <1>2 DEF PlanInv
<1> QED
  BY <1>3, FieldsStep, JoinStep, EndStep DEF SerialInv

LEMMA RunSerial ==
    ASSUME TypeOK, TypeOK', ControlJustified, NEW t, Thread = {t}, SerialInv, Runs(t)
    PROVE  SerialInv'
<1>0. t \in Thread /\ PlanInv
  BY DEF SerialInv
<1>1. PICK op \in EngineOp : Turn(t, op)
  BY DEF Runs, StartFlow, GoToNextStage, MakeStageActive, OnStageActive, CreateUserTasks,
         MakeTaskComplete, AfterComplete, UpdateUserTask, IterateToEnd, MakeFlowEnd,
         MarkStageCompleted, EngineOp
<1>2. ~Idle(t) /\ Working(t)
  BY <1>0, <1>1, EngineTurn
<1>3. PICK new : Step(t, new)
  BY <1>0, <1>2, RunSteps
<1>4. MirrorInv => MirrorInv'
  BY <1>2, MirrorStep
<1> QED
  BY <1>2, <1>3, <1>4, StepSerial DEF SerialInv

\* A handler that stops, and one that goes on after a caught error.
LEMMA FaultSerial ==
    ASSUME TypeOK, TypeOK', NEW t, Thread = {t}, SerialInv,
           Throw(t) \/ Fail(t) \/ Restart
    PROVE  SerialInv'
<1>0. t \in Thread /\ PlanInv
  BY DEF SerialInv
<1>1. UNCHANGED <<flow, status, failed, params, task, done>>
  BY DEF Throw, Fail, Restart, docVars, history
<1>2. flow = "cancelled" \/ flow # "cancelled"
  OBVIOUS
<1>3. CASE Throw(t)
  <2>1. agenda'[t] = <<>> /\ faults' = faults /\ Turn(t, "throw")
    BY <1>0, <1>3 DEF Throw, TypeOK
  <2>2. ASSUME faults' = 0, MirrorInv
        PROVE  Mirror'
    <3>1. Mirror
      BY <1>0, <2>1, <2>2, MirrorBefore DEF LagOp, HalfDone
    <3> QED
      BY <1>1, <3>1 DEF Mirror, TasksClosed, Reflected, Reflects
  <2> QED
    BY <1>1, <1>2, <2>1, <2>2, AsideOver
<1>4. CASE Fail(t) \/ Restart
  <2>1. faults' # 0
    BY <1>4 DEF Fail, Restart, TypeOK
  <2>2. CASE agenda'[t] = <<>>
    BY <1>1, <1>2, <2>1, <2>2, AsideOver
  <2>3. CASE agenda'[t] # <<>>
    <3>1. /\ ~Idle(t) /\ Head(agenda[t]).op \in {"createUserTasks", "updateUserTask"}
          /\ agenda' = [agenda EXCEPT ![t] = Tail(@)]
      BY <1>0, <1>4, <2>3 DEF Fail, Restart, TypeOK
    <3>2. Working(t)
      <4>1. Turn(t, Head(agenda[t]).op) /\ Head(agenda[t]).op \in EngineOp
        BY <3>1 DEF Turn, EngineOp
      <4> QED
        BY <1>0, <4>1, EngineTurn
    <3>3. Then(t, <<>>)
      <4>1. Tail(agenda[t]) \in Seq(Call)
        BY <1>0, <3>1, HeadTail DEF TypeOK, Idle
      <4>2. <<>> \o Tail(agenda[t]) = Tail(agenda[t])
        BY <4>1, ConcatEmptySeq
      <4> QED
        BY <3>1, <4>2 DEF Then
    <3>4. Writes(Head(agenda[t])) /\ Saves(Head(agenda[t])) /\ ~Holds(Head(agenda[t]))
      BY <1>1, <3>1 DEF Writes, Saves, Holds
    <3>5. PICK new : Step(t, new)
      BY <1>0, <3>3, <3>4, NothingSteps
    <3>6. MirrorInv'
      BY <2>1 DEF MirrorInv
    <3> QED
      BY <3>1, <3>2, <3>5, <3>6, StepSerial DEF SerialInv
  <2> QED
    BY <2>2, <2>3
<1> QED
  BY <1>3, <1>4

LEMMA InitSerial ==
    ASSUME NEW t, Thread = {t}, Init
    PROVE  SerialInv
<1> DEFINE d == Do("startFlow", Start)
<1>0. t \in Thread /\ \A u \in Thread : u = t
  OBVIOUS
<1>1. /\ agenda[t] = <<d>> /\ d.op = "startFlow" /\ d.at = Start
      /\ flow = "active" /\ done = {}
      /\ status = [s \in Stage |-> IF s = Start THEN "active" ELSE "waiting"]
      /\ task = [s \in Stage |-> "none"]
  <2>1. d.op = "startFlow" /\ d.at = Start
    BY DEF Do
  <2>2. agenda[t] = <<d>>
    <3>1. PICK u \in Thread : agenda = [w \in Thread |-> IF w = u THEN <<d>> ELSE <<>>]
      BY DEF Init
    <3>2. u = t
      BY <1>0
    <3> HIDE DEF d
    <3> QED
      BY <1>0, <3>1, <3>2
  <2> QED
    BY <2>1, <2>2 DEF Init
<1> HIDE DEF d
<1>2. DOMAIN agenda[t] = {1} /\ agenda[t][1] = d /\ Head(agenda[t]) = d /\ Len(agenda[t]) = 1
  BY <1>1
<1>3. Working(t)
  <2>1. Fits(d, TRUE, TRUE)
    BY <1>1, StageAssumption DEF Fits, EngineOp
  <2>2. (1 = 1) = TRUE /\ (1 = Len(agenda[t])) = TRUE
    BY <1>2
  <2>3. \A i \in DOMAIN agenda[t] : Fits(agenda[t][i], i = 1, i = Len(agenda[t]))
    BY <1>2, <2>1, <2>2
  <2> QED
    BY <1>1, <2>3 DEF Working
<1>4. PlanInv /\ FieldsInv /\ JoinInv
  BY <1>0, <1>1, <1>2, <1>3 DEF PlanInv, FieldsInv, JoinInv
<1>5. EndInv
  <2>1. \A i, j \in DOMAIN agenda[t] : ~(i < j)
    BY <1>2
  <2>2. ~Turn(t, "makeFlowEnd")
    BY <1>1, <1>2 DEF Turn
  <2> QED
    BY <1>0, <1>1, <2>1, <2>2 DEF EndInv
<1>6. MirrorInv
  <2>1. Reflected("todo")
    BY <1>1, StageAssumption DEF Reflected, Reflects, UserStage, StagesOf
  <2>2. ~Idle(t) /\ ~Lags(d) /\ d.op \notin HalfDone
    BY <1>1 DEF Idle, Lags, LagOp, HalfDone
  <2>3. TaskInv(agenda[t])
    BY <1>1, <1>2, <2>1, <2>2 DEF TaskInv, Mirror, HalfDone
  <2> QED
    BY <1>0, <2>2, <2>3 DEF MirrorInv
<1> QED
  BY <1>4, <1>5, <1>6 DEF SerialInv

LEMMA NextSerial ==
    ASSUME TypeOK, TypeOK', ControlJustified, NEW t, Thread = {t}, SerialInv, [Next]_vars
    PROVE  SerialInv'
<1>0. t \in Thread /\ \A u \in Thread : u = t
  OBVIOUS
<1>1. CASE Handler(t)
  BY <1>1, RunSerial, FaultSerial, CheckSerial, HoldSerial, ResumeSerial, CancelSerial,
     SaveSerial DEF Handler, Runs
<1>2. CASE Request(t)
  BY <1>2, RequestSerial
<1>3. CASE Fail(t) \/ Restart
  BY <1>3, FaultSerial
<1>4. CASE \/ \E s \in UserStage : \E u \in User : ReassignTask(s, u)
           \/ UNCHANGED vars
  <2>1. UNCHANGED <<flow, status, failed, params, task, agenda, faults, done>>
    BY <1>4 DEF ReassignTask, vars, docVars, history
  <2>2. PlanInv /\ FieldsInv /\ JoinInv => PlanInv' /\ FieldsInv' /\ JoinInv'
    BY <2>1 DEF PlanInv, Idle, Working, Turn, Errand, Single, Pair, FieldsInv, JoinInv,
                JoinReady, Finished
  <2>3. EndInv => EndInv'
    BY <2>1 DEF EndInv, AnyActive, Held, Turn, Idle
  <2>4. MirrorInv => MirrorInv'
    BY <2>1 DEF MirrorInv, Idle, Mirror, TasksClosed, Reflected, Reflects, TaskInv, LagInv
  <2> QED
    BY <2>2, <2>3, <2>4 DEF SerialInv
<1> QED
  BY <1>0, <1>1, <1>2, <1>3, <1>4 DEF Next

-----------------------------------------------------------------------------
(* The theorems.  One handler at a time, any number of requests and faults.*)

\* The invariant: what a request still has to do fits what it has read and
\* written, for every process definition.
THEOREM SerialHolds ==
    ASSUME NEW t, Thread = {t}
    PROVE  Spec => []SerialInv
<1>1. Init => SerialInv
  BY InitSerial
<1>2. TypeOK /\ TypeOK' /\ ControlJustified /\ SerialInv /\ [Next]_vars => SerialInv'
  BY NextSerial
<1> QED
  BY <1>1, <1>2, TypeCorrect, ControlCorrect, PTL DEF Spec

\* No field that was submitted is lost, whatever fails and however the flow
\* forks, loops, holds and saves.
THEOREM SerialFieldsKept ==
    ASSUME NEW t, Thread = {t}
    PROVE  Spec => []FieldsKept
<1>1. SerialInv => FieldsKept
  BY DEF SerialInv, FieldsInv, FieldsKept
<1> QED
  BY <1>1, SerialHolds, PTL

\* What stands behind a join becomes active only while all its branches are
\* finished, in every round of a loop.
THEOREM SerialJoinCurrent ==
    ASSUME NEW t, Thread = {t}
    PROVE  Spec => JoinCurrent
<1> DEFINE Current ==
      \A g \in StagesOf({"parallel"}) : \A x \in Stage :
         status[x] # "active" /\ status'[x] = "active" /\ OnlyBehind(x, g)
         => \A s \in Sources(g) : Finished(s)
<1>1. TypeOK /\ SerialInv /\ [Next]_vars => [Current]_status
  <2> SUFFICES ASSUME TypeOK, SerialInv, [Next]_vars,
                      NEW g \in StagesOf({"parallel"}), NEW x \in Stage,
                      OnlyBehind(x, g), status[x] # "active", status'[x] = "active"
               PROVE  \A s \in Sources(g) : Finished(s)
    OBVIOUS
  <2>1. MakeStageActive(t) /\ Head(agenda[t]).at = x
    <3>0. t \in Thread /\ \A u \in Thread : u = t
      OBVIOUS
    <3>1. status' # status
      OBVIOUS
    <3>2. \/ StartFlow(t) \/ MakeStageActive(t) \/ MakeTaskComplete(t)
          \/ MakeFlowEnd(t) \/ MarkStageCompleted(t)
      BY <3>0, <3>1 DEF Next, vars, Handler, Request, GoToNextStage, OnStageActive, Throw,
           CreateUserTasks, AfterComplete, UpdateUserTask, IterateToEnd, CheckRequest,
           MakeFlowHold, MakeFlowResume, MakeFlowCancel, MoveFlow, MoveTasks, CancelFlow,
           SaveParams, ClaimWrite, CompleteTask, ClaimTask, UpdateInstances, CancelInstance,
           Begin, Fail, Restart, ReassignTask, docVars
    <3>3. ~StartFlow(t) /\ ~MakeTaskComplete(t)
      BY DEF StartFlow, MakeTaskComplete, TypeOK, Shown
    <3>4. ~MakeFlowEnd(t) /\ ~MarkStageCompleted(t)
      BY DEF MakeFlowEnd, MarkStageCompleted, TypeOK
    <3>5. MakeStageActive(t) => Head(agenda[t]).at = x
      BY DEF MakeStageActive, TypeOK
    <3> QED
      BY <3>2, <3>3, <3>4, <3>5
  <2>2. /\ t \in Thread /\ agenda[t] \in Seq(Call) /\ agenda[t] # <<>>
        /\ Head(agenda[t]).op = "makeStageActive"
    BY <2>1 DEF MakeStageActive, Turn, Idle, TypeOK
  <2>3. 1 \in DOMAIN agenda[t] /\ Head(agenda[t]) = agenda[t][1]
    BY <2>2, EmptySeq
  <2>4. JoinReady(g)
    BY <2>1, <2>2, <2>3 DEF SerialInv, JoinInv
  <2> QED
    BY <2>4 DEF JoinReady
<1> QED
  BY <1>1, SerialHolds, TypeCorrect, PTL DEF Spec, JoinCurrent

\* A flow that shows completed has nothing active, when no fork lets control
\* reach the end before a later branch has been activated.
THEOREM SerialEndsClean ==
    ASSUME NEW t, Thread = {t}, OrderedForks, ErrorsStop
    PROVE  Spec => []EndsClean
<1>1. SerialInv => EndsClean
  BY DEF SerialInv, EndInv, EndsClean
<1> QED
  BY <1>1, SerialHolds, PTL

\* Between requests the worklist mirrors the instance.
THEOREM SerialTaskMirror ==
    ASSUME NEW t, Thread = {t}, OrderedForks, ErrorsStop
    PROVE  Spec => []TaskMirror
<1>1. SerialInv => TaskMirror
  <2> SUFFICES ASSUME SerialInv, Undisturbed
               PROVE  TaskMirror
    BY DEF TaskMirror
  <2>1. Mirror
    BY DEF SerialInv, MirrorInv, Undisturbed, Quiet
  <2>2. CASE flow = "cancelled"
    BY <2>1, <2>2 DEF Mirror, TasksClosed, TaskMirror
  <2>3. CASE flow # "cancelled"
    <3> DEFINE open == IF flow = "on-hold" THEN "on-hold" ELSE "todo"
    <3>1. open \in {"todo", "on-hold"} /\ Reflected(open)
      BY <2>1, <2>3 DEF Mirror
    <3>2. ASSUME NEW s \in UserStage
          PROVE  /\ status[s] = "waiting"   <=> task[s] = "none"
                 /\ status[s] = "active"    <=> task[s] = open
                 /\ status[s] = "completed" <=> task[s] = "done"
                 /\ status[s] = "error"     <=> task[s] = "error"
      <4> HIDE DEF open
      <4> QED
        BY <3>1 DEF Reflected, Reflects
    <3> QED
      BY <2>3, <3>2 DEF TaskMirror
  <2> QED
    BY <2>2, <2>3
<1> QED
  BY <1>1, SerialHolds, PTL
=============================================================================
