----------------------- MODULE ControllerLanesProofs -----------------------
(***************************************************************************)
(* Theorems about the callers of one controller runtime, for any number of *)
(* callers, endpoints, sessions and lanes.                                 *)
(***************************************************************************)
EXTENDS ControllerLanes, FiniteSetTheorems, TLAPS

----------------------------------------------------------------------------
(* What a caller may have before it.                                       *)

\* What is left of a call's script: the operators' calls have one phase, the
\* facade's come in the order of its try blocks, and a drain is all releases.
Script(sc) ==
    \/ \E do \in Router \cup {"shutdown"} : sc = <<Do(do, Shared)>>
    \/ \E l \in Private :
          \/ sc = <<Do("r.open", l), Do("r.read", l), Do("r.close", l)>>
          \/ sc = <<Do("r.read", l), Do("r.close", l)>>
          \/ sc = <<Do("r.close", l)>>
          \/ sc = <<Do("open", l), Do("call", l), Do("close", l)>>
          \/ sc = <<Do("call", l), Do("close", l)>>
          \/ sc = <<Do("close", l)>>
          \/ sc = <<Do("open", l), Do("start", l)>>
          \/ sc = <<Do("start", l)>>
          \/ sc \in {<<Do("status", l)>>, <<Do("input", l)>>}
    \/ sc \in Seq([do : {"release"}, lane : Private])

Allowed(do) == IF do \in Router THEN 0..MaxFence ELSE 0..MaxGrant

\* What the place of a caller says about its other fields.
Shaped(s) ==
    /\ Script(s.script)
    /\ s.pc = "idle" <=> s.script = <<>>
    /\ s.raised => s.script = <<>>
    /\ s.pc = "wait" => s.at \in Link
    /\ s.pc = "lock" => Head(s.script).do \in Router
    /\ s.script # <<>> => s.fence \in Allowed(Head(s.script).do)
    /\ s.pc \in {"lock", "turn", "wait"} /\ Head(s.script).do \in Router => s.fence # 0
    /\ s.did => /\ s.script # <<>>
                /\ Head(s.script).do \in {"close", "r.close"}
                /\ Head(s.script).lane \in Private
                /\ Tail(s.script) = <<>>

\* Requests under way.
Request == [t : Task \cup {None}, op : {"open", "renew", "read", "close", "call"},
            s : Session, lane : Lane, grant : 0..MaxFence \cup 0..MaxGrant]

\* A caller whose open has made its entry.
Opening(s) == s.script # <<>> /\ Head(s.script).do = "r.open" /\ s.pc \in {"turn", "wait"}

\* The logical token a caller works with: its own new one, or one that an open
\* has returned.
Fenced(s, last, objects) ==
    s.script # <<>> /\ Head(s.script).do \in Router =>
        /\ s.fence <= last
        /\ IF Head(s.script).do = "r.open"
           THEN IF Opening(s) THEN ~objects[s.fence].given ELSE s.fence = 0
           ELSE s.fence # 0 => objects[s.fence].given

\* A lane object has no mirror before its open returns, and until then it is
\* known to that open only.
Objects ==
    /\ \A n \in Fence : object[n].given => n <= fences
    /\ \A n \in Fence : ~object[n].given => \A e \in Endpoint : object[n].mirrors[e] = NoMirror
    /\ \A t \in Task : Fenced(task[t], fences, object)
    /\ \A t, u \in Task : t # u /\ Opening(task[t]) /\ Opening(task[u]) =>
                              task[t].fence # task[u].fence

\* The lanes of a script are noted, but for the operators' own.
Marked(sc, lanesUsed) == \A i \in 1..Len(sc) : sc[i].lane \in lanesUsed \cup {Shared}

Inv ==
    /\ TypeOK
    /\ wire \subseteq Request
    /\ \A t \in Task : Shaped(task[t]) /\ Marked(task[t].script, used)
    /\ Objects
    /\ IsFiniteSet(used)

----------------------------------------------------------------------------
(* Scripts                                                                 *)

\* A script that begins with a phase: the phase, and what is left after it.
Continues(sc) ==
    /\ Tail(sc) # <<>> => /\ Head(sc).do \in Router <=> Head(Tail(sc)).do \in Router
                          /\ Head(sc).do \in {"r.open", "r.read", "open", "call", "release"}
                          /\ Head(Tail(sc)).do # "r.open"
    /\ Head(sc).do \in {"call", "r.read"} /\ Tail(sc) # <<>> =>
          /\ Head(Tail(sc)).do \in {"close", "r.close"}
          /\ Head(Tail(sc)).lane \in Private
          /\ Tail(Tail(sc)) = <<>>

\* Heads and tails of short sequences, and of a sequence over a set.
LEMMA Singles == \A x : Head(<<x>>) = x /\ Tail(<<x>>) = <<>> /\ <<x>> # <<>>
OBVIOUS

\* The same of a sequence of two.
LEMMA Pairs == \A x, y : Head(<<x, y>>) = x /\ Tail(<<x, y>>) = <<y>> /\ <<x, y>> # <<>>
OBVIOUS

\* The head and tail of a sequence over a set are of that set.
LEMMA HeadTail ==
    ASSUME NEW S, NEW sc \in Seq(S), sc # <<>>
    PROVE  Head(sc) \in S /\ Tail(sc) \in Seq(S)
<1>1. Len(sc) \in Nat \ {0}
  OBVIOUS
<1> QED
  BY <1>1

\* A sequence over a set is one over any larger set.
LEMMA Wider == ASSUME NEW S, NEW T, S \subseteq T PROVE Seq(S) \subseteq Seq(T)
<1> SUFFICES ASSUME NEW sc \in Seq(S) PROVE sc \in Seq(T)
  OBVIOUS
<1>1. Len(sc) \in Nat /\ sc \in [1..Len(sc) -> S]
  OBVIOUS
<1>2. sc \in [1..Len(sc) -> T]
  BY <1>1
<1> QED
  BY <1>1, <1>2

\* Every script is a sequence of phases, and so is what its first phase leaves.
LEMMA Scripts ==
    ASSUME NEW sc, Script(sc), sc # <<>>
    PROVE  /\ sc \in Seq(Phase) /\ Head(sc) \in Phase /\ Script(Tail(sc)) /\ Continues(sc)
           /\ Head(sc).do \in Gateway => Head(sc).lane \in Private
<1> DEFINE Release == [do : {"release"}, lane : Private]
<1>0. /\ \A l \in Lane, do \in Router \cup Gateway \cup {"shutdown"} :
            Do(do, l) \in Phase /\ Do(do, l).do = do /\ Do(do, l).lane = l
      /\ Shared \in Lane /\ Private \subseteq Lane /\ Release \subseteq Phase
  BY DEF Do, Phase, Lane, Gateway
<1>00. Script(<<>>)
  BY DEF Script
<1>1. CASE sc \in Seq(Release)
  <2> HIDE DEF Release
  <2>0. Head(sc) \in Release /\ Tail(sc) \in Seq(Release)
    BY <1>1, HeadTail
  <2>1. sc \in Seq(Phase)
    BY <1>0, <1>1, Wider
  <2>2. Tail(sc) # <<>> => Head(Tail(sc)) \in Release
    BY <2>0, HeadTail
  <2> USE DEF Release
  <2> QED
    BY <1>0, <2>0, <2>1, <2>2 DEF Script, Continues, Router, Gateway
<1>2. ASSUME NEW do \in Router \cup Gateway \cup {"shutdown"}, NEW l \in Lane, sc = <<Do(do, l)>>,
             do \in Gateway => l \in Private
      PROVE  /\ sc \in Seq(Phase) /\ Head(sc) \in Phase /\ Script(Tail(sc)) /\ Continues(sc)
             /\ Head(sc).do \in Gateway => Head(sc).lane \in Private
  <2>1. Do(do, l) \in Phase /\ Do(do, l).do = do /\ Do(do, l).lane = l
    BY <1>0
  <2>2. Head(sc) = Do(do, l) /\ Tail(sc) = <<>> /\ sc \in Seq(Phase)
    BY <1>2, <2>1
  <2> QED
    BY <1>00, <1>2, <2>1, <2>2 DEF Continues
<1>3. ASSUME NEW a \in {"r.read", "call", "open"}, NEW b \in {"r.close", "close", "start"},
             NEW l \in Private, sc = <<Do(a, l), Do(b, l)>>,
             (a = "r.read" /\ b = "r.close") \/ (a = "call" /\ b = "close") \/ (a = "open" /\ b = "start")
      PROVE  /\ sc \in Seq(Phase) /\ Head(sc) \in Phase /\ Script(Tail(sc)) /\ Continues(sc)
             /\ Head(sc).do \in Gateway => Head(sc).lane \in Private
  <2>1. /\ Do(a, l) \in Phase /\ Do(a, l).do = a /\ Do(a, l).lane = l
        /\ Do(b, l) \in Phase /\ Do(b, l).do = b /\ Do(b, l).lane = l
    BY <1>0 DEF Router, Gateway
  <2>2. Head(sc) = Do(a, l) /\ Tail(sc) = <<Do(b, l)>> /\ sc \in Seq(Phase)
    BY <1>3, <2>1
  <2>3. Head(Tail(sc)) = Do(b, l) /\ Tail(Tail(sc)) = <<>> /\ Tail(sc) # <<>>
    BY <2>2, Singles
  <2>4. Script(Tail(sc))
    BY <1>3, <2>2 DEF Script
  <2> QED
    BY <1>3, <2>1, <2>2, <2>3, <2>4 DEF Continues, Router
<1>4. ASSUME NEW a \in {"r.open", "open"}, NEW b \in {"r.read", "call"}, NEW c \in {"r.close", "close"},
             NEW l \in Private, sc = <<Do(a, l), Do(b, l), Do(c, l)>>,
             \/ a = "r.open" /\ b = "r.read" /\ c = "r.close"
             \/ a = "open" /\ b = "call" /\ c = "close"
      PROVE  /\ sc \in Seq(Phase) /\ Head(sc) \in Phase /\ Script(Tail(sc)) /\ Continues(sc)
             /\ Head(sc).do \in Gateway => Head(sc).lane \in Private
  <2>1. /\ Do(a, l) \in Phase /\ Do(a, l).do = a /\ Do(a, l).lane = l
        /\ Do(b, l) \in Phase /\ Do(b, l).do = b /\ Do(c, l) \in Phase
    BY <1>0 DEF Router, Gateway
  <2>2. Head(sc) = Do(a, l) /\ Tail(sc) = <<Do(b, l), Do(c, l)>> /\ sc \in Seq(Phase)
    BY <1>4, <2>1
  <2>3. Head(Tail(sc)) = Do(b, l) /\ Tail(Tail(sc)) = <<Do(c, l)>>
    BY <2>2, Pairs
  <2>4. Script(Tail(sc))
    BY <1>4, <2>2 DEF Script
  <2> QED
    BY <1>4, <2>1, <2>2, <2>3, <2>4 DEF Continues, Router
<1>5. ASSUME NEW do \in Router \cup {"shutdown"}, sc = <<Do(do, Shared)>>
      PROVE  /\ sc \in Seq(Phase) /\ Head(sc) \in Phase /\ Script(Tail(sc)) /\ Continues(sc)
             /\ Head(sc).do \in Gateway => Head(sc).lane \in Private
  <2>1. do \notin Gateway
    BY DEF Router, Gateway
  <2> QED
    BY <1>0, <1>2, <1>5, <2>1
<1>6. ASSUME NEW l \in Private,
             \/ sc = <<Do("r.close", l)>> \/ sc = <<Do("close", l)>> \/ sc = <<Do("start", l)>>
             \/ sc = <<Do("status", l)>> \/ sc = <<Do("input", l)>>
      PROVE  /\ sc \in Seq(Phase) /\ Head(sc) \in Phase /\ Script(Tail(sc)) /\ Continues(sc)
             /\ Head(sc).do \in Gateway => Head(sc).lane \in Private
  <2>1. {"r.close", "close", "start", "status", "input"} \subseteq Router \cup Gateway
    BY DEF Router, Gateway
  <2> QED
    BY <1>0, <1>2, <1>6, <2>1
<1> HIDE DEF Release
<1> QED
  BY <1>1, <1>3, <1>4, <1>5, <1>6 DEF Script, Release

\* What is left of a script has no lane that the script had not.
LEMMA MarkedRest ==
    ASSUME NEW sc, Script(sc), NEW U, NEW V, U \subseteq V, Marked(sc, U)
    PROVE  /\ Marked(sc, V) /\ Marked(<<>>, V)
           /\ sc # <<>> => /\ Head(sc).lane \in U \cup {Shared} /\ Marked(Tail(sc), V)
                           /\ Marked(<<[do |-> "close", lane |-> Head(sc).lane]>>, V)
<1>1. Marked(sc, V)
  BY DEF Marked
<1>2. Marked(<<>>, V)
  BY DEF Marked
<1>3. ASSUME sc # <<>> PROVE Head(sc).lane \in U \cup {Shared} /\ Marked(Tail(sc), V)
  <2>1. sc \in Seq(Phase) /\ Len(sc) \in Nat \ {0}
    BY <1>3, Scripts
  <2>2. Head(sc) = sc[1] /\ Len(Tail(sc)) = Len(sc) - 1
        /\ \A i \in 1..(Len(sc) - 1) : Tail(sc)[i] = sc[i + 1]
    BY <2>1
  <2>3. Head(sc).lane \in U \cup {Shared}
    BY <2>1, <2>2 DEF Marked
  <2>4. ASSUME NEW i \in 1..Len(Tail(sc)) PROVE Tail(sc)[i].lane \in V \cup {Shared}
    <3>1. i \in 1..(Len(sc) - 1) /\ i + 1 \in 1..Len(sc)
      BY <2>1, <2>2
    <3> QED
      BY <1>1, <2>2, <3>1 DEF Marked
  <2> QED
    BY <2>3, <2>4 DEF Marked
<1>4. ASSUME NEW l \in V \cup {Shared} PROVE Marked(<<[do |-> "close", lane |-> l]>>, V)
  BY DEF Marked
<1> QED
  BY <1>1, <1>2, <1>3, <1>4

----------------------------------------------------------------------------
(* Callers                                                                 *)

Caller == State(0..MaxFence \cup 0..MaxGrant)

\* A caller at rest.
LEMMA IdleShaped ==
    /\ Idle \in Caller /\ Shaped(Idle) /\ Idle.script = <<>> /\ Idle.pc = "idle" /\ ~Idle.raised /\ ~Idle.did
    /\ Idle.at = None /\ Idle.got = 0
<1>1. <<>> \in Seq(Phase) /\ Script(<<>>)
  BY DEF Script
<1>2. 0 \in 0..MaxFence /\ 0 \in 0..MaxGrant
  BY FenceAssumption, BoundAssumption
<1> QED
  BY <1>1, <1>2 DEF Idle, Caller, State, Pc, Shaped

\* A caller that begins a script.
LEMMA BeginShaped ==
    ASSUME NEW sc, Script(sc), sc # <<>>, NEW f \in Allowed(Head(sc).do), NEW d \in BOOLEAN,
           d => /\ Head(sc).do \in {"close", "r.close"} /\ Head(sc).lane \in Private /\ Tail(sc) = <<>>,
           NEW s, s = [Idle EXCEPT !.script = sc, !.pc = "begin", !.fence = f, !.did = d]
    PROVE  s \in Caller /\ Shaped(s) /\ ~s.raised
<1>1. sc \in Seq(Phase)
  BY Scripts
<1>2. f \in 0..MaxFence \cup 0..MaxGrant
  BY DEF Allowed
<1>3. s \in Caller
  BY <1>1, <1>2, IdleShaped DEF Caller, State, Pc
<1>4. s.script = sc /\ s.pc = "begin" /\ s.fence = f /\ s.did = d /\ s.raised = FALSE
  BY IdleShaped DEF Idle
<1> QED
  BY <1>3, <1>4 DEF Shaped

\* The phase of a caller ends: the caller goes on with its script or is told;
\* and a caller whose operation has succeeded is not told otherwise.
LEMMA AfterShaped ==
    ASSUME NEW t \in Task, task[t] \in Caller, Shaped(task[t]), task[t].pc # "idle",
           NEW ok \in BOOLEAN, NEW f \in Allowed(Doing(t))
    PROVE  /\ After(t, ok, f) \in Caller /\ Shaped(After(t, ok, f))
           /\ task[t].did => ~After(t, ok, f).raised
<1> DEFINE sc == task[t].script
           rest == Rest(t, ok)
<1>1. /\ Script(sc) /\ sc # <<>> /\ Head(sc) \in Phase /\ Script(Tail(sc)) /\ Continues(sc)
      /\ Head(sc).do \in Gateway => Head(sc).lane \in Private
  BY Scripts DEF Shaped
<1>2. Script(rest)
  <2>1. Script(<<>>)
    BY DEF Script
  <2>2. Doing(t) = "start" => Script(<<[do |-> "close", lane |-> LaneOf(t)]>>)
    BY <1>1 DEF Script, Do, Doing, LaneOf, Gateway
  <2> QED
    BY <1>1, <2>1, <2>2 DEF Rest
<1>3. CASE rest = <<>>
  <2>1. After(t, ok, f) = [Idle EXCEPT !.raised = Outcome(t, ok) = "error"]
    BY <1>3 DEF After
  <2>2. (Outcome(t, ok) = "error") \in BOOLEAN
    OBVIOUS
  <2>3. After(t, ok, f) \in Caller /\ Shaped(After(t, ok, f))
    BY <2>1, <2>2, IdleShaped DEF Caller, State, Shaped
  <2>4. ASSUME task[t].did PROVE Outcome(t, ok) # "error"
    <3>1. Doing(t) \in {"close", "r.close"} /\ LaneOf(t) # Shared
      BY <2>4, LaneAssumption DEF Shaped, Doing, LaneOf
    <3> QED
      BY <2>4, <3>1 DEF Outcome, Reported
  <2> QED
    BY <2>1, <2>3, <2>4, IdleShaped DEF Caller, State
<1>4. CASE rest # <<>>
  <2> DEFINE d == ok /\ Doing(t) \in {"call", "r.read"}
  <2>1. After(t, ok, f) = [Idle EXCEPT !.script = rest, !.pc = "begin", !.fence = f, !.did = d]
    BY <1>4 DEF After
  <2>2. f \in Allowed(Head(rest).do)
    <3>1. CASE Doing(t) = "start"
      <4>1. Head(rest).do = "close"
        BY <1>4, <3>1, Singles DEF Rest
      <4> QED
        BY <3>1, <4>1 DEF Allowed, Router
    <3>2. CASE Doing(t) # "start"
      <4>1. rest = Tail(sc)
        BY <1>4, <3>2 DEF Rest
      <4> QED
        BY <1>1, <1>4, <4>1 DEF Continues, Allowed, Doing
    <3> QED
      BY <3>1, <3>2
  <2>3. d => /\ Head(rest).do \in {"close", "r.close"} /\ Head(rest).lane \in Private
             /\ Tail(rest) = <<>>
    <3> SUFFICES ASSUME d PROVE /\ Head(rest).do \in {"close", "r.close"}
                                /\ Head(rest).lane \in Private /\ Tail(rest) = <<>>
      OBVIOUS
    <3>1. rest = Tail(sc)
      BY DEF Rest
    <3> QED
      BY <1>1, <1>4, <3>1 DEF Continues, Doing
  <2>4. d \in BOOLEAN
    OBVIOUS
  <2> HIDE DEF d, rest
  <2> QED
    BY <1>2, <1>4, <2>1, <2>2, <2>3, <2>4, BeginShaped
<1> QED
  BY <1>3, <1>4

\* What a step leaves of its callers.
Kept(u) ==
    /\ task'[u] \in Caller /\ Shaped(task'[u])
    /\ task[u].did => ~task'[u].raised

CallersKeep ==
    /\ task' \in [Task -> Caller] /\ Objects'
    /\ \A u \in Task : Kept(u) /\ Marked(task'[u].script, used')

\* What most steps leave of the router: no open returns, and no mirror is made
\* for an object whose open has not.
RouterKept ==
    /\ fences <= fences' /\ used \subseteq used'
    /\ \A n \in Fence :
          /\ object'[n].given = object[n].given
          /\ ~object[n].given =>
                \A e \in Endpoint : object[n].mirrors[e] = NoMirror => object'[n].mirrors[e] = NoMirror

\* What the invariant says of the callers and their tokens.
LEMMA Callers ==
    ASSUME Inv
    PROVE  /\ task \in [Task -> Caller] /\ \A u \in Task : Shaped(task[u]) /\ Marked(task[u].script, used)
           /\ Objects /\ fences \in Nat /\ fences <= MaxFence
<1>1. /\ task \in [Task -> Caller] /\ Objects
      /\ \A u \in Task : Shaped(task[u]) /\ Marked(task[u].script, used)
  BY DEF Inv, TypeOK, Caller
<1>2. fences \in 0..MaxFence
  BY DEF Inv, TypeOK
<1> QED
  BY <1>1, <1>2, FenceAssumption

\* Such a step leaves the tokens of the callers what they are.
LEMMA StillFenced ==
    ASSUME Inv, NEW u \in Task, RouterKept, fences' \in Nat
    PROVE  /\ Fenced(task[u], fences', object')
           /\ Opening(task[u]) => task[u].fence \in Fence /\ task[u].fence <= fences
<1>1. task[u] \in Caller /\ Shaped(task[u]) /\ Fenced(task[u], fences, object) /\ fences \in Nat
  BY Callers DEF Objects
<1>2. task[u].script # <<>> /\ Head(task[u].script).do \in Router =>
          task[u].fence \in 0..MaxFence /\ (task[u].fence # 0 => task[u].fence \in Fence)
  BY <1>1, FenceAssumption DEF Shaped, Allowed, Fence
<1>3. Opening(task[u]) => task[u].fence \in Fence
  BY <1>1, <1>2 DEF Shaped, Opening, Router
<1>4. task[u].script # <<>> /\ Head(task[u].script).do \in Router => task[u].fence <= fences'
  <2>1. task[u].script # <<>> /\ Head(task[u].script).do \in Router => task[u].fence <= fences
    BY <1>1 DEF Fenced
  <2> QED
    BY <1>1, <1>2, <2>1 DEF RouterKept
<1>5. Fenced(task[u], fences', object')
  BY <1>1, <1>2, <1>3, <1>4 DEF Fenced, RouterKept
<1>6. Opening(task[u]) => task[u].fence <= fences
  BY <1>1 DEF Fenced, Opening, Router
<1> QED
  BY <1>3, <1>5, <1>6

\* And the lanes of their scripts noted.
LEMMA StillMarked ==
    ASSUME Inv, NEW u \in Task, RouterKept
    PROVE  /\ Marked(task[u].script, used') /\ Marked(<<>>, used')
           /\ task[u].pc # "idle" =>
                 /\ Marked(Tail(task[u].script), used')
                 /\ Marked(<<[do |-> "close", lane |-> LaneOf(u)]>>, used')
<1>1. /\ Script(task[u].script) /\ Marked(task[u].script, used)
      /\ task[u].pc # "idle" => task[u].script # <<>>
  BY Callers DEF Shaped
<1>2. used \subseteq used'
  BY DEF RouterKept
<1> QED
  BY <1>1, <1>2, MarkedRest DEF LaneOf

\* A step of one caller.
LEMMA OneCaller ==
    ASSUME Inv, NEW t \in Task, NEW s \in Caller, Shaped(s), task[t].did => ~s.raised,
           task' = [task EXCEPT ![t] = s], RouterKept, fences' \in Nat,
           Fenced(s, fences', object'), Marked(s.script, used'),
           Opening(s) => \/ Opening(task[t]) /\ s.fence = task[t].fence
                         \/ s.fence > fences
    PROVE  CallersKeep
<1>1. /\ task \in [Task -> Caller] /\ \A u \in Task : Shaped(task[u])
      /\ Objects /\ fences \in Nat
  BY Callers
<1>2. \A u \in Task : task[u].did => ~task[u].raised
  BY <1>1 DEF Shaped
<1>3. task' \in [Task -> Caller] /\ \A u \in Task : Kept(u)
  BY <1>1, <1>2 DEF Kept
<1>4. task'[t] = s /\ \A u \in Task \ {t} : task'[u] = task[u]
  BY <1>1
<1>41. \A u \in Task : Marked(task'[u].script, used')
  BY <1>4, StillMarked
<1>5. \A u \in Task : Fenced(task'[u], fences', object')
  BY <1>4, StillFenced
<1>6. /\ \A n \in Fence : object'[n].given => n <= fences'
      /\ \A n \in Fence : ~object'[n].given => \A e \in Endpoint : object'[n].mirrors[e] = NoMirror
  BY <1>1, FenceAssumption DEF Objects, RouterKept, Fence
<1>7. ASSUME NEW u \in Task, NEW v \in Task, u # v, Opening(task'[u]), Opening(task'[v])
      PROVE  task'[u].fence # task'[v].fence
  <2>1. ASSUME NEW w \in Task \ {t}, Opening(task[w]), Opening(s) PROVE task[w].fence # s.fence
    <3>1. task[w].fence \in Fence /\ task[w].fence <= fences
      BY <2>1, StillFenced
    <3>2. CASE s.fence > fences
      BY <1>1, <3>1, <3>2, FenceAssumption DEF Fence
    <3>3. CASE Opening(task[t]) /\ s.fence = task[t].fence
      BY <1>1, <2>1, <3>3 DEF Objects
    <3> QED
      BY <2>1, <3>2, <3>3
  <2> QED
    BY <1>1, <1>4, <1>7, <2>1 DEF Objects
<1>8. Objects'
  BY <1>5, <1>6, <1>7 DEF Objects
<1> QED
  BY <1>3, <1>41, <1>8 DEF CallersKeep

\* A step that leaves the callers alone.
LEMMA NoCaller ==
    ASSUME Inv, task' = task, RouterKept, fences' \in Nat
    PROVE  CallersKeep
<1>1. /\ task \in [Task -> Caller] /\ \A u \in Task : Shaped(task[u])
      /\ Objects /\ fences \in Nat
  BY Callers
<1>2. \A u \in Task : task[u].did => ~task[u].raised
  BY <1>1 DEF Shaped
<1>3. CASE Task = {}
  BY <1>1, <1>3, FenceAssumption DEF CallersKeep, Objects, RouterKept, Fence
<1>4. ASSUME NEW t \in Task PROVE CallersKeep
  <2>1. task' = [task EXCEPT ![t] = task[t]] /\ task[t] \in Caller /\ Shaped(task[t])
    BY <1>1
  <2>2. Fenced(task[t], fences', object')
    BY StillFenced
  <2> QED
    BY <1>2, <2>1, <2>2, StillMarked, OneCaller
<1> QED
  BY <1>3, <1>4

\* A caller that goes on with its phase.
LEMMA SamePhase ==
    ASSUME NEW s \in Caller, Shaped(s), s.pc # "idle", NEW x \in Caller, x.pc # "idle",
           x.script = s.script, x.did = s.did, x.raised = s.raised,
           x.fence \in Allowed(Head(s.script).do), x.pc = "wait" => x.at \in Link,
           x.pc = "lock" => Head(s.script).do \in Router,
           x.pc \in {"lock", "turn", "wait"} /\ Head(s.script).do \in Router => x.fence # 0
    PROVE  Shaped(x) /\ (s.did => ~x.raised)
BY DEF Shaped

\* What the invariant says of one caller that is under way.
LEMMA UnderWay ==
    ASSUME Inv, NEW t \in Task, task[t].pc # "idle"
    PROVE  /\ task[t] \in Caller /\ Shaped(task[t]) /\ task[t].script # <<>>
           /\ LaneOf(t) \in Lane /\ task[t].fence \in Allowed(Doing(t))
           /\ Doing(t) \in Router \cup Gateway \cup {"shutdown"}
           /\ Doing(t) \in Gateway => LaneOf(t) \in Private
           /\ task[t].fence \in 0..MaxFence \cup 0..MaxGrant
           /\ task[t].pc \in {"lock", "turn", "wait"} /\ Doing(t) \in Router => task[t].fence \in Fence
           /\ task[t].pc = "wait" => task[t].at \in Link
           /\ task[t].pc = "lock" => Doing(t) \in Router
<1>1. task[t] \in Caller /\ Shaped(task[t])
  BY DEF Inv, TypeOK, Caller
<1>2. Script(task[t].script) /\ task[t].script # <<>> /\ task[t].fence \in Allowed(Doing(t))
  BY <1>1 DEF Shaped, Doing
<1>3. Head(task[t].script) \in Phase /\ (Doing(t) \in Gateway => LaneOf(t) \in Private)
  BY <1>2, Scripts DEF Doing, LaneOf
<1>4. LaneOf(t) \in Lane /\ Doing(t) \in Router \cup Gateway \cup {"shutdown"}
  BY <1>3 DEF Phase, Doing, LaneOf
<1>5. task[t].pc \in {"lock", "turn", "wait"} /\ Doing(t) \in Router => task[t].fence \in Fence
  BY <1>1, <1>2, FenceAssumption DEF Shaped, Doing, Allowed, Fence
<1>6. /\ task[t].pc = "wait" => task[t].at \in Link
      /\ task[t].pc = "lock" => Doing(t) \in Router
  BY <1>1 DEF Shaped, Doing
<1> QED
  BY <1>1, <1>2, <1>3, <1>4, <1>5, <1>6 DEF Allowed

\* A caller that comes to rest.
LEMMA ComesToRest ==
    ASSUME Inv, NEW t \in Task, NEW b \in BOOLEAN, task[t].did => ~b,
           task' = [task EXCEPT ![t] = [Idle EXCEPT !.raised = b]], RouterKept, fences' \in Nat
    PROVE  CallersKeep
<1> DEFINE x == [Idle EXCEPT !.raised = b]
<1>1. x \in Caller /\ x.script = <<>> /\ x.raised = b /\ Shaped(x)
  BY IdleShaped DEF Caller, State, Shaped
<1>2. Fenced(x, fences', object') /\ ~Opening(x)
  BY <1>1 DEF Fenced, Opening
<1>3. Marked(x.script, used')
  BY <1>1, StillMarked
<1> HIDE DEF x
<1> QED
  BY <1>1, <1>2, <1>3, OneCaller DEF x

\* The end of a phase.
LEMMA EndOfPhase ==
    ASSUME Inv, NEW t \in Task, task[t].pc # "idle", NEW ok \in BOOLEAN,
           NEW f \in Allowed(Doing(t)), task' = [task EXCEPT ![t] = After(t, ok, f)],
           RouterKept, fences' \in Nat,
           f = task[t].fence \/ Doing(t) \notin Router \/ (f = 0 /\ ~ok),
           Doing(t) = "r.open" => ~ok
    PROVE  CallersKeep
<1> DEFINE x == After(t, ok, f)
<1>1. task[t] \in Caller /\ Shaped(task[t]) /\ task[t].script # <<>>
  BY UnderWay
<1>2. x \in Caller /\ Shaped(x) /\ (task[t].did => ~x.raised)
  BY <1>1, AfterShaped
<1>3. Fenced(x, fences', object') /\ ~Opening(x) /\ Marked(x.script, used')
  <2>1. CASE Rest(t, ok) = <<>>
    <3>1. x.script = <<>>
      BY <2>1, IdleShaped DEF After, Caller, State
    <3> QED
      BY <3>1, StillMarked DEF Fenced, Opening
  <2>2. CASE Rest(t, ok) # <<>>
    <3>1. x.script = Rest(t, ok) /\ x.pc = "begin" /\ x.fence = f
      BY <2>2, IdleShaped DEF After, Caller, State
    <3>2. CASE Doing(t) = "start"
      <4>1. x.script = <<[do |-> "close", lane |-> LaneOf(t)]>>
        BY <2>2, <3>1, <3>2 DEF Rest
      <4>2. Head(x.script).do = "close"
        BY <4>1, Singles
      <4> QED
        BY <3>1, <4>1, <4>2, StillMarked DEF Fenced, Opening, Router
    <3>3. CASE Doing(t) # "start"
      <4>1. x.script = Tail(task[t].script) /\ Doing(t) # "r.open"
        BY <2>2, <3>1, <3>3 DEF Rest
      <4>2. Continues(task[t].script)
        BY <1>1, Scripts DEF Shaped
      <4>3. Head(x.script).do \in Router => Doing(t) \in Router /\ Head(x.script).do # "r.open"
        BY <2>2, <3>1, <4>1, <4>2 DEF Continues, Doing
      <4>4. Fenced(task[t], fences', object') /\ fences' \in Nat
        BY StillFenced
      <4>5. Doing(t) \in Router /\ f = task[t].fence =>
                f <= fences' /\ (f # 0 => object'[f].given)
        BY <1>1, <4>1, <4>4 DEF Fenced, Doing
      <4>6. f = 0 => f <= fences'
        OBVIOUS
      <4> HIDE DEF x
      <4> QED
        BY <3>1, <4>1, <4>3, <4>5, <4>6, StillMarked DEF Fenced, Opening
    <3> QED
      BY <3>2, <3>3
  <2> QED
    BY <2>1, <2>2
<1> HIDE DEF x
<1> QED
  BY <1>2, <1>3, OneCaller DEF x

\* A caller that moves within its phase.
LEMMA MovesOn ==
    ASSUME Inv, NEW t \in Task, task[t].pc # "idle", NEW x \in Caller, x.pc # "idle",
           x.script = task[t].script, x.did = task[t].did, x.raised = task[t].raised,
           x.fence = task[t].fence, x.pc = "wait" => x.at \in Link,
           x.pc = "lock" => Doing(t) \in Router,
           x.pc \in {"lock", "turn", "wait"} /\ Doing(t) \in Router => x.fence # 0,
           Doing(t) = "r.open" => (x.pc \in {"turn", "wait"} <=> task[t].pc \in {"turn", "wait"}),
           task' = [task EXCEPT ![t] = x], RouterKept, fences' \in Nat
    PROVE  CallersKeep
<1>1. task[t] \in Caller /\ Shaped(task[t]) /\ task[t].fence \in Allowed(Head(task[t].script).do)
  BY UnderWay DEF Doing
<1>2. Shaped(x) /\ (task[t].did => ~x.raised)
  BY <1>1, SamePhase DEF Doing
<1>3. Fenced(task[t], fences', object')
  BY StillFenced
<1>4. Opening(x) <=> Opening(task[t])
  BY DEF Opening, Doing
<1>5. Fenced(x, fences', object')
  BY <1>3, <1>4 DEF Fenced
<1> QED
  BY <1>2, <1>4, <1>5, StillMarked, OneCaller

----------------------------------------------------------------------------
(* Sessions and requests                                                   *)

Held == [lane : Lane, s : Session, grant : Grant]

\* Lanes that are excused are lanes the agent holds.
LEMMA ExcusesTyped ==
    ASSUME NEW grants, Excuses(grants), held' \subseteq Held
    PROVE  excused' \subseteq Grant
BY DEF Excuses, Held

\* refresh_paths: each new session has a number of its own, so that as many
\* are made as there are numbers.
LEMMA RefreshTyped ==
    ASSUME Inv, NEW now \in [Endpoint -> 0..MaxSession], Refresh(now)
    PROVE  /\ live' \in [Endpoint -> 0..MaxSession] /\ pool' \in [Endpoint -> 0..MaxSession]
           /\ made' \in 0..MaxSession /\ UNCHANGED <<held, wire, granted>>
<1> DEFINE New == Connected(now)
           f == [e \in New |-> now[e]]
           Numbers == (made + 1)..MaxSession
<1>1. /\ live \in [Endpoint -> 0..MaxSession] /\ pool \in [Endpoint -> 0..MaxSession]
      /\ made \in Nat /\ made <= MaxSession /\ MaxSession \in Nat
  BY BoundAssumption DEF Inv, TypeOK
<1>2. /\ live' = now /\ made' = made + Cardinality(New)
      /\ \A d, e \in New : d # e => now[d] # now[e]
      /\ pool' = [e \in Endpoint |-> IF now[e] = 0 /\ live[e] = 0 THEN pool[e] ELSE now[e]]
      /\ UNCHANGED <<held, wire, granted>>
  BY DEF Refresh
<1>3. IsFiniteSet(New) /\ Cardinality(New) \in Nat
  <2>1. New \in SUBSET Endpoint
    BY DEF Connected
  <2>2. IsFiniteSet(New)
    BY <2>1, EndpointAssumption, FS_Subset
  <2> QED
    BY <2>2, FS_CardinalityType
<1>4. f \in Injection(New, Numbers)
  <2>1. \A e \in New : now[e] \in Numbers
    BY <1>1 DEF Connected
  <2>2. f \in [New -> Numbers]
    BY <2>1
  <2>3. \A d, e \in New : f[d] = f[e] => d = e
    BY <1>2
  <2> QED
    BY <2>2, <2>3 DEF Injection, IsInjective
<1>5. IsFiniteSet(Numbers) /\ Cardinality(Numbers) = IF made + 1 > MaxSession THEN 0 ELSE MaxSession - made
  <2>1. made + 1 \in Int /\ MaxSession \in Int /\ MaxSession - (made + 1) + 1 = MaxSession - made
    BY <1>1
  <2> QED
    BY <2>1, FS_Interval
<1>6. Cardinality(New) <= Cardinality(Numbers)
  BY <1>4, <1>5, FS_Injection
<1>7. made' \in 0..MaxSession
  BY <1>1, <1>2, <1>3, <1>5, <1>6
<1>8. pool' \in [Endpoint -> 0..MaxSession]
  BY <1>1, <1>2
<1> QED
  BY <1>2, <1>7, <1>8

\* The endpoints a caller may try are links.
LEMMA LinksTyped ==
    ASSUME Inv
    PROVE  /\ \A S \in Current : S \subseteq Link
           /\ \A S \in SUBSET {<<e, pool[e]>> : e \in Endpoint} :
                 (\A l \in S : l[2] # 0) => S \subseteq Link
<1>1. \A e \in Endpoint : live[e] \in 0..MaxSession /\ pool[e] \in 0..MaxSession
  BY DEF Inv, TypeOK
<1>2. \A n \in 0..MaxSession : n # 0 => n \in Session
  BY BoundAssumption DEF Session
<1>3. ASSUME NEW S \in Current PROVE S \subseteq Link
  BY <1>1, <1>2, <1>3 DEF Current, Link
<1>4. ASSUME NEW S \in SUBSET {<<e, pool[e]>> : e \in Endpoint}, \A l \in S : l[2] # 0
      PROVE  S \subseteq Link
  BY <1>1, <1>2, <1>4 DEF Link
<1> QED
  BY <1>3, <1>4

\* A request is sent, on a session that is open.
LEMMA SentTyped ==
    ASSUME Inv, NEW t \in Task, task[t].pc # "idle", NEW link \in Link,
           NEW op \in {"open", "renew", "read", "close", "call"},
           NEW g \in 0..MaxFence \cup 0..MaxGrant, Doing(t) \in Router => task[t].fence # 0
    PROVE  /\ Sent(t, op, link, g) \subseteq Request
           /\ Asks(t, op, link) \in Caller
           /\ Shaped(Asks(t, op, link)) /\ (task[t].did => ~Asks(t, op, link).raised)
           /\ Asks(t, op, link).script = task[t].script /\ Asks(t, op, link).fence = task[t].fence
           /\ Asks(t, op, link).pc = "wait" /\ Asks(t, op, link).at = link
           /\ Asks(t, op, link).did = task[t].did /\ Asks(t, op, link).raised = task[t].raised
<1> DEFINE x == Asks(t, op, link)
<1>1. /\ task[t] \in Caller /\ Shaped(task[t]) /\ LaneOf(t) \in Lane
      /\ task[t].fence \in Allowed(Head(task[t].script).do)
  BY UnderWay DEF Doing
<1>2. link[2] \in Session /\ wire \subseteq Request
  BY DEF Inv, Link
<1>3. Message(t, op, link[2], g) \in Request
  BY <1>1, <1>2 DEF Message, Request
<1>4. x \in Caller
  <2>1. 0 \in 0..MaxGrant
    BY BoundAssumption
  <2> QED
    BY <1>1, <2>1 DEF Asks, Caller, State, Pc
<1>5. /\ x.pc = "wait" /\ x.at = link /\ x.script = task[t].script /\ x.did = task[t].did
      /\ x.raised = task[t].raised /\ x.fence = task[t].fence
  BY <1>1 DEF Asks, Caller, State
<1> HIDE DEF x
<1>6. Shaped(x) /\ (task[t].did => ~x.raised)
  BY <1>1, <1>4, <1>5, SamePhase DEF Doing
<1> QED
  BY <1>2, <1>3, <1>4, <1>5, <1>6 DEF Sent, x

\* And its caller waits for the answer.
LEMMA SendKeeps ==
    ASSUME Inv, NEW t \in Task, task[t].pc # "idle", NEW link \in Link,
           NEW op \in {"open", "renew", "read", "close", "call"},
           NEW g \in 0..MaxFence \cup 0..MaxGrant, Doing(t) \in Router => task[t].fence # 0,
           Doing(t) = "r.open" => task[t].pc \in {"turn", "wait"},
           Send(t, op, link, g), RouterKept, fences' \in Nat
    PROVE  wire' \subseteq Request /\ CallersKeep
<1> DEFINE x == Asks(t, op, link)
<1>1. /\ Sent(t, op, link, g) \subseteq Request /\ x \in Caller /\ x.pc = "wait" /\ x.at \in Link
      /\ x.script = task[t].script /\ x.fence = task[t].fence
      /\ x.did = task[t].did /\ x.raised = task[t].raised
  BY SentTyped
<1>2. wire' = Sent(t, op, link, g) /\ task' = [task EXCEPT ![t] = x]
  BY DEF Send
<1> HIDE DEF x
<1>3. CallersKeep
  BY <1>1, <1>2, MovesOn
<1> QED
  BY <1>1, <1>2, <1>3

\* A caller that gives up leaves requests behind.
LEMMA LeavesTyped == ASSUME Inv, NEW t \in Task PROVE Leaves(t) \subseteq Request
<1>1. wire \subseteq Request
  BY DEF Inv
<1>2. \A m \in Request : [m EXCEPT !.t = None] \in Request
  BY DEF Request
<1> QED
  BY <1>1, <1>2 DEF Leaves

----------------------------------------------------------------------------
(* The steps                                                               *)

\* The invariant, and what SuccessStands asks of a step.
Keeps == Inv' /\ \A u \in Task : Kept(u)

\* The parts of the invariant.
LineOK ==
    /\ live \in [Endpoint -> 0..MaxSession] /\ pool \in [Endpoint -> 0..MaxSession]
    /\ made \in 0..MaxSession
    /\ held \subseteq Held /\ granted \in 0..MaxGrant /\ excused \subseteq Grant

RouterOK ==
    /\ lanes \in [Lane -> 0..MaxFence] /\ fences \in 0..MaxFence
    /\ object \in [Fence -> Object]

FacadeOK ==
    /\ calls \in 0..MaxCalls /\ used \subseteq Private /\ handles \subseteq used
    /\ lease \in [Private -> 0..MaxGrant] /\ IsFiniteSet(used)

\* The invariant has these parts.
LEMMA Parts ==
    Inv => /\ LineOK /\ RouterOK /\ FacadeOK /\ wire \subseteq Request /\ Objects
           /\ task \in [Task -> Caller] /\ \A t \in Task : Shaped(task[t]) /\ Marked(task[t].script, used)
BY DEF Inv, TypeOK, LineOK, RouterOK, FacadeOK, Held, Caller

\* And a step that keeps them keeps it.
LEMMA Together ==
    ASSUME LineOK', RouterOK', FacadeOK', wire' \subseteq Request, CallersKeep
    PROVE  Keeps
BY DEF Keeps, CallersKeep, Inv, TypeOK, LineOK, RouterOK, FacadeOK, Held, Caller, Kept

\* What an unchanged part needs.
LEMMA Unchanged ==
    ASSUME Inv
    PROVE  /\ UNCHANGED <<edge, agent, excused>> => LineOK'
           /\ \A G : UNCHANGED <<edge, agent>> /\ Excuses(G) => LineOK'
           /\ UNCHANGED routerVars => RouterOK'
           /\ UNCHANGED <<routerVars, used>> => RouterKept /\ fences' \in Nat
           /\ UNCHANGED facadeVars => FacadeOK' /\ UNCHANGED used
           /\ UNCHANGED wire => wire' \subseteq Request
<1>1. LineOK /\ RouterOK /\ FacadeOK /\ wire \subseteq Request
  BY Parts
<1>2. ASSUME NEW G, UNCHANGED <<edge, agent>>, Excuses(G) PROVE LineOK'
  <2>1. excused' \subseteq Grant
    BY <1>1, <1>2, ExcusesTyped DEF LineOK, agent
  <2> QED
    BY <1>1, <1>2, <2>1 DEF LineOK, edge, agent
<1>3. UNCHANGED <<edge, agent, excused>> => LineOK'
  BY <1>1 DEF LineOK, edge, agent
<1>4. UNCHANGED routerVars => RouterOK'
  BY <1>1 DEF RouterOK, routerVars
<1>5. UNCHANGED <<routerVars, used>> => RouterKept /\ fences' \in Nat
  BY <1>1 DEF RouterOK, routerVars, RouterKept
<1>6. UNCHANGED facadeVars => FacadeOK' /\ UNCHANGED used
  BY <1>1 DEF FacadeOK, facadeVars, leases
<1> QED
  BY <1>1, <1>2, <1>3, <1>4, <1>5, <1>6

\* ensure_started, its failure, and the end of the service.
LEMMA RuntimeKeeps ==
    ASSUME Inv, NEW t \in Task, RuntimeStep(t)
    PROVE  Keeps
<1>0. /\ task[t].pc = "begin" /\ LineOK /\ wire \subseteq Request
      /\ task[t] \in Caller /\ Shaped(task[t]) /\ task[t].fence \in Allowed(Head(task[t].script).do)
  BY Parts, UnderWay DEF RuntimeStep, At, Doing
<1>1. RouterOK' /\ FacadeOK' /\ RouterKept /\ fences' \in Nat
  BY Unchanged DEF RuntimeStep
<1>2. ASSUME NEW now \in [Endpoint -> 0..MaxSession], Refresh(now), NEW G, Excuses(G)
      PROVE  LineOK' /\ wire' \subseteq Request
  <2>1. /\ live' \in [Endpoint -> 0..MaxSession] /\ pool' \in [Endpoint -> 0..MaxSession]
        /\ made' \in 0..MaxSession /\ UNCHANGED <<held, wire, granted>>
    BY <1>2, RefreshTyped
  <2>2. held' \subseteq Held
    BY <1>0, <2>1 DEF LineOK
  <2>3. excused' \subseteq Grant
    BY <1>2, <2>2, ExcusesTyped
  <2> QED
    BY <1>0, <2>1, <2>2, <2>3 DEF LineOK
<1>3. CASE ensure_started(t)
  <2>1. PICK now \in [Endpoint -> 0..MaxSession] : Refresh(now)
    BY <1>3 DEF ensure_started
  <2>2. LineOK' /\ wire' \subseteq Request
    BY <1>2, <1>3, <2>1 DEF ensure_started
  <2> DEFINE x == [task[t] EXCEPT !.pc = "enter"]
  <2>3. x \in Caller /\ x.pc = "enter" /\ x.script = task[t].script /\ x.did = task[t].did
        /\ x.raised = task[t].raised /\ x.fence = task[t].fence
    BY <1>0 DEF Caller, State, Pc
  <2>4. task' = [task EXCEPT ![t] = x]
    BY <1>3 DEF ensure_started
  <2> HIDE DEF x
  <2>6. CallersKeep
    BY <1>0, <1>1, <2>3, <2>4, MovesOn
  <2> QED
    BY <1>1, <2>2, <2>6, Together
<1>4. CASE NotStarted(t)
  <2>1. [e \in Endpoint |-> 0] \in [Endpoint -> 0..MaxSession]
    BY BoundAssumption
  <2>2. LineOK' /\ wire' \subseteq Request
    BY <1>2, <1>4, <2>1 DEF NotStarted, Ends
  <2>3. CallersKeep
    BY <1>0, <1>1, <1>4, EndOfPhase DEF NotStarted, Ends, Doing
  <2> QED
    BY <1>1, <2>2, <2>3, Together
<1>5. CASE Shutdown(t)
  <2>1. UNCHANGED <<held, wire, granted>>
    BY <1>5 DEF Shutdown
  <2>2. held' \subseteq Held /\ wire' \subseteq Request
    BY <1>0, <2>1 DEF LineOK
  <2>3. excused' \subseteq Grant
    BY <1>5, <2>2, ExcusesTyped DEF Shutdown
  <2>4. live' \in [Endpoint -> 0..MaxSession]
    BY <1>5, BoundAssumption DEF Shutdown
  <2>5. LineOK'
    BY <1>0, <1>5, <2>1, <2>2, <2>3, <2>4 DEF LineOK, Shutdown
  <2>6. CallersKeep
    <3>1. [Idle EXCEPT !.raised = FALSE] = Idle
      BY IdleShaped DEF Caller, State
    <3> QED
      BY <1>1, <1>5, <3>1, ComesToRest DEF Shutdown
  <2> QED
    BY <1>1, <2>2, <2>5, <2>6, Together
<1> QED
  BY <1>3, <1>4, <1>5 DEF RuntimeStep

\* Mirrors are well typed, and a lane object that is replaced or let go too.
LEMMA ObjectTyped ==
    ASSUME Inv
    PROVE  /\ \A n \in Fence, e \in Endpoint : /\ object[n].mirrors[e].s \in 0..MaxSession
                                               /\ object[n].mirrors[e].grant \in 0..MaxGrant
           /\ NoMirror \in [s : 0..MaxSession, grant : 0..MaxGrant]
           /\ \A t \in Task : Released(t) \in [Fence -> Object]
<1>1. object \in [Fence -> Object]
  BY Parts DEF RouterOK
<1>2. NoMirror \in [s : 0..MaxSession, grant : 0..MaxGrant]
  BY BoundAssumption DEF NoMirror
<1>3. ASSUME NEW t \in Task PROVE Released(t) \in [Fence -> Object]
  BY <1>1 DEF Released, Object
<1>4. \A n \in Fence, e \in Endpoint : /\ object[n].mirrors[e].s \in 0..MaxSession
                                       /\ object[n].mirrors[e].grant \in 0..MaxGrant
  BY <1>1 DEF Object
<1> QED
  BY <1>2, <1>3, <1>4

\* The router's open makes the entry before it sends.
LEMMA OpensKeeps ==
    ASSUME Inv, NEW t \in Task, Opens(t), UNCHANGED facadeVars
    PROVE  Keeps
<1>1. /\ task[t].pc = "enter" /\ task[t] \in Caller /\ Doing(t) = "r.open" /\ LaneOf(t) \in Lane
      /\ RouterOK /\ fences \in Nat /\ MaxFence \in Nat
  BY UnderWay, Parts, FenceAssumption DEF Opens, At, RouterOK
<1>2. /\ fences < MaxFence /\ fences' = fences + 1
      /\ lanes' = [lanes EXCEPT ![LaneOf(t)] = fences']
      /\ object' = [object EXCEPT ![fences'].lane = LaneOf(t)]
  BY DEF Opens
<1>3. fences' \in Fence /\ fences' \in 0..MaxFence
  BY <1>1, <1>2 DEF Fence
<1>4. RouterOK'
  <2>1. lanes' \in [Lane -> 0..MaxFence]
    BY <1>1, <1>2, <1>3 DEF RouterOK
  <2>2. object' \in [Fence -> Object]
    <3> DEFINE fresh == [object[fences'] EXCEPT !.lane = LaneOf(t)]
    <3>1. object \in [Fence -> Object] /\ object[fences'] \in Object
      BY <1>1, <1>3 DEF RouterOK
    <3>2. fresh \in Object
      BY <1>1, <3>1 DEF Object
    <3>3. object' = [object EXCEPT ![fences'] = fresh]
      BY <1>2
    <3> HIDE DEF fresh
    <3> QED
      BY <1>3, <3>1, <3>2, <3>3
  <2> QED
    BY <1>3, <2>1, <2>2 DEF RouterOK
<1>5. PICK S \in Current : task' = [task EXCEPT ![t].pc = "turn", ![t].fence = fences', ![t].todo = S]
  BY DEF Opens
<1> DEFINE x == [task[t] EXCEPT !.pc = "turn", !.fence = fences', !.todo = S]
<1>6. S \subseteq Link
  BY LinksTyped
<1>7. x \in Caller /\ x.pc = "turn" /\ x.script = task[t].script /\ x.did = task[t].did
      /\ x.raised = task[t].raised /\ x.fence = fences'
  BY <1>1, <1>3, <1>6 DEF Caller, State, Pc
<1>8. task' = [task EXCEPT ![t] = x]
  BY <1>5
<1>9. fences' \in Allowed(Doing(t)) /\ fences' # 0
  BY <1>1, <1>2, <1>3 DEF Allowed, Router
<1> HIDE DEF x
<1>10. CallersKeep
  <2>1. Shaped(x) /\ (task[t].did => ~x.raised)
    <3>1. Shaped(task[t]) /\ task[t].script # <<>>
      BY <1>1, UnderWay
    <3> QED
      BY <1>1, <1>7, <1>9, <3>1, SamePhase DEF Doing
  <2>2. RouterKept
    BY <1>1, <1>2, <1>3, Unchanged DEF RouterKept, RouterOK, Object
  <2>3. ~object'[fences'].given
    <3>1. ~object[fences'].given
      BY <1>1, <1>2, <1>3, Parts DEF Objects
    <3> QED
      BY <1>3, <2>2, <3>1 DEF RouterKept
  <2>4. Opening(x) /\ x.fence > fences /\ x.fence <= fences' /\ fences' \in Nat
    <3>1. task[t].script # <<>>
      BY <1>1, UnderWay
    <3> QED
      BY <1>1, <1>2, <1>7, <3>1 DEF Opening, Doing
  <2>5. Fenced(x, fences', object')
    BY <1>1, <1>7, <2>3, <2>4 DEF Fenced, Doing
  <2> QED
    BY <1>7, <1>8, <2>1, <2>2, <2>4, <2>5, StillMarked, OneCaller
<1>11. LineOK' /\ FacadeOK' /\ wire' \subseteq Request
  BY Unchanged DEF Opens
<1> QED
  BY <1>4, <1>10, <1>11, Together

\* The operations that end before they have the lock.
LEMMA RequireKeeps ==
    ASSUME Inv, NEW t \in Task, AlreadyActive(t) \/ Unowned(t) \/ TooLate(t) \/ Require(t),
           UNCHANGED facadeVars
    PROVE  Keeps
<1>1. /\ task[t].pc \in {"enter", "lock"} /\ task[t] \in Caller /\ LaneOf(t) \in Lane
      /\ RouterOK /\ Doing(t) \in Router /\ task[t].fence \in Allowed(Doing(t))
  BY UnderWay, Parts DEF AlreadyActive, Unowned, TooLate, Require, AtRequire, At, Router
<1>2. 0 \in Allowed(Doing(t)) /\ 0 \in 0..MaxFence
  BY FenceAssumption, BoundAssumption DEF Allowed
<1>3. LineOK' /\ FacadeOK' /\ wire' \subseteq Request
  BY Unchanged DEF AlreadyActive, Unowned, TooLate, Require, Ends
<1>4. RouterOK' /\ RouterKept /\ fences' \in Nat
  <2>1. CASE UNCHANGED routerVars
    BY <2>1, Unchanged
  <2>2. CASE TooLate(t)
    BY <1>1, <1>2, <2>2, Unchanged DEF TooLate, RouterOK, RouterKept
  <2> QED
    BY <2>1, <2>2 DEF AlreadyActive, Unowned, Require
<1>5. CallersKeep
  <2>1. CASE AlreadyActive(t) \/ Unowned(t) \/ TooLate(t)
    <3>1. \E f \in Allowed(Doing(t)) : (f = task[t].fence \/ f = 0)
                                      /\ task' = [task EXCEPT ![t] = After(t, FALSE, f)]
      BY <1>1, <1>2, <2>1 DEF AlreadyActive, Unowned, TooLate, Ends
    <3> QED
      BY <1>1, <1>4, <3>1, EndOfPhase
  <2>2. CASE Require(t)
    <3> DEFINE x == [task[t] EXCEPT !.pc = "lock"]
    <3>1. x \in Caller /\ x.pc = "lock" /\ x.script = task[t].script /\ x.did = task[t].did
          /\ x.raised = task[t].raised /\ x.fence = task[t].fence
      BY <1>1 DEF Caller, State, Pc
    <3>2. task' = [task EXCEPT ![t] = x] /\ task[t].fence # 0 /\ Doing(t) # "r.open"
      BY <2>2 DEF Require, Owns
    <3> HIDE DEF x
    <3> QED
      BY <1>1, <1>4, <3>1, <3>2, MovesOn
  <2> QED
    BY <2>1, <2>2
<1> QED
  BY <1>3, <1>4, <1>5, Together

\* What the router's steps at work on an object need of it.
LEMMA AtWork ==
    ASSUME Inv, NEW t \in Task, task[t].pc \in {"lock", "turn", "wait"}, Doing(t) \in Router
    PROVE  /\ task[t].fence \in Fence /\ task[t].fence # 0 /\ object[task[t].fence] \in Object
           /\ task[t] \in Caller /\ task[t].fence \in Allowed(Doing(t))
           /\ Doing(t) = "r.open" /\ task[t].pc \in {"turn", "wait"} =>
                 /\ ~object[task[t].fence].given
                 /\ \A e \in Endpoint : object[task[t].fence].mirrors[e] = NoMirror
           /\ Doing(t) # "r.open" => object[task[t].fence].given
           /\ Doing(t) = "r.open" => task[t].pc # "lock"
<1>1. /\ task[t] \in Caller /\ task[t].script # <<>> /\ task[t].fence \in Fence
      /\ task[t].fence \in Allowed(Doing(t))
  BY UnderWay
<1>2. task[t].fence # 0 /\ object[task[t].fence] \in Object
  BY <1>1, Parts, FenceAssumption DEF Fence, RouterOK
<1>3. Fenced(task[t], fences, object) /\ Objects
  BY Callers DEF Objects
<1>4. Doing(t) # "r.open" => object[task[t].fence].given
  BY <1>1, <1>2, <1>3 DEF Fenced, Doing
<1>5. Doing(t) = "r.open" /\ task[t].pc \in {"turn", "wait"} => ~object[task[t].fence].given
  BY <1>1, <1>3 DEF Fenced, Opening, Doing
<1>6. Doing(t) = "r.open" => task[t].pc # "lock"
  BY <1>1, <1>2, <1>3 DEF Fenced, Opening, Doing
<1>7. ~object[task[t].fence].given => \A e \in Endpoint : object[task[t].fence].mirrors[e] = NoMirror
  BY <1>1, <1>3 DEF Objects
<1> QED
  BY <1>1, <1>2, <1>4, <1>5, <1>6, <1>7

\* The lock is taken, and renew drops the mirrors whose sessions are gone.
LEMMA AcquireKeeps ==
    ASSUME Inv, NEW t \in Task, Acquire(t), UNCHANGED facadeVars
    PROVE  Keeps
<1> DEFINE n == task[t].fence
<1>1. /\ task[t].pc = "lock" /\ task[t] \in Caller /\ n \in Fence /\ n # 0
      /\ object \in [Fence -> Object] /\ object[n] \in Object /\ Doing(t) # "r.open"
      /\ RouterOK /\ fences \in Nat /\ Doing(t) \in Router
  <2>1. task[t].pc = "lock" /\ Doing(t) \in Router
    BY UnderWay DEF Acquire, At
  <2> QED
    BY <2>1, AtWork, Parts, Callers DEF RouterOK
<1>2. NoMirror \in [s : 0..MaxSession, grant : 0..MaxGrant]
  BY ObjectTyped
<1>3. PICK S \in Current :
                CASE Doing(t) = "r.read" ->
                        /\ task' = [task EXCEPT ![t].pc = "turn", ![t].todo = S]
                        /\ object' = [object EXCEPT ![n].holder = t]
                        /\ UNCHANGED excused
                  [] Doing(t) = "r.renew" ->
                        /\ task' = [task EXCEPT ![t].pc = "turn",
                                                ![t].todo = Reachable(n, S)]
                        /\ object' = [object EXCEPT ![n].holder = t, ![n].expired = FALSE,
                              ![n].mirrors = [e \in Endpoint |->
                                  IF e \in Unreachable(n, S) THEN NoMirror ELSE @[e]]]
                        /\ Excuses({object[n].mirrors[e].grant : e \in Unreachable(n, S)})
                  [] Doing(t) = "r.close" ->
                        /\ task' = [task EXCEPT ![t].pc = "turn",
                                                ![t].todo = Reachable(n, S),
                                                ![t].failed = Unreachable(n, S) # {}]
                        /\ object' = [object EXCEPT ![n].holder = t]
                        /\ UNCHANGED excused
  BY DEF Acquire
<1>4. Doing(t) \in {"r.read", "r.renew", "r.close"}
  BY <1>1 DEF Router
<1>5. S \subseteq Link /\ Reachable(n, S) \subseteq Link
  BY LinksTyped DEF Reachable
<1>6. LineOK' /\ FacadeOK' /\ wire' \subseteq Request
  <2>1. UNCHANGED <<edge, agent, wire>>
    BY DEF Acquire
  <2>2. UNCHANGED excused \/ Excuses({object[n].mirrors[e].grant : e \in Unreachable(n, S)})
    BY <1>3, <1>4
  <2> QED
    BY <2>1, <2>2, Unchanged
<1>7. RouterOK' /\ RouterKept /\ fences' \in Nat
  <2>1. UNCHANGED <<lanes, fences>>
    BY DEF Acquire
  <2>2. CASE object' = [object EXCEPT ![n].holder = t]
    <3>1. object' \in [Fence -> Object]
      BY <1>1, <2>2 DEF Object
    <3>2. \A m \in Fence : object'[m].given = object[m].given /\ object'[m].mirrors = object[m].mirrors
      BY <1>1, <2>2 DEF Object
    <3> QED
      BY <1>1, <2>1, <3>1, <3>2, Unchanged DEF RouterOK, RouterKept
  <2>3. CASE object' = [object EXCEPT ![n].holder = t, ![n].expired = FALSE,
                              ![n].mirrors = [e \in Endpoint |->
                                  IF e \in Unreachable(n, S) THEN NoMirror ELSE @[e]]]
    <3> DEFINE ms == [e \in Endpoint |-> IF e \in Unreachable(n, S) THEN NoMirror
                                                                 ELSE object[n].mirrors[e]]
    <3>1. ms \in [Endpoint -> [s : 0..MaxSession, grant : 0..MaxGrant]]
      BY <1>1, <1>2 DEF Object
    <3>2. \A e \in Endpoint : object[n].mirrors[e] = NoMirror => ms[e] = NoMirror
      OBVIOUS
    <3>3. object' = [object EXCEPT ![n] = [object[n] EXCEPT !.holder = t, !.expired = FALSE,
                                                            !.mirrors = ms]]
      BY <1>1, <2>3
    <3> HIDE DEF ms
    <3>4. object' \in [Fence -> Object]
      BY <1>1, <3>1, <3>3 DEF Object
    <3>5. /\ \A m \in Fence : object'[m].given = object[m].given
          /\ \A m \in Fence \ {n} : object'[m].mirrors = object[m].mirrors
          /\ object'[n].mirrors = ms
      BY <1>1, <3>3 DEF Object
    <3> QED
      BY <1>1, <2>1, <3>2, <3>4, <3>5, Unchanged DEF RouterOK, RouterKept
  <2> QED
    BY <1>3, <1>4, <2>2, <2>3
<1>8. \E x \in Caller : /\ x.pc = "turn" /\ x.script = task[t].script /\ x.did = task[t].did
                        /\ x.raised = task[t].raised /\ x.fence = n
                        /\ task' = [task EXCEPT ![t] = x]
  <2>1. CASE Doing(t) = "r.read"
    <3> DEFINE x == [task[t] EXCEPT !.pc = "turn", !.todo = S]
    <3>1. x \in Caller /\ x.pc = "turn" /\ x.script = task[t].script /\ x.did = task[t].did
          /\ x.raised = task[t].raised /\ x.fence = n
      BY <1>1, <1>5 DEF Caller, State, Pc
    <3>2. task' = [task EXCEPT ![t] = x]
      BY <1>3, <2>1
    <3> QED
      BY <3>1, <3>2
  <2>2. CASE Doing(t) = "r.renew"
    <3> DEFINE x == [task[t] EXCEPT !.pc = "turn", !.todo = Reachable(n, S)]
    <3>1. x \in Caller /\ x.pc = "turn" /\ x.script = task[t].script /\ x.did = task[t].did
          /\ x.raised = task[t].raised /\ x.fence = n
      BY <1>1, <1>5 DEF Caller, State, Pc
    <3>2. task' = [task EXCEPT ![t] = x]
      BY <1>3, <2>2
    <3> QED
      BY <3>1, <3>2
  <2>3. CASE Doing(t) = "r.close"
    <3> DEFINE x == [task[t] EXCEPT !.pc = "turn", !.todo = Reachable(n, S),
                                    !.failed = Unreachable(n, S) # {}]
    <3>1. x \in Caller /\ x.pc = "turn" /\ x.script = task[t].script /\ x.did = task[t].did
          /\ x.raised = task[t].raised /\ x.fence = n
      BY <1>1, <1>5 DEF Caller, State, Pc
    <3>2. task' = [task EXCEPT ![t] = x]
      BY <1>3, <2>3
    <3> QED
      BY <3>1, <3>2
  <2> QED
    BY <1>4, <2>1, <2>2, <2>3
<1>9. CallersKeep
  BY <1>1, <1>7, <1>8, MovesOn
<1> QED
  BY <1>6, <1>7, <1>9, Together

\* A request of the router.
LEMMA TurnKeeps ==
    ASSUME Inv, NEW t \in Task, Turn(t), UNCHANGED facadeVars
    PROVE  Keeps
<1>1. /\ task[t].pc = "turn" /\ task[t] \in Caller /\ Doing(t) \in Router
      /\ task[t].fence \in Fence /\ task[t].fence # 0
  BY AtWork DEF Turn, At
<1>2. LineOK' /\ FacadeOK' /\ RouterOK' /\ RouterKept /\ fences' \in Nat
  BY Unchanged DEF Turn
<1>3. PICK link \in task[t].todo :
          \/ /\ Mirror(t, link).s = link[2]
             /\ Send(t, CASE Doing(t) = "r.read"  -> "read"
                          [] Doing(t) = "r.renew" -> "renew"
                          [] Doing(t) = "r.close" -> "close", link, Mirror(t, link).grant)
          \/ Send(t, "open", link, 0)
  BY DEF Turn
<1>4. link \in Link /\ link[1] \in Endpoint /\ link[2] \in Session
  BY <1>1 DEF Caller, State, Link
<1>5. CASE Send(t, "open", link, 0)
  <2>1. 0 \in 0..MaxFence \cup 0..MaxGrant
    BY FenceAssumption
  <2>2. wire' \subseteq Request /\ CallersKeep
    BY <1>1, <1>2, <1>4, <1>5, <2>1, SendKeeps
  <2> QED
    BY <1>2, <2>2, Together
<1>6. CASE /\ Mirror(t, link).s = link[2]
           /\ Send(t, CASE Doing(t) = "r.read"  -> "read"
                        [] Doing(t) = "r.renew" -> "renew"
                        [] Doing(t) = "r.close" -> "close", link, Mirror(t, link).grant)
  <2>1. Doing(t) # "r.open"
    <3>1. Mirror(t, link) # NoMirror
      BY <1>4, <1>6, BoundAssumption DEF NoMirror, Session
    <3> QED
      BY <1>1, <1>4, <3>1, AtWork DEF Mirror
  <2>2. Mirror(t, link).grant \in 0..MaxFence \cup 0..MaxGrant
    BY <1>1, <1>4, ObjectTyped DEF Mirror
  <2>3. PICK op \in {"renew", "read", "close"} : Send(t, op, link, Mirror(t, link).grant)
    BY <1>1, <1>6, <2>1 DEF Router
  <2>4. wire' \subseteq Request /\ CallersKeep
    BY <1>1, <1>2, <1>4, <2>1, <2>2, <2>3, SendKeeps
  <2> QED
    BY <1>2, <2>4, Together
<1> QED
  BY <1>3, <1>5, <1>6

\* The lock is let go: nothing else of the object changes.
LEMMA ReleasedKeeps ==
    ASSUME Inv, NEW t \in Task
    PROVE  /\ Released(t) \in [Fence -> Object]
           /\ \A n \in Fence : /\ Released(t)[n].given = object[n].given
                               /\ Released(t)[n].mirrors = object[n].mirrors
<1>1. object \in [Fence -> Object]
  BY Parts DEF RouterOK
<1>2. Released(t) \in [Fence -> Object]
  BY ObjectTyped
<1> QED
  BY <1>1, <1>2 DEF Released, Object

\* The end of an operation of the router.
LEMMA ConcludesKeeps ==
    ASSUME Inv, NEW t \in Task, task[t].pc # "idle", Doing(t) \in Router, NEW ok \in BOOLEAN,
           Doing(t) = "r.open" => ~ok, Concludes(t, ok), UNCHANGED <<edge, agent>>,
           wire' \subseteq Request, UNCHANGED facadeVars
    PROVE  Keeps
<1>1. LaneOf(t) \in Lane /\ task[t].fence \in Allowed(Doing(t)) /\ RouterOK /\ fences \in Nat
  BY UnderWay, Parts, Callers
<1>2. Ends(t, ok, task[t].fence) /\ object' = Released(t) /\ fences' = fences
      /\ (UNCHANGED lanes \/ Forget(t))
  BY DEF Concludes
<1>3. lanes' \in [Lane -> 0..MaxFence]
  BY <1>1, <1>2, FenceAssumption DEF Forget, RouterOK
<1>4. object' \in [Fence -> Object] /\ RouterKept
  BY <1>1, <1>2, ReleasedKeeps, Unchanged DEF RouterKept
<1>5. RouterOK' /\ fences' \in Nat
  BY <1>1, <1>2, <1>3, <1>4 DEF RouterOK
<1>6. LineOK' /\ FacadeOK'
  BY <1>2, Unchanged DEF Ends
<1>7. CallersKeep
  BY <1>1, <1>2, <1>4, <1>5, EndOfPhase DEF Ends
<1> QED
  BY <1>5, <1>6, <1>7, Together

\* On to the next endpoint or mirror.
LEMMA OnwardKeeps ==
    ASSUME Inv, NEW t \in Task, task[t].pc = "wait", Doing(t) \in Router, NEW drop \in BOOLEAN,
           NEW failed \in BOOLEAN, Onward(t, drop, failed), NEW G,
           UNCHANGED excused \/ Excuses(G), wire' \subseteq Request, UNCHANGED facadeVars
    PROVE  Keeps
<1> DEFINE n == task[t].fence
           x == [task[t] EXCEPT !.pc = "turn", !.todo = @ \ {task[t].at}, !.at = None,
                                !.op = "none", !.ans = "none", !.failed = @ \/ failed]
<1>1. /\ task[t] \in Caller /\ n \in Fence /\ n # 0 /\ object \in [Fence -> Object]
      /\ object[n] \in Object /\ RouterOK /\ fences \in Nat
  BY AtWork, Parts, Callers DEF RouterOK
<1>2. task[t].at \in Link /\ task[t].at[1] \in Endpoint
  BY UnderWay DEF Link
<1>3. x \in Caller /\ x.pc = "turn" /\ x.script = task[t].script /\ x.did = task[t].did
      /\ x.raised = task[t].raised /\ x.fence = n
  BY <1>1 DEF Caller, State, Pc
<1>4. task' = [task EXCEPT ![t] = x]
  BY DEF Onward
<1>5. UNCHANGED <<edge, agent, lanes, fences>>
  BY DEF Onward
<1>6. object' \in [Fence -> Object] /\ RouterKept
  <2>1. CASE object' = object
    BY <1>1, <1>5, <2>1, Unchanged DEF RouterKept
  <2>2. CASE object' = [object EXCEPT ![n].mirrors[task[t].at[1]] = NoMirror]
    <3> DEFINE e == task[t].at[1]
               ms == [object[n].mirrors EXCEPT ![e] = NoMirror]
    <3>1. NoMirror \in [s : 0..MaxSession, grant : 0..MaxGrant]
      BY ObjectTyped
    <3>2. object[n].mirrors \in [Endpoint -> [s : 0..MaxSession, grant : 0..MaxGrant]]
      BY <1>1 DEF Object
    <3>3. /\ ms \in [Endpoint -> [s : 0..MaxSession, grant : 0..MaxGrant]]
          /\ \A d \in Endpoint : object[n].mirrors[d] = NoMirror => ms[d] = NoMirror
      BY <1>2, <3>1, <3>2
    <3>4. object' = [object EXCEPT ![n] = [object[n] EXCEPT !.mirrors = ms]]
      BY <1>1, <2>2
    <3> HIDE DEF ms, e
    <3>5. object' \in [Fence -> Object]
      BY <1>1, <3>3, <3>4 DEF Object
    <3>6. /\ \A m \in Fence : object'[m].given = object[m].given
          /\ \A m \in Fence \ {n} : object'[m].mirrors = object[m].mirrors
          /\ object'[n].mirrors = ms
      BY <1>1, <3>4 DEF Object
    <3> QED
      BY <1>1, <1>5, <3>3, <3>5, <3>6, Unchanged DEF RouterKept
  <2> QED
    BY <2>1, <2>2 DEF Onward
<1>7. RouterOK' /\ fences' \in Nat
  BY <1>1, <1>5, <1>6 DEF RouterOK
<1>8. LineOK' /\ FacadeOK'
  BY <1>5, Unchanged
<1> HIDE DEF x
<1>9. CallersKeep
  BY <1>1, <1>3, <1>4, <1>6, <1>7, MovesOn
<1> QED
  BY <1>7, <1>8, <1>9, Together

\* An open returns: its object becomes known.
LEMMA OpenReturns ==
    ASSUME Inv, NEW t \in Task, Doing(t) = "r.open", task[t].pc = "wait", fences' = fences, used' = used,
           task' = [task EXCEPT ![t] = After(t, TRUE, task[t].fence)],
           \A n \in Fence \ {task[t].fence} : object'[n] = object[n],
           object'[task[t].fence].given
    PROVE  CallersKeep
<1> DEFINE n == task[t].fence
           x == After(t, TRUE, n)
<1>1. /\ task[t] \in Caller /\ Shaped(task[t]) /\ task[t].script # <<>> /\ n \in Allowed(Doing(t))
      /\ n \in Fence /\ n # 0 /\ Opening(task[t])
  BY UnderWay, AtWork DEF Router, Opening, Doing
<1>2. /\ task \in [Task -> Caller] /\ \A u \in Task : Shaped(task[u]) /\ Marked(task[u].script, used)
      /\ Objects /\ fences \in Nat
  BY Callers
<1>21. Marked(<<>>, used) /\ Marked(Tail(task[t].script), used)
  BY <1>1, <1>2, MarkedRest DEF Shaped
<1>3. x \in Caller /\ Shaped(x) /\ (task[t].did => ~x.raised)
  BY <1>1, AfterShaped
<1>4. n <= fences
  BY <1>1, <1>2 DEF Objects, Fenced, Opening, Router
<1>5. Fenced(x, fences', object') /\ ~Opening(x) /\ Marked(x.script, used')
  <2>1. CASE Rest(t, TRUE) = <<>>
    <3>1. x.script = <<>>
      BY <2>1, IdleShaped DEF After, Caller, State
    <3> QED
      BY <1>21, <3>1 DEF Fenced, Opening
  <2>2. CASE Rest(t, TRUE) # <<>>
    <3>1. x.script = Rest(t, TRUE) /\ x.pc = "begin" /\ x.fence = n
      BY <2>2, IdleShaped DEF After, Caller, State
    <3>2. x.script = Tail(task[t].script)
      BY <3>1 DEF Rest
    <3>3. Continues(task[t].script)
      BY <1>1, Scripts DEF Shaped
    <3>4. Head(x.script).do # "r.open"
      BY <2>2, <3>1, <3>2, <3>3 DEF Continues
    <3> HIDE DEF x
    <3> QED
      BY <1>4, <1>21, <3>1, <3>2, <3>4 DEF Fenced, Opening
  <2> QED
    BY <2>1, <2>2
<1> HIDE DEF x
<1>6. task'[t] = x /\ task' \in [Task -> Caller] /\ \A u \in Task \ {t} : task'[u] = task[u]
  BY <1>2, <1>3 DEF x
<1>7. \A u \in Task : Kept(u)
  <2>1. \A u \in Task : task[u].did => ~task[u].raised
    BY <1>2 DEF Shaped
  <2> QED
    BY <1>2, <1>3, <1>6, <2>1 DEF Kept
<1>8. ASSUME NEW u \in Task \ {t} PROVE Fenced(task'[u], fences', object')
  <2>1. Fenced(task[u], fences, object) /\ Shaped(task[u]) /\ task'[u] = task[u]
    BY <1>2, <1>6 DEF Objects
  <2>2. task[u].script # <<>> /\ Head(task[u].script).do \in Router /\ task[u].fence # 0 =>
            task[u].fence \in Fence
    BY <2>1, FenceAssumption DEF Shaped, Allowed, Fence
  <2>3. Opening(task[u]) => task[u].fence # n /\ task[u].fence \in Fence
    BY <1>1, <1>2, <2>1, <2>2 DEF Objects, Shaped, Opening, Router
  <2> QED
    BY <2>1, <2>2, <2>3 DEF Fenced
<1>9. /\ \A m \in Fence : object'[m].given => m <= fences'
      /\ \A m \in Fence : ~object'[m].given => \A e \in Endpoint : object'[m].mirrors[e] = NoMirror
  BY <1>1, <1>2, <1>4 DEF Objects
<1>10. \A u, v \in Task : u # v /\ Opening(task'[u]) /\ Opening(task'[v]) =>
                              task'[u].fence # task'[v].fence
  BY <1>2, <1>5, <1>6 DEF Objects
<1>11. Objects'
  BY <1>5, <1>6, <1>8, <1>9, <1>10 DEF Objects
<1> QED
  BY <1>2, <1>5, <1>6, <1>7, <1>11 DEF CallersKeep

\* The mirror is noted.
LEMMA MirroredKeeps ==
    ASSUME Inv, NEW t \in Task, Mirrored(t), UNCHANGED facadeVars
    PROVE  Keeps
<1> DEFINE n == task[t].fence
           e == task[t].at[1]
           mirror == [s |-> task[t].at[2], grant |-> task[t].got]
           ms == [object[n].mirrors EXCEPT ![e] = mirror]
<1>0. task[t].pc = "wait" /\ Doing(t) \in {"r.open", "r.read"} /\ Doing(t) \in Router
  BY DEF Mirrored, Answered, At, Router
<1>1. /\ task[t] \in Caller /\ n \in Fence /\ n # 0 /\ object \in [Fence -> Object]
      /\ object[n] \in Object /\ RouterOK /\ fences \in Nat
  BY <1>0, AtWork, Parts, Callers DEF RouterOK
<1>2. task[t].at \in Link /\ e \in Endpoint /\ task[t].at[2] \in Session
  BY <1>0, UnderWay DEF Link
<1>3. ms \in [Endpoint -> [s : 0..MaxSession, grant : 0..MaxGrant]]
  <2>1. object[n].mirrors \in [Endpoint -> [s : 0..MaxSession, grant : 0..MaxGrant]]
    BY <1>1 DEF Object
  <2>2. task[t].got \in 0..MaxGrant
    BY <1>1 DEF Caller, State
  <2>3. task[t].at[2] \in 0..MaxSession
    BY <1>2, BoundAssumption DEF Session
  <2> QED
    BY <1>2, <2>1, <2>2, <2>3
<1>4. object' = [object EXCEPT ![n] = [object[n] EXCEPT !.given = TRUE, !.mirrors = ms]]
  BY <1>1 DEF Mirrored
<1> HIDE DEF ms
<1>5. object' \in [Fence -> Object]
  BY <1>1, <1>3, <1>4 DEF Object
<1>6. object'[n].given /\ \A m \in Fence \ {n} : object'[m] = object[m]
  BY <1>1, <1>4 DEF Object
<1>7. UNCHANGED <<edge, agent, lanes, fences>> /\ Excuses(Replaced(t) \cup IF Owns(t) THEN {} ELSE {task[t].got})
  BY DEF Mirrored
<1>8. RouterOK' /\ LineOK' /\ FacadeOK' /\ fences' \in Nat
  BY <1>1, <1>5, <1>7, Unchanged DEF RouterOK
<1>9. CASE Doing(t) = "r.open"
  <2>1. task' = [task EXCEPT ![t] = After(t, TRUE, n)] /\ UNCHANGED wire
    BY <1>9 DEF Mirrored
  <2>2. CallersKeep
    BY <1>0, <1>6, <1>7, <1>9, <2>1, Unchanged, OpenReturns
  <2>3. wire' \subseteq Request
    BY <2>1, Unchanged
  <2> QED
    BY <1>8, <2>2, <2>3, Together
<1>10. CASE Doing(t) = "r.read"
  <2>1. Send(t, "read", task[t].at, task[t].got)
    BY <1>10 DEF Mirrored
  <2>2. object[n].given
    BY <1>0, <1>10, AtWork
  <2>3. RouterKept
    <3>1. object[n].given = TRUE
      BY <1>1, <2>2 DEF Object
    <3>2. object'[n].given = object[n].given
      BY <1>1, <1>4, <3>1 DEF Object
    <3>3. \A m \in Fence : object'[m].given = object[m].given
      BY <1>6, <3>2
    <3>4. \A m \in Fence : ~object[m].given => object'[m] = object[m]
      BY <1>6, <2>2
    <3> QED
      BY <1>1, <1>7, <3>3, <3>4, Unchanged DEF RouterKept
  <2>4. task[t].got \in 0..MaxFence \cup 0..MaxGrant
    BY <1>1 DEF Caller, State
  <2>5. wire' \subseteq Request /\ CallersKeep
    BY <1>0, <1>1, <1>2, <1>8, <1>10, <2>1, <2>3, <2>4, SendKeeps
  <2> QED
    BY <1>8, <2>5, Together
<1> QED
  BY <1>0, <1>9, <1>10

\* Every step of the router.
LEMMA RouterKeeps ==
    ASSUME Inv, NEW t \in Task, RouterStep(t), UNCHANGED facadeVars
    PROVE  Keeps
<1>0. UNCHANGED wire => wire' \subseteq Request
  BY Unchanged
<1>1. CASE Opens(t)
  BY <1>1, OpensKeeps
<1>2. CASE AlreadyActive(t) \/ Unowned(t) \/ TooLate(t) \/ Require(t)
  BY <1>2, RequireKeeps
<1>3. CASE Acquire(t)
  BY <1>3, AcquireKeeps
<1>4. CASE Turn(t)
  BY <1>4, TurnKeeps
<1>5. CASE NoTimeLeft(t)
  BY <1>0, <1>5, ConcludesKeeps DEF NoTimeLeft, At, Router
<1>6. CASE Exhausted(t)
  <2> DEFINE ok == Doing(t) = "r.renew" \/ (Doing(t) = "r.close" /\ ~task[t].failed)
  <2>1. ok \in BOOLEAN /\ (Doing(t) = "r.open" => ~ok)
    OBVIOUS
  <2>2. task[t].pc # "idle" /\ Doing(t) \in Router /\ Concludes(t, ok) /\ UNCHANGED <<edge, agent>>
        /\ wire' \subseteq Request
    BY <1>0, <1>6 DEF Exhausted, At
  <2> HIDE DEF ok
  <2> QED
    BY <2>1, <2>2, ConcludesKeeps
<1>7. CASE NotMirrored(t)
  BY <1>0, <1>7, ConcludesKeeps DEF NotMirrored, Answered, At, Router
<1>8. CASE Read(t)
  <2>1. (task[t].ans = "ok") \in BOOLEAN
    OBVIOUS
  <2> QED
    BY <1>0, <1>8, <2>1, ConcludesKeeps DEF Read, Answered, At, Router
<1>9. CASE Mirrored(t)
  BY <1>9, MirroredKeeps
<1>10. CASE Renewed(t)
  <2>1. wire' \subseteq Request
    BY <1>10, Unchanged DEF Renewed
  <2>2. (task[t].ans = "refused") \in BOOLEAN
    OBVIOUS
  <2> QED
    BY <1>10, <2>1, <2>2, OnwardKeeps DEF Renewed, Answered, At, Router
<1>11. CASE Closed(t)
  <2>1. wire' \subseteq Request
    BY <1>11, Unchanged DEF Closed
  <2>2. (task[t].ans = "ok") \in BOOLEAN /\ (task[t].ans = "refused") \in BOOLEAN
    OBVIOUS
  <2> QED
    BY <1>11, <2>1, <2>2, OnwardKeeps DEF Closed, Answered, At, Router
<1>12. CASE Lost(t)
  <2>1. wire' \subseteq Request
    BY <1>12, LeavesTyped DEF Lost, Unanswered
  <2>2. (Doing(t) = "r.renew") \in BOOLEAN /\ (Doing(t) = "r.close") \in BOOLEAN
    OBVIOUS
  <2> QED
    BY <1>12, <2>1, <2>2, OnwardKeeps DEF Lost, Unanswered, At
<1>13. CASE Broken(t)
  <2>1. wire' \subseteq Request
    BY <1>13, LeavesTyped DEF Broken, Unanswered
  <2> QED
    BY <1>13, <2>1, ConcludesKeeps DEF Broken, Unanswered, At
<1> QED
  BY <1>1, <1>2, <1>3, <1>4, <1>5, <1>6, <1>7, <1>8, <1>9, <1>10, <1>11, <1>12, <1>13 DEF RouterStep

\* The token of a gateway request.
LEMMA TokenTyped ==
    ASSUME Inv, NEW t \in Task, task[t].pc # "idle", Doing(t) \in Gateway
    PROVE  /\ Token(t) \in 0..MaxFence \cup 0..MaxGrant
           /\ Operation[Doing(t)] \in {"open", "read", "close", "call"}
           /\ Doing(t) \notin Router /\ LaneOf(t) \in Private
<1>1. LaneOf(t) \in Private /\ task[t].fence \in 0..MaxFence \cup 0..MaxGrant
  BY UnderWay
<1>2. lease[LaneOf(t)] \in 0..MaxGrant
  BY <1>1, Parts DEF FacadeOK
<1>3. Doing(t) \notin Router /\ Operation[Doing(t)] \in {"open", "read", "close", "call"}
  BY DEF Gateway, Router, Operation
<1> QED
  BY <1>1, <1>2, <1>3 DEF Token

\* The requests of the gateway.
LEMMA CallKeeps ==
    ASSUME Inv, NEW t \in Task, HandleGone(t) \/ Call(t) \/ NotSent(t) \/ Again(t) \/ NothingLeft(t)
    PROVE  Keeps
<1>1. FacadeOK' /\ RouterOK' /\ LineOK' /\ RouterKept /\ fences' \in Nat
  BY Unchanged DEF HandleGone, Call, NotSent, Again, NothingLeft, Ends
<1>2. task[t].pc # "idle"
  BY DEF HandleGone, Call, NotSent, Again, NothingLeft, At
<1>3. /\ task[t] \in Caller /\ Shaped(task[t]) /\ task[t].script # <<>>
      /\ task[t].fence \in Allowed(Doing(t))
  BY <1>2, UnderWay
<1>4. CASE HandleGone(t)
  <2>1. ~task[t].did
    BY <1>3, <1>4 DEF HandleGone, Leased, Shaped, Doing
  <2>2. CallersKeep
    BY <1>1, <1>4, <2>1, ComesToRest DEF HandleGone
  <2>3. wire' \subseteq Request
    BY <1>4, Unchanged DEF HandleGone
  <2> QED
    BY <1>1, <2>2, <2>3, Together
<1>5. CASE Call(t)
  <2>1. PICK S \in SUBSET {<<e, pool[e]>> : e \in Endpoint} : \E link \in S :
          /\ \A l \in S : l[2] # 0
          /\ wire' = Sent(t, Operation[Doing(t)], link, Token(t))
          /\ task' = [task EXCEPT ![t] = [Asks(t, Operation[Doing(t)], link) EXCEPT !.todo = S]]
    BY <1>5 DEF Call
  <2>2. PICK link \in S :
          /\ wire' = Sent(t, Operation[Doing(t)], link, Token(t))
          /\ task' = [task EXCEPT ![t] = [Asks(t, Operation[Doing(t)], link) EXCEPT !.todo = S]]
    BY <2>1
  <2>3. S \subseteq Link /\ link \in Link
    BY <2>1, LinksTyped
  <2>4. /\ Operation[Doing(t)] \in {"open", "read", "close", "call"} /\ Doing(t) \notin Router
        /\ Token(t) \in 0..MaxFence \cup 0..MaxGrant
    BY <1>2, <1>5, TokenTyped DEF Call
  <2> DEFINE op == Operation[Doing(t)]
             y == Asks(t, op, link)
             x == [y EXCEPT !.todo = S]
  <2>5. /\ Sent(t, op, link, Token(t)) \subseteq Request /\ y \in Caller /\ y.pc = "wait"
        /\ y.at \in Link /\ y.script = task[t].script /\ y.fence = task[t].fence
        /\ y.did = task[t].did /\ y.raised = task[t].raised
    <3> HIDE DEF op
    <3> QED
      BY <1>2, <2>3, <2>4, SentTyped DEF op
  <2> HIDE DEF y
  <2>6. /\ x \in Caller /\ x.pc = "wait" /\ x.at \in Link /\ x.script = task[t].script
        /\ x.fence = task[t].fence /\ x.did = task[t].did /\ x.raised = task[t].raised
    BY <2>3, <2>5 DEF Caller, State
  <2>7. task' = [task EXCEPT ![t] = x]
    BY <2>2 DEF y
  <2> HIDE DEF x
  <2>8. CallersKeep
    BY <1>1, <1>2, <2>4, <2>6, <2>7, MovesOn DEF Router
  <2>9. wire' \subseteq Request
    BY <2>2, <2>5
  <2> QED
    BY <1>1, <2>8, <2>9, Together
<1>6. CASE NotSent(t) \/ NothingLeft(t)
  <2>1. /\ task' = [task EXCEPT ![t] = After(t, FALSE, task[t].fence)] /\ UNCHANGED wire
    BY <1>6 DEF NotSent, NothingLeft, Ends
  <2>2. CallersKeep
    BY <1>1, <1>2, <1>3, <2>1, EndOfPhase
  <2> QED
    BY <1>1, <2>1, <2>2, Unchanged, Together
<1>7. CASE Again(t)
  <2>1. PICK link \in task[t].todo : Send(t, "read", link, Token(t))
    BY <1>7 DEF Again
  <2>2. link \in Link /\ Doing(t) \in Gateway
    BY <1>3, <1>7 DEF Caller, State, Again, Gateway
  <2>3. Token(t) \in 0..MaxFence \cup 0..MaxGrant /\ Doing(t) \notin Router
    BY <1>2, <2>2, TokenTyped
  <2>4. wire' \subseteq Request /\ CallersKeep
    BY <1>1, <1>2, <2>1, <2>2, <2>3, SendKeeps DEF Router
  <2> QED
    BY <1>1, <2>4, Together
<1> QED
  BY <1>4, <1>5, <1>6, <1>7

\* The answer to a gateway request.
LEMMA ReturnKeeps ==
    ASSUME Inv, NEW t \in Task, Return(t)
    PROVE  Keeps
<1> DEFINE ok == task[t].ans = "ok"
           f == IF Doing(t) = "open" THEN task[t].got ELSE task[t].fence
<1>1. task[t].pc = "wait" /\ Doing(t) \in Gateway
  BY DEF Return, Answered, At
<1>2. /\ task[t] \in Caller /\ Shaped(task[t]) /\ Doing(t) \notin Router /\ LaneOf(t) \in Private
      /\ task[t].fence \in Allowed(Doing(t)) /\ FacadeOK
  BY <1>1, UnderWay, TokenTyped, Parts
<1>3. task[t].fence \in 0..MaxGrant /\ task[t].got \in 0..MaxGrant /\ f \in Allowed(Doing(t))
  BY <1>2 DEF Allowed, Caller, State
<1>4. LineOK' /\ RouterOK' /\ wire' \subseteq Request /\ RouterKept /\ fences' \in Nat
  BY Unchanged DEF Return, Ends
<1>5. CallersKeep
  <2>1. task' = [task EXCEPT ![t] = After(t, ok, f)] /\ ok \in BOOLEAN
    BY DEF Return, Ends
  <2> HIDE DEF ok, f
  <2> QED
    BY <1>1, <1>2, <1>3, <1>4, <2>1, EndOfPhase DEF Router
<1>6. LaneOf(t) \in used
  <2>1. Marked(task[t].script, used) /\ Script(task[t].script) /\ task[t].script # <<>>
    BY <1>1, UnderWay, Callers DEF Shaped
  <2>2. LaneOf(t) \in used \cup {Shared}
    BY <2>1, MarkedRest DEF LaneOf
  <2> QED
    BY <1>2, <2>2, LaneAssumption
<1>7. handles' \subseteq used' /\ UNCHANGED <<calls, used>>
  BY <1>2, <1>6 DEF Return, FacadeOK
<1>8. lease' \in [Private -> 0..MaxGrant]
  BY <1>2, <1>3 DEF Return, FacadeOK
<1>9. FacadeOK'
  BY <1>2, <1>7, <1>8 DEF FacadeOK
<1> QED
  BY <1>4, <1>5, <1>9, Together

\* A gateway request that is not answered.
LEMMA GaveUpKeeps ==
    ASSUME Inv, NEW t \in Task, GaveUp(t)
    PROVE  Keeps
<1>1. task[t].pc = "wait" /\ Doing(t) \in Gateway /\ wire' \subseteq Request
  BY LeavesTyped DEF GaveUp, Unanswered, At
<1>2. /\ task[t] \in Caller /\ Doing(t) \notin Router /\ task[t].fence \in Allowed(Doing(t))
  BY <1>1, UnderWay, TokenTyped
<1>3. LineOK' /\ RouterOK' /\ FacadeOK' /\ RouterKept /\ fences' \in Nat
  BY Unchanged DEF GaveUp, Ends
<1>4. CASE Doing(t) = "status" /\ ~Ends(t, FALSE, task[t].fence)
  <2> DEFINE x == [task[t] EXCEPT !.pc = "turn", !.op = "none",
                                  !.todo = @ \ {task[t].at}, !.at = None]
  <2>1. x \in Caller /\ x.pc = "turn" /\ x.script = task[t].script /\ x.did = task[t].did
        /\ x.raised = task[t].raised /\ x.fence = task[t].fence
    BY <1>2 DEF Caller, State, Pc
  <2>2. task' = [task EXCEPT ![t] = x]
    BY <1>4 DEF GaveUp
  <2> HIDE DEF x
  <2>3. CallersKeep
    BY <1>1, <1>2, <1>3, <1>4, <2>1, <2>2, MovesOn
  <2> QED
    BY <1>1, <1>3, <2>3, Together
<1>5. CASE Ends(t, FALSE, task[t].fence)
  <2>1. task' = [task EXCEPT ![t] = After(t, FALSE, task[t].fence)]
    BY <1>5 DEF Ends
  <2>2. CallersKeep
    BY <1>1, <1>2, <1>3, <2>1, EndOfPhase
  <2> QED
    BY <1>1, <1>3, <2>2, Together
<1> QED
  BY <1>4, <1>5 DEF GaveUp

\* A call begins.
LEMMA BeginsKeeps ==
    ASSUME Inv, NEW t \in Task, NEW sc, Script(sc), sc # <<>>, NEW f \in Allowed(Head(sc).do),
           Begins(t, sc, f), used \subseteq used', Marked(sc, used'),
           Head(sc).do = "r.open" => f = 0,
           Head(sc).do \in Router => f <= fences /\ (f # 0 => object[f].given)
    PROVE  /\ LineOK' /\ RouterOK' /\ wire' \subseteq Request /\ CallersKeep
           /\ calls' \in 0..MaxCalls
<1> DEFINE x == [Idle EXCEPT !.script = sc, !.pc = "begin", !.fence = f]
           y == [Idle EXCEPT !.script = sc, !.pc = "begin", !.fence = f, !.did = FALSE]
<1>1. x = y
  <2>1. Idle \in Caller /\ Idle.did = FALSE
    BY IdleShaped DEF Idle
  <2> QED
    BY <2>1 DEF Caller, State
<1>2. y \in Caller /\ Shaped(y) /\ ~y.raised
  BY BeginShaped
<1>3. x.script = sc /\ x.pc = "begin" /\ x.fence = f
  BY DEF Idle
<1>4. task' = [task EXCEPT ![t] = x] /\ UNCHANGED <<edge, agent, wire, excused, routerVars>>
  BY DEF Begins
<1>5. LineOK' /\ RouterOK' /\ wire' \subseteq Request
  BY <1>4, Unchanged
<1>6. RouterKept /\ fences' \in Nat /\ fences' = fences /\ object' = object
  BY <1>4, Callers DEF RouterKept, routerVars
<1>7. calls' \in 0..MaxCalls
  BY Parts, CallsAssumption DEF Begins, FacadeOK
<1> HIDE DEF x, y
<1>8. Fenced(x, fences', object') /\ ~Opening(x)
  BY <1>3, <1>6 DEF Fenced, Opening
<1>9. CallersKeep
  BY <1>1, <1>2, <1>3, <1>4, <1>6, <1>8, OneCaller
<1> QED
  BY <1>5, <1>7, <1>9

\* A call of the facade on a lane of its own.
LEMMA FreshKeeps ==
    ASSUME Inv, NEW t \in Task, NEW l \in Private, Fresh(l), UNCHANGED <<handles, lease>>, NEW sc,
           \/ sc = <<Do("r.open", l), Do("r.read", l), Do("r.close", l)>>
           \/ sc = <<Do("open", l), Do("call", l), Do("close", l)>>
           \/ sc = <<Do("open", l), Do("start", l)>>,
           Begins(t, sc, 0)
    PROVE  Keeps
<1>1. Script(sc)
  BY DEF Script
<1>2. sc # <<>> /\ Head(sc).do \in {"r.open", "open"}
  BY DEF Do
<1>3. 0 \in Allowed(Head(sc).do) /\ 0 <= fences
  BY FenceAssumption, BoundAssumption, Callers DEF Allowed
<1>4. used' = used \cup {l}
  BY DEF Fresh
<1>5. Marked(sc, used')
  BY <1>4 DEF Marked, Do
<1>6. /\ LineOK' /\ RouterOK' /\ wire' \subseteq Request /\ CallersKeep
      /\ calls' \in 0..MaxCalls
  BY <1>1, <1>2, <1>3, <1>4, <1>5, BeginsKeeps
<1>7. IsFiniteSet(used')
  BY <1>4, Parts, FS_AddElement DEF FacadeOK
<1>8. FacadeOK'
  BY <1>4, <1>6, <1>7, Parts DEF FacadeOK
<1> QED
  BY <1>6, <1>8, Together

\* A call that makes no lane id.
LEMMA PlainKeeps ==
    ASSUME Inv, NEW t \in Task, UNCHANGED leases, NEW sc, Script(sc), sc # <<>>, Marked(sc, used),
           NEW f \in Allowed(Head(sc).do), Begins(t, sc, f),
           Head(sc).do = "r.open" => f = 0,
           Head(sc).do \in Router => f <= fences /\ (f # 0 => object[f].given)
    PROVE  Keeps
<1>1. UNCHANGED <<handles, lease, used>>
  BY DEF leases
<1>2. /\ LineOK' /\ RouterOK' /\ wire' \subseteq Request /\ CallersKeep
      /\ calls' \in 0..MaxCalls
  BY <1>1, BeginsKeeps
<1>3. FacadeOK'
  BY <1>1, <1>2, Parts DEF FacadeOK
<1> QED
  BY <1>2, <1>3, Together

\* The handles of a drain, in some order.
LEMMA DrainScript ==
    ASSUME Inv, handles # {}
    PROVE  LET sc == [i \in 1..Cardinality(handles) |-> Do("release", SetToSeq(handles)[i])]
           IN /\ Script(sc) /\ sc # <<>> /\ Marked(sc, used) /\ Head(sc).do = "release"
              /\ \A i \in 1..Len(sc) : sc[i].lane \in handles
<1> DEFINE n == Cardinality(handles)
           order == SetToSeq(handles)
           sc == [i \in 1..n |-> Do("release", order[i])]
<1>1. IsFiniteSet(handles) /\ handles \subseteq used /\ used \subseteq Private
  BY Parts, FS_Subset DEF FacadeOK
<1>2. n \in Nat \ {0} /\ ExistsBijection(1..n, handles)
  BY <1>1, FS_CardinalityType, FS_EmptySet
<1>3. \E f \in [1..n -> handles] : IsInjective(f)
  BY <1>2 DEF ExistsBijection, Bijection, Injection
<1>4. order \in [1..n -> handles]
  BY <1>3 DEF SetToSeq
<1> HIDE DEF n, order
<1>5. \A i \in 1..n : sc[i] \in [do : {"release"}, lane : Private] /\ sc[i].lane \in used /\ sc[i].do = "release"
                    /\ sc[i].lane \in handles
  BY <1>1, <1>4 DEF Do
<1>6. sc \in Seq([do : {"release"}, lane : Private]) /\ Len(sc) = n
  BY <1>2, <1>5
<1>7. sc # <<>> /\ Head(sc) = sc[1] /\ 1 \in 1..n
  BY <1>2, <1>6
<1>8. Marked(sc, used)
  BY <1>5, <1>6 DEF Marked
<1>9. Script(sc)
  BY <1>6 DEF Script
<1>10. \A i \in 1..Len(sc) : sc[i].lane \in handles
  BY <1>5, <1>6
<1> QED
  BY <1>5, <1>7, <1>8, <1>9, <1>10 DEF n, order

\* Every call begins with what it may rely on.
LEMMA CallsKeep ==
    ASSUME Inv, NEW t \in Task, Calls(t)
    PROVE  Keeps
<1>0. 0 \in 0..MaxFence /\ 0 \in 0..MaxGrant /\ 0 <= fences /\ \A do : 0 \in Allowed(do)
  BY FenceAssumption, BoundAssumption, Callers DEF Allowed
<1>1. ASSUME NEW do, NEW l PROVE /\ <<Do(do, l)>> # <<>> /\ Head(<<Do(do, l)>>).do = do
                                 /\ l \in used \cup {Shared} => Marked(<<Do(do, l)>>, used)
  BY DEF Do, Marked
<1>2. CASE lane_open(t)
  <2>1. Script(<<Do("r.open", Shared)>>)
    BY DEF Script, Router
  <2> QED
    BY <1>0, <1>1, <1>2, <2>1, PlainKeeps DEF lane_open
<1>3. CASE shutdown(t)
  <2>1. Script(<<Do("shutdown", Shared)>>)
    BY DEF Script, Router
  <2> QED
    BY <1>0, <1>1, <1>3, <2>1, PlainKeeps DEF shutdown, Router
<1>4. CASE lane_operation(t)
  <2>1. PICK do \in Router \ {"r.open"}, n \in Fence : object[n].given /\ Begins(t, <<Do(do, Shared)>>, n)
    BY <1>4 DEF lane_operation
  <2>2. Script(<<Do(do, Shared)>>)
    BY DEF Script
  <2>3. n \in Allowed(do) /\ n <= fences
    BY <2>1, Callers, FenceAssumption DEF Allowed, Fence, Objects
  <2> QED
    BY <1>1, <1>4, <2>1, <2>2, <2>3, PlainKeeps DEF lane_operation
<1>5. CASE read_call(t)
  BY <1>5, FreshKeeps DEF read_call, ephemeral
<1>6. CASE write_call(t)
  BY <1>6, FreshKeeps DEF write_call, ephemeral
<1>7. CASE start_process(t)
  BY <1>7, FreshKeeps DEF start_process
<1>8. CASE process_operation(t) \/ release_process(t)
  <2>1. PICK l \in handles, do \in {"status", "input", "release"} : Begins(t, <<Do(do, l)>>, 0)
    BY <1>8 DEF process_operation, release_process
  <2>2. l \in used /\ l \in Private
    BY Parts DEF FacadeOK
  <2>3. Script(<<Do(do, l)>>)
    <3>1. CASE do = "release"
      <4>1. Do(do, l) \in [do : {"release"}, lane : Private]
        BY <2>2, <3>1 DEF Do
      <4>2. <<Do(do, l)>> \in Seq([do : {"release"}, lane : Private])
        BY <4>1
      <4> QED
        BY <4>2 DEF Script
    <3>2. CASE do \in {"status", "input"}
      BY <2>2, <3>2 DEF Script
    <3> QED
      BY <3>1, <3>2
  <2>4. do \notin Router
    BY DEF Router
  <2> QED
    BY <1>0, <1>1, <1>8, <2>1, <2>2, <2>3, <2>4, PlainKeeps DEF process_operation, release_process, Router
<1>9. CASE drain(t)
  <2> DEFINE sc == [i \in 1..Cardinality(handles) |-> Do("release", SetToSeq(handles)[i])]
  <2>1. handles # {} /\ Begins(t, sc, 0) /\ UNCHANGED leases
    BY <1>9 DEF drain
  <2>2. Script(sc) /\ sc # <<>> /\ Marked(sc, used) /\ Head(sc).do = "release"
    BY <2>1, DrainScript
  <2> HIDE DEF sc
  <2> QED
    BY <1>0, <2>1, <2>2, PlainKeeps DEF Router
<1> QED
  BY <1>2, <1>3, <1>4, <1>5, <1>6, <1>7, <1>8, <1>9 DEF Calls

\* A caller is cancelled: its lock is let go, and a finally clause goes on.
LEMMA CancelKeeps ==
    ASSUME Inv, NEW t \in Task, Cancel(t)
    PROVE  Keeps
<1> DEFINE rest == Tail(task[t].script)
           closes == Doing(t) \in {"call", "r.read"} /\ rest # <<>>
<1>1. /\ task[t].pc # "idle" /\ UNCHANGED <<edge, agent, lanes, fences, facadeVars>>
      /\ wire' = Leaves(t) /\ object' \in {Released(t), object}
  BY DEF Cancel, At
<1>2. \E G : Excuses(G)
  BY DEF Cancel
<1>3. LineOK' /\ FacadeOK' /\ wire' \subseteq Request
  BY <1>1, <1>2, Unchanged, LeavesTyped
<1>4. RouterOK' /\ RouterKept /\ fences' \in Nat
  <2>1. object' \in [Fence -> Object] /\ RouterOK /\ fences \in Nat
    BY <1>1, ReleasedKeeps, Parts, Callers DEF RouterOK
  <2>2. RouterKept
    BY <1>1, <2>1, ReleasedKeeps, Unchanged DEF RouterKept
  <2> QED
    BY <1>1, <2>1, <2>2 DEF RouterOK
<1>5. CASE ~closes
  <2>1. task' = [task EXCEPT ![t] = Idle]
    BY <1>5 DEF Cancel
  <2>2. [Idle EXCEPT !.raised = FALSE] = Idle
    BY IdleShaped DEF Caller, State
  <2>3. CallersKeep
    BY <1>4, <2>1, <2>2, ComesToRest
  <2> QED
    BY <1>3, <1>4, <2>3, Together
<1>6. CASE closes
  <2> DEFINE f == task[t].fence
             x == [Idle EXCEPT !.script = rest, !.pc = "begin", !.fence = f]
             y == [Idle EXCEPT !.script = rest, !.pc = "begin", !.fence = f, !.did = FALSE]
  <2>1. task' = [task EXCEPT ![t] = x]
    BY <1>6 DEF Cancel
  <2>2. x = y
    <3>1. Idle \in Caller /\ Idle.did = FALSE
      BY IdleShaped DEF Idle
    <3> QED
      BY <3>1 DEF Caller, State
  <2>3. task[t].script # <<>> /\ f \in Allowed(Doing(t)) /\ Script(task[t].script)
    BY <1>1, UnderWay DEF Shaped
  <2>4. Continues(task[t].script) /\ Script(rest)
    BY <2>3, Scripts
  <2>5. /\ Head(rest).do # "r.open" /\ (Head(rest).do \in Router <=> Doing(t) \in Router)
        /\ f \in Allowed(Head(rest).do)
    BY <1>6, <2>3, <2>4 DEF Continues, Doing, Allowed
  <2>6. y \in Caller /\ Shaped(y) /\ ~y.raised
    BY <1>6, <2>4, <2>5, BeginShaped
  <2>7. x.script = rest /\ x.pc = "begin" /\ x.fence = f
    BY DEF Idle
  <2>8. Fenced(task[t], fences', object')
    BY <1>4, StillFenced
  <2>9. Doing(t) \in Router => f <= fences' /\ (f # 0 => object'[f].given)
    BY <1>6, <2>3, <2>8 DEF Fenced, Doing
  <2>10. Marked(rest, used')
    BY <1>1, <1>4, StillMarked
  <2> HIDE DEF x, y
  <2>11. Fenced(x, fences', object') /\ ~Opening(x)
    BY <2>5, <2>7, <2>9 DEF Fenced, Opening
  <2>12. CallersKeep
    BY <1>4, <2>1, <2>2, <2>6, <2>7, <2>10, <2>11, OneCaller
  <2> QED
    BY <1>3, <1>4, <2>12, Together
<1> QED
  BY <1>5, <1>6

\* A logical lane's time is up.
LEMMA ExpireKeeps ==
    ASSUME Inv, NEW n \in Fence, Expire(n), UNCHANGED facadeVars
    PROVE  Keeps
<1>1. UNCHANGED <<edge, agent, wire, excused, task, lanes, fences>>
  BY DEF Expire, runtimeVars
<1>2. object' = [object EXCEPT ![n].expired = TRUE] /\ RouterOK /\ fences \in Nat
  BY Parts, Callers DEF Expire
<1>3. object' \in [Fence -> Object]
  BY <1>2 DEF RouterOK, Object
<1>4. \A m \in Fence : object'[m].given = object[m].given /\ object'[m].mirrors = object[m].mirrors
  BY <1>2 DEF RouterOK, Object
<1>5. LineOK' /\ FacadeOK' /\ wire' \subseteq Request /\ UNCHANGED used
  BY <1>1, Unchanged
<1>6. RouterOK' /\ RouterKept /\ fences' \in Nat
  BY <1>1, <1>2, <1>3, <1>4, <1>5 DEF RouterOK, RouterKept
<1>7. CallersKeep
  BY <1>1, <1>6, NoCaller
<1> QED
  BY <1>5, <1>6, <1>7, Together

\* An answer reaches its caller, which need not be in any particular place.
LEMMA AnswerKeeps ==
    ASSUME Inv, NEW m \in Request, NEW ans \in {"ok", "refused"}, NEW got \in 0..MaxGrant,
           NEW arrives \in BOOLEAN, arrives => m.t # None, Answer(m, ans, got, arrives), RouterKept,
           fences' \in Nat
    PROVE  CallersKeep
<1>1. CASE task' = task
  BY <1>1, NoCaller
<1>2. CASE m.t # None /\ task' = [task EXCEPT ![m.t].ans = ans, ![m.t].got = got]
  <2>1. PICK t \in Task : t = m.t
    BY <1>2 DEF Request
  <2> DEFINE x == [task[t] EXCEPT !.ans = ans, !.got = got]
  <2>2. task \in [Task -> Caller] /\ task[t] \in Caller /\ Shaped(task[t])
    BY Callers
  <2>3. /\ x \in Caller /\ x.script = task[t].script /\ x.pc = task[t].pc /\ x.fence = task[t].fence
        /\ x.did = task[t].did /\ x.raised = task[t].raised /\ x.at = task[t].at
    BY <2>2 DEF Caller, State
  <2>4. task' = [task EXCEPT ![t] = x]
    BY <1>2, <2>1, <2>2
  <2> HIDE DEF x
  <2>5. Shaped(x) /\ (task[t].did => ~x.raised)
    BY <2>2, <2>3 DEF Shaped
  <2>6. Opening(x) <=> Opening(task[t])
    BY <2>3 DEF Opening
  <2>7. Fenced(x, fences', object')
    <3>1. Fenced(task[t], fences', object')
      BY StillFenced
    <3> QED
      BY <2>3, <2>6, <3>1 DEF Fenced
  <2>8. Marked(x.script, used')
    BY <2>3, StillMarked
  <2> QED
    BY <2>3, <2>4, <2>5, <2>6, <2>7, <2>8, OneCaller
<1> QED
  BY <1>1, <1>2 DEF Answer

\* The agent's steps.
LEMMA WorldKeeps ==
    ASSUME Inv, World
    PROVE  Keeps
<1>1. RouterOK' /\ FacadeOK' /\ RouterKept /\ fences' \in Nat
  BY Unchanged DEF World
<1>2. LineOK /\ wire \subseteq Request /\ MaxGrant \in Nat
  BY Parts, BoundAssumption
<1>3. ASSUME NEW h \in held, LaneEnds(h) PROVE Keeps
  <2>1. held' \subseteq Held /\ UNCHANGED <<edge, granted, wire, task>>
    BY <1>2, <1>3 DEF LaneEnds, LineOK
  <2>2. excused' \subseteq Grant
    BY <1>3, <2>1, ExcusesTyped DEF LaneEnds
  <2>3. LineOK' /\ wire' \subseteq Request
    BY <1>2, <2>1, <2>2 DEF LineOK, edge
  <2>4. CallersKeep
    BY <1>1, <2>1, NoCaller
  <2> QED
    BY <1>1, <2>3, <2>4, Together
<1>4. ASSUME NEW m \in wire, Serve(m) PROVE Keeps
  <2>1. m \in Request /\ m.s \in Session /\ m.lane \in Lane
    BY <1>2 DEF Request
  <2>2. wire' \subseteq Request /\ UNCHANGED edge
    BY <1>2, <1>4 DEF Serve
  <2>3. PICK arrives \in BOOLEAN : /\ arrives => m.t # None
                                   /\ ServeOpen(m, arrives) \/ ServeOn(m, arrives)
    BY <1>4 DEF Serve
  <2>4. 0 \in 0..MaxGrant
    BY <1>2
  <2>5. CASE Refuse(m, arrives)
    <3>1. CallersKeep
      BY <1>1, <2>1, <2>3, <2>4, <2>5, AnswerKeeps DEF Refuse
    <3>2. LineOK'
      BY <1>2, <2>2, <2>5 DEF LineOK, Refuse, edge
    <3> QED
      BY <1>1, <2>2, <3>1, <3>2, Together
  <2>6. CASE ServeOpen(m, arrives) /\ ~Refuse(m, arrives)
    <3>1. /\ granted < MaxGrant /\ granted' = granted + 1
          /\ held' = held \cup {[lane |-> m.lane, s |-> m.s, grant |-> granted']}
          /\ Answer(m, "ok", granted', arrives) /\ \E G : Excuses(G)
      BY <2>6 DEF ServeOpen
    <3>2. granted' \in 0..MaxGrant /\ granted' \in Grant
      BY <1>2, <3>1 DEF LineOK, Grant
    <3>3. held' \subseteq Held
      BY <1>2, <2>1, <3>1, <3>2 DEF LineOK, Held
    <3>4. excused' \subseteq Grant
      BY <3>1, <3>3, ExcusesTyped
    <3>5. LineOK'
      BY <1>2, <2>2, <3>2, <3>3, <3>4 DEF LineOK, edge
    <3>6. CallersKeep
      BY <1>1, <2>1, <2>3, <3>1, <3>2, AnswerKeeps
    <3> QED
      BY <1>1, <2>2, <3>5, <3>6, Together
  <2>7. CASE ServeOn(m, arrives) /\ ~Refuse(m, arrives)
    <3>1. held' \subseteq held /\ granted' = granted /\ Answer(m, "ok", 0, arrives) /\ Excuses({})
      BY <2>7 DEF ServeOn
    <3>2. held' \subseteq Held
      BY <1>2, <3>1 DEF LineOK
    <3>3. excused' \subseteq Grant
      BY <3>1, <3>2, ExcusesTyped
    <3>4. LineOK'
      BY <1>2, <2>2, <3>1, <3>2, <3>3 DEF LineOK, edge
    <3>5. CallersKeep
      BY <1>1, <2>1, <2>3, <2>4, <3>1, AnswerKeeps
    <3> QED
      BY <1>1, <2>2, <3>4, <3>5, Together
  <2> QED
    BY <2>3, <2>5, <2>6, <2>7
<1>5. ASSUME NEW s, SessionEnds(s) PROVE Keeps
  <2>1. /\ held' \subseteq held /\ wire' \subseteq wire /\ Excuses({})
        /\ UNCHANGED <<edge, granted, task>>
    BY <1>5 DEF SessionEnds
  <2>2. held' \subseteq Held /\ wire' \subseteq Request
    BY <1>2, <2>1 DEF LineOK
  <2>3. excused' \subseteq Grant
    BY <2>1, <2>2, ExcusesTyped
  <2>4. LineOK'
    BY <1>2, <2>1, <2>2, <2>3 DEF LineOK, edge
  <2>5. CallersKeep
    BY <1>1, <2>1, NoCaller
  <2> QED
    BY <1>1, <2>2, <2>4, <2>5, Together
<1> QED
  BY <1>3, <1>4, <1>5 DEF World

----------------------------------------------------------------------------
(* The invariant                                                           *)

\* The invariant holds at first.
LEMMA InvAtFirst == Init => Inv
<1> SUFFICES ASSUME Init PROVE Inv
  OBVIOUS
<1>0. 0 \in 0..MaxFence /\ 0 \in 0..MaxGrant /\ 0 \in 0..MaxSession /\ 0 \in 0..MaxCalls
  BY FenceAssumption, BoundAssumption, CallsAssumption
<1>1. task = [t \in Task |-> Idle] /\ fences = 0 /\ used = {} /\ handles = {} /\ wire = {}
  BY DEF Init
<1>2. object = [n \in Fence |-> [lane |-> Shared, mirrors |-> [e \in Endpoint |-> NoMirror],
                                  expired |-> FALSE, given |-> FALSE, holder |-> None]]
  BY DEF Init
<1>3. NoMirror \in [s : 0..MaxSession, grant : 0..MaxGrant] /\ Shared \in Lane
  BY <1>0 DEF NoMirror, Lane
<1>4. object \in [Fence -> Object]
  BY <1>2, <1>3 DEF Object
<1>5. task \in [Task -> Caller] /\ \A t \in Task : task[t] = Idle
  BY <1>1, IdleShaped
<1>6. \A t \in Task : Shaped(task[t]) /\ Marked(task[t].script, used)
  BY <1>5, IdleShaped DEF Marked
<1>7. Objects
  <2>1. \A n \in Fence : ~object[n].given /\ \A e \in Endpoint : object[n].mirrors[e] = NoMirror
    BY <1>2
  <2>2. \A t \in Task : Fenced(task[t], fences, object) /\ ~Opening(task[t])
    BY <1>5, IdleShaped DEF Fenced, Opening
  <2> QED
    BY <2>1, <2>2 DEF Objects
<1>8. IsFiniteSet(used)
  BY <1>1, FS_EmptySet
<1>9. TypeOK
  BY <1>0, <1>1, <1>4, <1>5 DEF TypeOK, Init, Caller
<1> QED
  BY <1>1, <1>6, <1>7, <1>8, <1>9 DEF Inv

\* Every step keeps the invariant, and leaves a success what it is.
LEMMA NextKeeps == Inv /\ [Next]_vars => Keeps
<1> SUFFICES ASSUME Inv, [Next]_vars PROVE Keeps
  OBVIOUS
<1>1. ASSUME NEW t \in Task, Calls(t) \/ Steps(t) \/ Cancel(t) PROVE Keeps
  BY <1>1, CallsKeep, CancelKeeps, RuntimeKeeps, RouterKeeps, CallKeeps, ReturnKeeps, GaveUpKeeps
  DEF Steps, CallStep
<1>2. ASSUME NEW n \in Fence, Expire(n), UNCHANGED facadeVars PROVE Keeps
  BY <1>2, ExpireKeeps
<1>3. CASE World
  BY <1>3, WorldKeeps
<1>4. CASE UNCHANGED vars
  <2>1. UNCHANGED <<edge, agent, wire, excused, task, routerVars, facadeVars>>
    BY <1>4 DEF vars, runtimeVars
  <2>2. /\ LineOK' /\ RouterOK' /\ FacadeOK' /\ wire' \subseteq Request /\ RouterKept /\ fences' \in Nat
    BY <2>1, Unchanged
  <2>3. CallersKeep
    BY <2>1, <2>2, NoCaller
  <2> QED
    BY <2>2, <2>3, Together
<1> QED
  BY <1>1, <1>2, <1>3, <1>4 DEF Next

\* The invariant: types, the shape of every caller, the requests under way, and
\* who knows of a lane object.
THEOREM ControllerInvariant == Spec => []Inv
<1>1. Init => Inv
  BY InvAtFirst
<1>2. Inv /\ [Next]_vars => Inv'
  BY NextKeeps DEF Keeps
<1> QED
  BY <1>1, <1>2, PTL DEF Spec

\* Type correctness, for any number of callers, endpoints, sessions and lanes.
THEOREM ControllerTypeCorrect == Spec => []TypeOK
<1>1. Inv => TypeOK
  BY DEF Inv
<1> QED
  BY <1>1, ControllerInvariant, PTL

\* public_gateway._ephemeral: a call whose operation has succeeded is reported
\* as such, whatever becomes of its lane afterwards.
THEOREM SuccessIsReported == Spec => SuccessStands
<1>1. Inv /\ [Next]_vars => [\A t \in Task : task[t].did => ~task'[t].raised]_vars
  BY NextKeeps DEF Keeps, Kept
<1> QED
  BY <1>1, ControllerInvariant, PTL DEF Spec, SuccessStands

----------------------------------------------------------------------------
(* Whose lane is taken off the table.                                      *)

\* What SuccessorKept asks of a step.
LanesKept ==
    \A l \in Lane : lanes[l] # 0 /\ lanes'[l] # lanes[l] =>
        \/ object[lanes[l]].expired
        \/ \E t \in Task : ~At(t, "idle") /\ task[t].fence = lanes[l] /\ task'[t] # task[t]

\* A caller that has ended its phase is not where it was.
LEMMA AfterMoves ==
    ASSUME Inv, NEW t \in Task, task[t].pc \in {"turn", "wait"}, NEW ok, NEW f,
           task' = [task EXCEPT ![t] = After(t, ok, f)]
    PROVE  task'[t] # task[t]
<1>1. task'[t] = After(t, ok, f)
  BY Callers
<1>2. After(t, ok, f).pc \in {"idle", "begin"}
  BY DEF After, Idle
<1> QED
  BY <1>1, <1>2

\* The end of an operation takes back the entry of its own token, and no other.
LEMMA ConcludesKept ==
    ASSUME Inv, NEW t \in Task, task[t].pc \in {"turn", "wait"}, NEW ok, Concludes(t, ok)
    PROVE  LanesKept
<1>1. lanes' = lanes \/ Forget(t)
  BY DEF Concludes
<1>2. CASE lanes' = lanes
  BY <1>2 DEF LanesKept
<1>3. CASE Forget(t)
  <2>1. lanes \in [Lane -> 0..MaxFence]
    BY Parts DEF RouterOK
  <2>2. \A l \in Lane : lanes'[l] # lanes[l] => l = LaneOf(t) /\ Owns(t)
    BY <1>3, <2>1 DEF Forget
  <2>3. task'[t] # task[t]
    BY AfterMoves DEF Concludes, Ends
  <2> QED
    BY <2>2, <2>3 DEF LanesKept, Owns, At
<1> QED
  BY <1>1, <1>2, <1>3

\* Every step leaves the lanes that are not its own.
LEMMA NextLanes == Inv /\ [Next]_vars => LanesKept
<1> SUFFICES ASSUME Inv, [Next]_vars PROVE LanesKept
  OBVIOUS
<1>0. lanes \in [Lane -> 0..MaxFence]
  BY Parts DEF RouterOK
<1>1. CASE lanes' = lanes
  BY <1>1 DEF LanesKept
<1>2. ASSUME NEW t \in Task, RouterStep(t) PROVE LanesKept
  <2>1. CASE Opens(t)
    <3>1. /\ lanes' = [lanes EXCEPT ![LaneOf(t)] = fences']
          /\ lanes[LaneOf(t)] # 0 => object[lanes[LaneOf(t)]].expired
      BY <2>1 DEF Opens
    <3>2. \A l \in Lane : lanes'[l] # lanes[l] => l = LaneOf(t)
      BY <1>0, <3>1
    <3> QED
      BY <3>1, <3>2 DEF LanesKept
  <2>2. CASE TooLate(t)
    <3>1. /\ lanes' = [lanes EXCEPT ![LaneOf(t)] = 0] /\ lanes[LaneOf(t)] = task[t].fence
          /\ object[task[t].fence].expired
      BY <2>2 DEF TooLate, Owns
    <3>2. \A l \in Lane : lanes'[l] # lanes[l] => l = LaneOf(t)
      BY <1>0, <3>1
    <3> QED
      BY <3>1, <3>2 DEF LanesKept
  <2>3. CASE NoTimeLeft(t) \/ Exhausted(t) \/ NotMirrored(t) \/ Read(t) \/ Broken(t)
    <3>1. task[t].pc \in {"turn", "wait"} /\ \E ok : Concludes(t, ok)
      BY <2>3 DEF NoTimeLeft, Exhausted, NotMirrored, Read, Broken, Answered, Unanswered, At
    <3> QED
      BY <3>1, ConcludesKept
  <2>4. CASE AlreadyActive(t) \/ Unowned(t) \/ Require(t) \/ Acquire(t) \/ Turn(t) \/ Mirrored(t)
             \/ Renewed(t) \/ Closed(t) \/ Lost(t)
    <3>1. lanes' = lanes
      BY <2>4 DEF AlreadyActive, Unowned, Require, Acquire, Turn, Mirrored, Renewed, Closed, Lost,
                  Onward, routerVars
    <3> QED
      BY <1>1, <3>1
  <2> QED
    BY <1>2, <2>1, <2>2, <2>3, <2>4 DEF RouterStep
<1>3. ASSUME NEW t \in Task, Calls(t) PROVE lanes' = lanes
  BY <1>3 DEF Calls, shutdown, lane_open, lane_operation, read_call, write_call, start_process,
              process_operation, release_process, drain, ephemeral, Begins, routerVars
<1>4. ASSUME NEW t \in Task, RuntimeStep(t) \/ CallStep(t) \/ Cancel(t) PROVE lanes' = lanes
  BY <1>4 DEF RuntimeStep, CallStep, HandleGone, Call, NotSent, Again, NothingLeft, Return, GaveUp,
              Cancel, routerVars
<1>5. ASSUME NEW n \in Fence, Expire(n) PROVE lanes' = lanes
  BY <1>5 DEF Expire
<1>6. World \/ UNCHANGED vars => lanes' = lanes
  BY DEF World, vars, routerVars
<1> QED
  BY <1>1, <1>2, <1>3, <1>4, <1>5, <1>6 DEF Next, Steps

\* read_lane.open, _require, close: a logical lane leaves the table by its own
\* expiry, its own close or its own failed open, so that a call that outlived
\* its lane leaves the successor be.
THEOREM SuccessorIsKept == Spec => SuccessorKept
<1>1. Inv /\ [Next]_vars => [LanesKept]_vars
  BY NextLanes
<1> QED
  BY <1>1, ControllerInvariant, PTL DEF Spec, SuccessorKept, LanesKept

----------------------------------------------------------------------------
(* Who answers for a lane the agent holds.                                 *)

\* Waiting for something to be done at some endpoint.
AtIt(t) == task[t].pc \in {"turn", "wait"}

\* A session that is or was the endpoint's, and nobody else's.
Ours(e, s) == s <= made /\ (s \in Open => live[e] = s)

\* Sessions are numbered, each endpoint's its own.
LiveOK ==
    /\ \A e \in Endpoint : live[e] <= made
    /\ \A d, e \in Endpoint : d # e /\ live[d] = live[e] => live[d] = 0

\* The agent's lanes.
HeldOK == \A h \in held : h.grant <= granted

\* A mirror's lane is in the session that the mirror names.
Traced(e, m) ==
    Ours(e, m.s) /\ m.grant <= granted /\ \A h \in held : h.grant = m.grant => h.s = m.s

MirrorsOK == \A n \in Fence, e \in Endpoint : Traced(e, object[n].mirrors[e])

\* The requests of a phase.
OpsOf(do) ==
    CASE do \in Gateway -> {Operation[do]}
      [] do = "r.open"  -> {"open"}
      [] do = "r.read"  -> {"open", "read"}
      [] do = "r.renew" -> {"renew"}
      [] do = "r.close" -> {"close"}
      [] OTHER -> {}

Closing == {"r.close", "close", "release"}

\* The token of the lane that a closing caller wants closed.
Wanted(t) == IF Doing(t) = "r.close" THEN Mirror(t, task[t].at).grant ELSE Token(t)

\* What a caller knows.
Waiting(t) ==
    At(t, "wait") =>
        /\ task[t].op \in OpsOf(Doing(t)) /\ task[t].at \in task[t].todo
        /\ task[t].op # "open" \/ task[t].ans # "ok" => task[t].got = 0
        /\ \A h \in held : h.grant = task[t].got => h.s = task[t].at[2]

Knows(t) ==
    /\ task[t].got <= granted
    /\ task[t].script # <<>> /\ Doing(t) \in Gateway => task[t].fence <= granted

\* A close that was answered has closed.
Gone(t) ==
    At(t, "wait") /\ Doing(t) \in Closing /\ task[t].ans = "ok" =>
        \A h \in held : h.grant # Wanted(t)

\* At work on a lane object: with its lock, over sessions of its endpoints.
Locked(t) ==
    AtIt(t) /\ Doing(t) \in Router =>
        /\ \A link \in task[t].todo : Ours(link[1], link[2])
        /\ Doing(t) # "r.open" => object[task[t].fence].holder = t
        /\ Doing(t) \in {"r.renew", "r.close"} =>
              \A link \in task[t].todo : Mirror(t, link).s = link[2]

\* A close that has nothing unresolved has yet to come to every mirror left.
Closes(t) ==
    AtIt(t) /\ Doing(t) = "r.close" /\ ~task[t].failed =>
        \A e \in Endpoint : object[task[t].fence].mirrors[e] # NoMirror =>
            <<e, object[task[t].fence].mirrors[e].s>> \in task[t].todo

\* A read replaces a mirror only when the controller has dropped its session.
Reads(t) ==
    AtIt(t) /\ Doing(t) = "r.read" =>
        /\ \A a, b \in task[t].todo : a[1] = b[1] => a = b
        /\ \A link \in task[t].todo : Mirror(t, link).s # link[2] => Mirror(t, link).s \notin Open
        /\ At(t, "wait") /\ task[t].op = "open" => Mirror(t, task[t].at).s # task[t].at[2]

Own(t) == Waiting(t) /\ Knows(t) /\ Gone(t) /\ Locked(t) /\ Closes(t) /\ Reads(t)

\* A request whose caller waits.
Delivers(m) ==
    m.t # None =>
        /\ At(m.t, "wait") /\ task[m.t].ans = "none" /\ task[m.t].op = m.op
        /\ LaneOf(m.t) = m.lane /\ task[m.t].at[2] = m.s
        /\ Doing(m.t) \in Closing => m.grant = Wanted(m.t)

WireOK ==
    /\ \A m \in wire : Delivers(m)
    /\ \A m, k \in wire : m.t # None /\ m.t = k.t => m = k

LanesIn(sc) == {sc[i].lane : i \in 1..Len(sc)}

\* A lane that is being started is nobody else's, and no handle's yet.
Starting(s) == s.script # <<>> /\ Head(s.script).do \in {"open", "start"}

Apart ==
    \A t \in Task : Starting(task[t]) =>
        /\ LaneOf(t) \notin handles
        /\ \A u \in Task \ {t} : LaneOf(t) \notin LanesIn(task[u].script)

LeaseOK == \A l \in Private : lease[l] <= granted

Track ==
    /\ LiveOK /\ HeldOK /\ MirrorsOK /\ WireOK /\ Apart /\ LeaseOK
    /\ \A t \in Task : Own(t)

\* Who answers for a lane.
ByMirror(h) == lanes[h.lane] # 0 /\ h.grant \in Tokens(lanes[h.lane])
ByHandle(h) == h.lane \in handles /\ lease[h.lane] = h.grant
ByCall(t, h) ==
    /\ ~At(t, "idle") /\ LaneOf(t) = h.lane
    /\ \/ Doing(t) \in {"call", "start", "close"} /\ task[t].fence = h.grant
       \/ At(t, "wait") /\ task[t].got = h.grant

----------------------------------------------------------------------------
(* Numbers                                                                 *)

\* The numbers of sessions and tokens are numbers.
LEMMA Numbers ==
    ASSUME Inv
    PROVE  /\ made \in Nat /\ granted \in Nat /\ \A e \in Endpoint : live[e] \in Nat
           /\ \A n \in Fence, e \in Endpoint : /\ object[n].mirrors[e].s \in Nat
                                               /\ object[n].mirrors[e].grant \in Nat
           /\ \A l \in Private : lease[l] \in Nat
           /\ \A h \in held : h.s \in Nat \ {0} /\ h.grant \in Nat \ {0} /\ h.lane \in Lane
           /\ \A t \in Task : task[t].got \in Nat /\ task[t].fence \in Nat
           /\ \A t \in Task : task[t].todo \subseteq Link
           /\ \A link \in Link : link[1] \in Endpoint /\ link[2] \in Nat \ {0} /\ link = <<link[1], link[2]>>
<1>1. LineOK /\ FacadeOK /\ MaxSession \in Nat /\ MaxGrant \in Nat /\ MaxFence \in Nat
  BY Parts, BoundAssumption, FenceAssumption
<1>2. made \in Nat /\ granted \in Nat /\ \A e \in Endpoint : live[e] \in Nat
  BY <1>1 DEF LineOK
<1>3. \A n \in Fence, e \in Endpoint : /\ object[n].mirrors[e].s \in Nat
                                       /\ object[n].mirrors[e].grant \in Nat
  BY <1>1, ObjectTyped
<1>4. \A l \in Private : lease[l] \in Nat
  BY <1>1 DEF FacadeOK
<1>5. \A h \in held : h.s \in Nat \ {0} /\ h.grant \in Nat \ {0} /\ h.lane \in Lane
  <2>1. Session \subseteq Nat \ {0} /\ Grant \subseteq Nat \ {0}
    BY <1>1 DEF Session, Grant
  <2> QED
    BY <1>1, <2>1 DEF LineOK, Held
<1>6. ASSUME NEW t \in Task
      PROVE  task[t].got \in Nat /\ task[t].fence \in Nat /\ task[t].todo \subseteq Link
  <2>1. task[t] \in Caller
    BY Callers
  <2>2. task[t].got \in 0..MaxGrant /\ task[t].fence \in 0..MaxFence \cup 0..MaxGrant /\ task[t].todo \subseteq Link
    BY <2>1 DEF Caller, State
  <2> QED
    BY <1>1, <2>2
<1>7. \A link \in Link : link[1] \in Endpoint /\ link[2] \in Nat \ {0} /\ link = <<link[1], link[2]>>
  BY <1>1 DEF Link, Session
<1> QED
  BY <1>2, <1>3, <1>4, <1>5, <1>6, <1>7

\* Sessions that are open have a number, and no session has the number 0.
LEMMA OpenLive == ASSUME NEW s, s \in Open PROVE s # 0 /\ \E e \in Endpoint : live[e] = s
BY DEF Open

\* What a caller's step does to the sessions.
EdgeStep ==
    \/ UNCHANGED <<edge, agent>>
    \/ \E now \in [Endpoint -> 0..MaxSession] : Refresh(now)
    \/ UNCHANGED <<made, agent>> /\ live' = [e \in Endpoint |-> 0]

\* A session that was dropped does not come back, and an endpoint's stays its own.
LEMMA Edges ==
    ASSUME Inv, LiveOK, EdgeStep
    PROVE  /\ LiveOK' /\ made <= made'
           /\ \A s \in Nat : s <= made /\ s \in Open' => s \in Open
           /\ \A e \in Endpoint, s \in Nat : Ours(e, s) => Ours(e, s)'
<1>0. made \in Nat /\ \A e \in Endpoint : live[e] \in Nat
  BY Numbers
<1>1. CASE UNCHANGED <<edge, agent>>
  BY <1>0, <1>1 DEF edge, LiveOK, Ours, Open
<1>2. CASE UNCHANGED <<made, agent>> /\ live' = [e \in Endpoint |-> 0]
  <2>1. Open' = {}
    BY <1>2 DEF Open
  <2> QED
    BY <1>0, <1>2, <2>1 DEF LiveOK, Ours
<1>3. ASSUME NEW now \in [Endpoint -> 0..MaxSession], Refresh(now)
      PROVE  /\ LiveOK' /\ made <= made'
             /\ \A s \in Nat : s <= made /\ s \in Open' => s \in Open
             /\ \A e \in Endpoint, s \in Nat : Ours(e, s) => Ours(e, s)'
  <2> DEFINE New == Connected(now)
  <2>1. live' = now /\ made' = made + Cardinality(New) /\ \A d, e \in New : d # e => now[d] # now[e]
    BY <1>3 DEF Refresh
  <2>2. Cardinality(New) \in Nat
    <3>1. New \in SUBSET Endpoint
      BY DEF Connected
    <3>2. IsFiniteSet(New)
      BY <3>1, EndpointAssumption, FS_Subset
    <3> QED
      BY <3>2, FS_CardinalityType
  <2>3. \A e \in Endpoint : now[e] \in Nat
    BY BoundAssumption
  <2>4. ASSUME NEW e \in Endpoint
        PROVE  /\ now[e] <= made'
               /\ now[e] # 0 /\ e \notin New => now[e] = live[e] /\ now[e] <= made
               /\ e \in New => now[e] > made
    <3>1. Answers(e, now) \/ now[e] \in {0} \cup (made + 1)..(made + Cardinality(New))
      BY <1>3 DEF Refresh
    <3>2. live[e] <= made /\ live[e] \in Nat
      BY <1>0 DEF LiveOK
    <3> HIDE DEF New
    <3>3. now[e] <= made'
      BY <1>0, <2>1, <2>2, <2>3, <3>1, <3>2 DEF Answers
    <3>4. e \in New <=> now[e] > made
      BY DEF New, Connected
    <3> QED
      BY <1>0, <2>2, <2>3, <3>1, <3>2, <3>3, <3>4 DEF Answers
  <2>5. ASSUME NEW d \in Endpoint, NEW e \in Endpoint, d # e, now[d] = now[e] PROVE now[d] = 0
    BY <1>0, <2>1, <2>3, <2>4, <2>5 DEF LiveOK
  <2>6. LiveOK' /\ made <= made'
    BY <1>0, <2>1, <2>2, <2>4, <2>5 DEF LiveOK
  <2>7. ASSUME NEW s \in Nat, s <= made, s \in Open' PROVE s \in Open /\ \E d \in Endpoint : now[d] = s /\ live[d] = s
    <3>1. PICK d \in Endpoint : now[d] = s /\ s # 0
      BY <2>1, <2>7 DEF Open
    <3>2. d \notin New
      BY <1>0, <2>4, <2>7, <3>1
    <3> QED
      BY <2>4, <3>1, <3>2 DEF Open
  <2>8. ASSUME NEW e \in Endpoint, NEW s \in Nat, Ours(e, s) PROVE Ours(e, s)'
    <3>1. s <= made'
      BY <1>0, <2>1, <2>2, <2>8 DEF Ours
    <3>2. ASSUME s \in Open' PROVE live'[e] = s
      <4>1. s \in Open /\ \E d \in Endpoint : now[d] = s /\ live[d] = s
        BY <2>7, <2>8, <3>2 DEF Ours
      <4>2. live[e] = s /\ s # 0
        BY <2>8, <4>1, OpenLive DEF Ours
      <4> QED
        BY <2>1, <4>1, <4>2 DEF LiveOK
    <3> QED
      BY <3>1, <3>2 DEF Ours
  <2> QED
    BY <2>6, <2>7, <2>8
<1> QED
  BY <1>1, <1>2, <1>3 DEF EdgeStep

\* The agent's lanes stay as they are.
LEMMA EdgesAgent ==
    ASSUME Track, EdgeStep
    PROVE  held' = held /\ granted' = granted /\ HeldOK'
<1>1. held' = held /\ granted' = granted
  BY DEF EdgeStep, Refresh, agent
<1> QED
  BY <1>1 DEF Track, HeldOK

----------------------------------------------------------------------------
(* What a step of one caller leaves to the others.                         *)

Spares(t) ==
    \A u \in Task \ {t} :
        /\ task'[u] = task[u]
        /\ AtIt(u) /\ Doing(u) \in Router \ {"r.open"} =>
              /\ object'[task[u].fence].mirrors = object[task[u].fence].mirrors
              /\ object'[task[u].fence].holder = object[task[u].fence].holder
        /\ task[u].script # <<>> /\ Doing(u) = "release" => lease'[LaneOf(u)] = lease[LaneOf(u)]

\* A step that changes an object whose lock is free or the caller's, or that no
\* other caller knows, or that leaves the mirrors and the lock alone.
LEMMA SparesObject ==
    ASSUME Inv, Track, NEW t \in Task, NEW x, task' = [task EXCEPT ![t] = x],
           \A u \in Task \ {t} : task[u].script # <<>> /\ Doing(u) = "release" =>
               lease'[LaneOf(u)] = lease[LaneOf(u)],
           \/ object' = object
           \/ \E n \in Fence, o \in Object :
                 /\ object' = [object EXCEPT ![n] = o]
                 /\ \/ object[n].holder \in {t, None}
                    \/ ~object[n].given
                    \/ o.mirrors = object[n].mirrors /\ o.holder = object[n].holder
    PROVE  Spares(t)
<1> SUFFICES ASSUME NEW u \in Task \ {t}, AtIt(u), Doing(u) \in Router \ {"r.open"}
             PROVE  /\ object'[task[u].fence].mirrors = object[task[u].fence].mirrors
                    /\ object'[task[u].fence].holder = object[task[u].fence].holder
  BY Callers DEF Spares
<1>1. task[u].fence \in Fence /\ object[task[u].fence].given
  BY AtWork DEF AtIt
<1>2. object[task[u].fence].holder = u
  BY DEF Track, Own, Locked
<1>3. object \in [Fence -> Object]
  BY Parts DEF RouterOK
<1>4. ASSUME NEW n \in Fence, NEW o \in Object, object' = [object EXCEPT ![n] = o],
             \/ object[n].holder \in {t, None}
             \/ ~object[n].given
             \/ o.mirrors = object[n].mirrors /\ o.holder = object[n].holder
      PROVE  /\ object'[task[u].fence].mirrors = object[task[u].fence].mirrors
             /\ object'[task[u].fence].holder = object[task[u].fence].holder
  <2>1. u # t /\ u # None
    BY NoneAssumption
  <2>2. CASE n = task[u].fence
    BY <1>1, <1>2, <1>3, <1>4, <2>1, <2>2
  <2>3. CASE n # task[u].fence
    BY <1>1, <1>3, <1>4, <2>3
  <2> QED
    BY <2>2, <2>3
<1> QED
  BY <1>4

\* The other callers go on as they were.
LEMMA OthersOwn ==
    ASSUME Inv, Track, EdgeStep, NEW t \in Task, Spares(t), NEW u \in Task \ {t}
    PROVE  /\ Own(u)' /\ (At(u, "wait") /\ Doing(u) \in Closing => Wanted(u)' = Wanted(u))
<1>1. /\ task'[u] = task[u] /\ Own(u) /\ held' \subseteq held /\ granted' = granted
      /\ Doing(u)' = Doing(u) /\ LaneOf(u)' = LaneOf(u) /\ \A pc : At(u, pc)' = At(u, pc)
  BY EdgesAgent DEF Spares, Track, Doing, LaneOf, At
<1>2. AtIt(u) /\ Doing(u) \in Router => task[u].fence \in Fence
  BY AtWork DEF AtIt
<1>3. AtIt(u) /\ Doing(u) \in Router \ {"r.open"} => \A link : Mirror(u, link)' = Mirror(u, link)
  BY <1>1 DEF Mirror, Spares
<1>4. At(u, "wait") => AtIt(u) /\ task[u].script # <<>>
  BY UnderWay DEF At, AtIt
<1>5. At(u, "wait") /\ Doing(u) \in Closing => Wanted(u)' = Wanted(u)
  <2>1. CASE Doing(u) = "r.close"
    BY <1>1, <1>3, <1>4, <2>1 DEF Wanted, Router
  <2>2. CASE Doing(u) = "close"
    BY <1>1, <2>2 DEF Wanted, Token
  <2>3. CASE Doing(u) = "release"
    BY <1>1, <1>4, <2>3 DEF Wanted, Token, Spares
  <2> QED
    BY <2>1, <2>2, <2>3 DEF Closing
<1>6. Waiting(u)' /\ Knows(u)' /\ Gone(u)'
  <2>1. Waiting(u)'
    BY <1>1 DEF Own, Waiting
  <2>2. Knows(u)'
    BY <1>1 DEF Own, Knows
  <2>3. Gone(u)'
    BY <1>1, <1>5 DEF Own, Gone
  <2> QED
    BY <2>1, <2>2, <2>3
<1>7. Locked(u)'
  <2>1. \A link \in task[u].todo : link[1] \in Endpoint /\ link[2] \in Nat
    BY Numbers
  <2>2. AtIt(u) /\ Doing(u) \in Router => \A link \in task[u].todo : Ours(link[1], link[2])'
    BY <1>1, <2>1, Edges DEF Own, Locked, Track
  <2> SUFFICES ASSUME AtIt(u), Doing(u) \in Router PROVE Locked(u)'
    BY <1>1 DEF Locked, AtIt
  <2>3. Locked(u)
    BY DEF Own, Track
  <2>4. Doing(u) # "r.open" => object'[task[u].fence].holder = u
    BY <2>3 DEF Locked, Spares
  <2>5. Doing(u) \in {"r.renew", "r.close"} => \A link \in task[u].todo : Mirror(u, link)'.s = link[2]
    BY <1>3, <2>3 DEF Locked
  <2> QED
    BY <1>1, <2>2, <2>4, <2>5 DEF Locked
<1>8. Closes(u)'
  <2> SUFFICES ASSUME AtIt(u), Doing(u) = "r.close" PROVE Closes(u)'
    BY <1>1 DEF Closes, AtIt
  <2>1. object'[task[u].fence].mirrors = object[task[u].fence].mirrors
    BY DEF Spares, Router
  <2> QED
    BY <1>1, <2>1 DEF Own, Closes, AtIt
<1>9. Reads(u)'
  <2> SUFFICES ASSUME AtIt(u), Doing(u) = "r.read" PROVE Reads(u)'
    BY <1>1 DEF Reads, AtIt
  <2>1. ASSUME NEW link \in task[u].todo, Mirror(u, link).s \notin Open PROVE Mirror(u, link).s \notin Open'
    <3>1. link[1] \in Endpoint /\ task[u].fence \in Fence
      BY <1>2, Numbers DEF Router
    <3>2. Mirror(u, link).s \in Nat /\ Mirror(u, link).s <= made
      BY <3>1, Numbers DEF Mirror, Track, MirrorsOK, Traced, Ours
    <3> QED
      BY <2>1, <3>2, Edges DEF Track
  <2> QED
    BY <1>1, <1>3, <2>1 DEF Own, Reads, AtIt, Router
<1> QED
  BY <1>5, <1>6, <1>7, <1>8, <1>9 DEF Own

\* Mirrors that stay are what they were, and one that is dropped is none.
LEMMA FewerMirrors ==
    ASSUME Inv, Track, EdgeStep,
           \A n \in Fence, e \in Endpoint : object'[n].mirrors[e] \in {object[n].mirrors[e], NoMirror}
    PROVE  MirrorsOK'
<1>1. /\ held' \subseteq held /\ granted' = granted /\ granted \in Nat /\ made \in Nat /\ made <= made'
      /\ \A h \in held : h.grant \in Nat \ {0}
      /\ \A e \in Endpoint, s \in Nat : Ours(e, s) => Ours(e, s)'
  BY EdgesAgent, Edges, Numbers DEF Track
<1>2. ASSUME NEW n \in Fence, NEW e \in Endpoint PROVE Traced(e, object[n].mirrors[e])'
  <2>1. PICK m : m = object'[n].mirrors[e]
    OBVIOUS
  <2>2. m.s \in Nat /\ m.grant \in Nat /\ Traced(e, m)
    <3>1. CASE m = object[n].mirrors[e]
      BY <3>1, Numbers DEF Track, MirrorsOK
    <3>2. CASE m = NoMirror
      <4>1. m.s = 0 /\ m.grant = 0
        BY <3>2 DEF NoMirror
      <4>2. 0 \notin Open
        BY OpenLive
      <4> QED
        BY <1>1, <4>1, <4>2 DEF Traced, Ours
    <3> QED
      BY <2>1, <3>1, <3>2
  <2>3. Ours(e, m.s)' /\ m.grant <= granted' /\ \A h \in held' : h.grant = m.grant => h.s = m.s
    BY <1>1, <2>2 DEF Traced
  <2> QED
    BY <2>1, <2>3 DEF Traced, Ours
<1> QED
  BY <1>2 DEF MirrorsOK

\* A request of another caller stays that caller's.
LEMMA OthersDeliver ==
    ASSUME Inv, Track, EdgeStep, NEW t \in Task, Spares(t), NEW m \in wire, m.t # t
    PROVE  Delivers(m)'
<1>1. Delivers(m)
  BY DEF Track, WireOK
<1>2. CASE m.t = None
  BY <1>2 DEF Delivers
<1>3. CASE m.t # None
  <2>1. m.t \in Task \ {t}
    BY <1>3, Parts DEF Request
  <2>2. task'[m.t] = task[m.t]
    BY <2>1 DEF Spares
  <2>3. At(m.t, "wait") /\ Doing(m.t) \in Closing => Wanted(m.t)' = Wanted(m.t)
    BY <2>1, OthersOwn
  <2> QED
    BY <1>1, <1>3, <2>2, <2>3 DEF Delivers, At, Doing, LaneOf
<1> QED
  BY <1>2, <1>3

\* Requests that stay are those of callers that still wait.
LEMMA WireKept ==
    ASSUME Inv, Track, EdgeStep, NEW t \in Task, Spares(t),
           \A m \in wire' : m.t # t /\ (m \in wire \/ m.t = None)
    PROVE  WireOK'
<1>1. ASSUME NEW m \in wire' PROVE Delivers(m)'
  <2>1. CASE m \in wire
    BY <2>1, OthersDeliver
  <2>2. CASE m.t = None
    BY <2>2 DEF Delivers
  <2> QED
    BY <2>1, <2>2
<1>2. \A m, k \in wire' : m.t # None /\ m.t = k.t => m = k
  BY DEF Track, WireOK
<1> QED
  BY <1>1, <1>2 DEF WireOK

\* A caller that does not wait has no request under way, and one that stops
\* waiting leaves none in its name.
LEMMA WireQuiet ==
    ASSUME Inv, Track, EdgeStep, NEW t \in Task, Spares(t),
           \/ wire' = Leaves(t) /\ UNCHANGED <<edge, agent>>
           \/ wire' \subseteq wire /\ ~Unanswered(t) /\ (task[t].pc # "wait" \/ task[t].ans # "none")
    PROVE  WireOK'
<1>0. None # t
  BY NoneAssumption
<1>1. CASE wire' = Leaves(t) /\ UNCHANGED <<edge, agent>>
  <2>1. \A m \in wire : [m EXCEPT !.t = None].t = None
    BY Parts DEF Request
  <2>2. ASSUME NEW m \in wire' PROVE m.t # t /\ (m \in wire \/ m.t = None)
    <3>1. PICK k \in wire : m = IF k.t = t THEN [k EXCEPT !.t = None] ELSE k
      BY <1>1 DEF Leaves
    <3> QED
      BY <1>0, <2>1, <3>1
  <2> QED
    BY <2>2, WireKept
<1>2. CASE wire' \subseteq wire /\ (task[t].pc # "wait" \/ task[t].ans # "none")
  <2>1. \A m \in wire : m.t # t
    BY <1>0, <1>2 DEF Track, WireOK, Delivers, At
  <2> QED
    BY <1>2, <2>1, WireKept
<1> QED
  BY <1>1, <1>2

\* A caller at rest between its requests, or one of the gateway's.
LEMMA OwnAtRest ==
    ASSUME NEW t \in Task, NEW x, task'[t] = x, x.pc # "wait",
           x.pc = "turn" => Head(x.script).do \notin Router,
           x.got <= granted', x.script # <<>> /\ Head(x.script).do \in Gateway => x.fence <= granted'
    PROVE  Own(t)'
<1>1. task'[t].pc # "wait" /\ ~At(t, "wait")' /\ (AtIt(t)' => Doing(t)' \notin Router) /\ Doing(t)' = Head(x.script).do
  BY DEF At, AtIt, Doing
<1>2. Waiting(t)' /\ Gone(t)' /\ Locked(t)' /\ Closes(t)' /\ Reads(t)'
  BY <1>1 DEF Waiting, Gone, Locked, Closes, Reads, Router
<1>3. Knows(t)'
  BY <1>1 DEF Knows
<1> QED
  BY <1>2, <1>3 DEF Own

\* A step of one caller.
LEMMA StepTracks ==
    ASSUME Inv, Track, EdgeStep, NEW t \in Task, Spares(t), Own(t)', MirrorsOK', WireOK', Apart', LeaseOK'
    PROVE  Track'
<1>1. LiveOK' /\ HeldOK'
  BY Edges, EdgesAgent DEF Track
<1>2. \A u \in Task : Own(u)'
  BY OthersOwn
<1> QED
  BY <1>1, <1>2 DEF Track

----------------------------------------------------------------------------
(* Scripts and lanes                                                       *)

\* What an opening or an operation leaves to be done is about its lane.
LEMMA ScriptNext ==
    ASSUME NEW sc, Script(sc), sc # <<>>
    PROVE  /\ Head(sc).do = "open" => /\ Tail(sc) # <<>> /\ Head(Tail(sc)).do \in {"call", "start"}
                                      /\ Head(Tail(sc)).lane = Head(sc).lane
           /\ Head(sc).do = "call" => /\ Tail(sc) # <<>> /\ Head(Tail(sc)).do = "close"
                                      /\ Head(Tail(sc)).lane = Head(sc).lane
           /\ Tail(sc) # <<>> /\ Head(Tail(sc)).do \in {"open", "start"} =>
                 Head(sc).do = "open" /\ Head(Tail(sc)).lane = Head(sc).lane
<1> DEFINE Release == [do : {"release"}, lane : Private]
<1>1. CASE sc \in Seq(Release)
  <2> HIDE DEF Release
  <2>1. Head(sc) \in Release /\ Tail(sc) \in Seq(Release)
    BY <1>1, HeadTail
  <2>2. Tail(sc) # <<>> => Head(Tail(sc)) \in Release
    BY <2>1, HeadTail
  <2> USE DEF Release
  <2> QED
    BY <2>1, <2>2
<1>2. ASSUME NEW do, NEW l, sc = <<Do(do, l)>>, do \notin {"open", "call"}
      PROVE  Head(sc).do \notin {"open", "call"} /\ Tail(sc) = <<>>
  BY <1>2, Singles DEF Do
<1>3. ASSUME NEW a, NEW b, NEW l, sc = <<Do(a, l), Do(b, l)>>
      PROVE  /\ Head(sc).do = a /\ Head(sc).lane = l /\ Tail(sc) # <<>>
             /\ Head(Tail(sc)).do = b /\ Head(Tail(sc)).lane = l
  BY <1>3, Pairs, Singles DEF Do
<1>4. ASSUME NEW a, NEW b, NEW c, NEW l, sc = <<Do(a, l), Do(b, l), Do(c, l)>>
      PROVE  /\ Head(sc).do = a /\ Head(sc).lane = l /\ Tail(sc) # <<>>
             /\ Head(Tail(sc)).do = b /\ Head(Tail(sc)).lane = l
  <2>1. Head(sc) = Do(a, l) /\ Tail(sc) = <<Do(b, l), Do(c, l)>>
    BY <1>4
  <2>2. Tail(sc) # <<>> /\ Head(Tail(sc)) = Do(b, l)
    BY <2>1, Pairs
  <2> QED
    BY <2>1, <2>2 DEF Do
<1>5. Router \cup {"shutdown"} = {"r.open", "r.renew", "r.read", "r.close", "shutdown"}
  BY DEF Router
<1> HIDE DEF Release
<1>6. CASE \E do \in Router \cup {"shutdown"} : sc = <<Do(do, Shared)>>
  BY <1>2, <1>5, <1>6
<1>7. ASSUME NEW l \in Private,
          \/ sc = <<Do("r.open", l), Do("r.read", l), Do("r.close", l)>>
          \/ sc = <<Do("open", l), Do("call", l), Do("close", l)>>
      PROVE  /\ Head(sc).do = "open" => /\ Tail(sc) # <<>> /\ Head(Tail(sc)).do \in {"call", "start"}
                                        /\ Head(Tail(sc)).lane = Head(sc).lane
             /\ Head(sc).do # "call"
             /\ Head(Tail(sc)).do \notin {"open", "start"}
  BY <1>4, <1>7
<1>8. ASSUME NEW l \in Private,
          \/ sc = <<Do("r.read", l), Do("r.close", l)>>
          \/ sc = <<Do("call", l), Do("close", l)>>
          \/ sc = <<Do("open", l), Do("start", l)>>
      PROVE  /\ Head(sc).do = "open" => /\ Tail(sc) # <<>> /\ Head(Tail(sc)).do \in {"call", "start"}
                                        /\ Head(Tail(sc)).lane = Head(sc).lane
             /\ Head(sc).do = "call" => /\ Tail(sc) # <<>> /\ Head(Tail(sc)).do = "close"
                                        /\ Head(Tail(sc)).lane = Head(sc).lane
             /\ Tail(sc) # <<>> /\ Head(Tail(sc)).do \in {"open", "start"} =>
                   Head(sc).do = "open" /\ Head(Tail(sc)).lane = Head(sc).lane
  BY <1>3, <1>8
<1>9. ASSUME NEW l \in Private,
          \/ sc = <<Do("r.close", l)>> \/ sc = <<Do("close", l)>> \/ sc = <<Do("start", l)>>
          \/ sc = <<Do("status", l)>> \/ sc = <<Do("input", l)>>
      PROVE  Head(sc).do \notin {"open", "call"} /\ Tail(sc) = <<>>
  BY <1>2, <1>9
<1> QED
  BY <1>1, <1>6, <1>7, <1>8, <1>9 DEF Script, Release

\* The lanes of what is left of a script.
LEMMA LanesLeft ==
    ASSUME NEW sc, Script(sc)
    PROVE  /\ LanesIn(<<>>) = {}
           /\ \A l : LanesIn(<<[do |-> "close", lane |-> l]>>) = {l}
           /\ sc # <<>> => Head(sc).lane \in LanesIn(sc) /\ LanesIn(Tail(sc)) \subseteq LanesIn(sc)
<1>1. LanesIn(<<>>) = {}
  BY DEF LanesIn
<1>2. ASSUME NEW l PROVE LanesIn(<<[do |-> "close", lane |-> l]>>) = {l}
  BY DEF LanesIn
<1>3. ASSUME sc # <<>> PROVE Head(sc).lane \in LanesIn(sc) /\ LanesIn(Tail(sc)) \subseteq LanesIn(sc)
  <2>1. sc \in Seq(Phase) /\ Len(sc) \in Nat \ {0}
    BY <1>3, Scripts
  <2>2. Head(sc) = sc[1] /\ Len(Tail(sc)) = Len(sc) - 1
        /\ \A i \in 1..(Len(sc) - 1) : Tail(sc)[i] = sc[i + 1]
    BY <2>1
  <2>3. Head(sc).lane \in LanesIn(sc)
    BY <2>1, <2>2 DEF LanesIn
  <2>4. ASSUME NEW i \in 1..Len(Tail(sc)) PROVE Tail(sc)[i].lane \in LanesIn(sc)
    <3>1. i \in 1..(Len(sc) - 1) /\ i + 1 \in 1..Len(sc)
      BY <2>1, <2>2
    <3> QED
      BY <2>2, <3>1 DEF LanesIn
  <2> QED
    BY <2>3, <2>4 DEF LanesIn
<1> QED
  BY <1>1, <1>2, <1>3

\* A caller that goes on with its script is alone with a lane that is being
\* started, as it was; a handle that is new names a lane of its script.
LEMMA ApartKept ==
    ASSUME Inv, Track, NEW t \in Task, NEW x, task' = [task EXCEPT ![t] = x],
           LanesIn(x.script) \subseteq LanesIn(task[t].script),
           Starting(x) => /\ Starting(task[t]) /\ Head(x.script).lane = LaneOf(t)
                          /\ handles' \subseteq handles,
           handles' \subseteq handles \cup LanesIn(task[t].script)
    PROVE  Apart'
<1>1. task'[t] = x /\ \A u \in Task \ {t} : task'[u] = task[u]
  BY Callers
<1>2. \A u \in Task : Starting(task[u]) =>
        /\ LaneOf(u) \notin handles
        /\ \A v \in Task \ {u} : LaneOf(u) \notin LanesIn(task[v].script)
  BY DEF Track, Apart
<1>3. ASSUME NEW u \in Task, Starting(task'[u])
      PROVE  /\ LaneOf(u)' \notin handles'
             /\ \A v \in Task \ {u} : LaneOf(u)' \notin LanesIn(task'[v].script)
  <2>1. CASE u = t
    <3>1. LaneOf(u)' = LaneOf(t) /\ Starting(task[t]) /\ handles' \subseteq handles
      BY <1>1, <1>3, <2>1 DEF LaneOf
    <3> QED
      BY <1>1, <1>2, <2>1, <3>1
  <2>2. CASE u # t
    <3>1. LaneOf(u)' = LaneOf(u) /\ Starting(task[u])
      BY <1>1, <1>3, <2>2 DEF LaneOf
    <3> QED
      BY <1>1, <1>2, <2>2, <3>1
  <2> QED
    BY <2>1, <2>2
<1> QED
  BY <1>3 DEF Apart, Starting, LanesIn

\* The caller when its phase has ended.
LEMMA AfterFacts ==
    ASSUME Inv, NEW t \in Task, task[t].pc # "idle", NEW ok, NEW f, NEW x, x = After(t, ok, f)
    PROVE  /\ x.pc \in {"idle", "begin"} /\ x.got = 0
           /\ x.pc = "begin" <=> Rest(t, ok) # <<>>
           /\ x.script = Rest(t, ok)
           /\ x.script # <<>> => x.fence = f
           /\ LanesIn(x.script) \subseteq LanesIn(task[t].script)
           /\ Starting(x) => Starting(task[t]) /\ Head(x.script).lane = LaneOf(t)
           /\ x.script # <<>> /\ Head(x.script).do \in Gateway => Doing(t) \in Gateway
<1>1. task[t].script # <<>> /\ Script(task[t].script)
  BY UnderWay DEF Shaped
<1>2. CASE Rest(t, ok) = <<>>
  <2>1. x.pc = "idle" /\ x.got = 0 /\ x.script = <<>>
    BY <1>2, IdleShaped DEF After, Caller, State
  <2> QED
    BY <1>1, <1>2, <2>1, LanesLeft DEF Starting
<1>3. CASE Rest(t, ok) # <<>>
  <2>1. x.pc = "begin" /\ x.got = 0 /\ x.script = Rest(t, ok) /\ x.fence = f
    BY <1>3, IdleShaped DEF After, Caller, State
  <2>2. CASE Doing(t) = "start"
    <3>1. x.script = <<[do |-> "close", lane |-> LaneOf(t)]>>
      BY <1>3, <2>1, <2>2 DEF Rest
    <3>2. Head(x.script).do = "close"
      BY <3>1, Singles
    <3>3. LanesIn(x.script) = {LaneOf(t)} /\ LaneOf(t) \in LanesIn(task[t].script)
      BY <1>1, <3>1, LanesLeft DEF LaneOf
    <3> QED
      BY <1>3, <2>1, <2>2, <3>2, <3>3 DEF Starting, Gateway
  <2>3. CASE Doing(t) # "start"
    <3>1. x.script = Tail(task[t].script)
      BY <1>3, <2>1, <2>3 DEF Rest
    <3>2. LanesIn(x.script) \subseteq LanesIn(task[t].script)
      BY <1>1, <3>1, LanesLeft
    <3>3. Starting(x) => Starting(task[t]) /\ Head(x.script).lane = LaneOf(t)
      BY <1>1, <3>1, ScriptNext DEF Starting, LaneOf
    <3>4. Continues(task[t].script) /\ Doing(t) \in Router \cup Gateway \cup {"shutdown"}
      BY <1>1, Scripts, UnderWay
    <3>5. Head(x.script).do \in Gateway => Doing(t) \in Gateway
      BY <1>3, <2>1, <3>1, <3>4 DEF Continues, Doing, Router, Gateway
    <3> QED
      BY <1>3, <2>1, <3>2, <3>3, <3>5
  <2> QED
    BY <2>2, <2>3
<1> QED
  BY <1>2, <1>3

\* What a step of t may do to a lane object.
Touches(t) ==
    \/ object' = object
    \/ \E n \in Fence, o \in Object :
          /\ object' = [object EXCEPT ![n] = o]
          /\ \/ object[n].holder \in {t, None}
             \/ ~object[n].given
             \/ o.mirrors = object[n].mirrors /\ o.holder = object[n].holder

SameMirrors == \A n \in Fence : object'[n].mirrors = object[n].mirrors

\* What it may do to the wire when it asks for nothing.
Asksnot(t) ==
    \/ wire' = Leaves(t) /\ UNCHANGED <<edge, agent>>
    \/ wire' \subseteq wire /\ (task[t].pc # "wait" \/ task[t].ans # "none")

\* A step of t that ends or moves within its phase and asks for nothing.
LEMMA QuietTracks ==
    ASSUME Inv, Track, EdgeStep, NEW t \in Task, NEW x, task' = [task EXCEPT ![t] = x],
           x.pc # "wait", x.pc = "turn" => Head(x.script).do \notin Router,
           x.got <= granted, x.script # <<>> /\ Head(x.script).do \in Gateway => x.fence <= granted,
           LanesIn(x.script) \subseteq LanesIn(task[t].script),
           Starting(x) => Starting(task[t]) /\ Head(x.script).lane = LaneOf(t),
           Touches(t), SameMirrors, Asksnot(t), UNCHANGED facadeVars
    PROVE  Track'
<1>1. UNCHANGED <<handles, lease>> /\ granted' = granted /\ task'[t] = x
  BY EdgesAgent, Callers DEF facadeVars, leases
<1>2. Spares(t)
  BY <1>1, SparesObject DEF Touches
<1>3. MirrorsOK'
  BY FewerMirrors DEF SameMirrors
<1>4. WireOK'
  BY <1>2, WireQuiet DEF Asksnot, Unanswered, At
<1>5. Own(t)'
  BY <1>1, OwnAtRest
<1>6. Apart'
  BY <1>1, ApartKept
<1>7. LeaseOK'
  BY <1>1 DEF Track, LeaseOK
<1> QED
  BY <1>2, <1>3, <1>4, <1>5, <1>6, <1>7, StepTracks

\* The phase of t ends.
LEMMA EndTracks ==
    ASSUME Inv, Track, EdgeStep, NEW t \in Task, task[t].pc # "idle", NEW ok, NEW f,
           task' = [task EXCEPT ![t] = After(t, ok, f)],
           Doing(t) \in Gateway => f <= granted,
           Touches(t), SameMirrors, Asksnot(t), UNCHANGED facadeVars
    PROVE  Track'
<1> DEFINE x == After(t, ok, f)
<1>1. /\ x.pc \in {"idle", "begin"} /\ x.got = 0
      /\ x.script # <<>> => x.fence = f
      /\ LanesIn(x.script) \subseteq LanesIn(task[t].script)
      /\ Starting(x) => Starting(task[t]) /\ Head(x.script).lane = LaneOf(t)
      /\ x.script # <<>> /\ Head(x.script).do \in Gateway => Doing(t) \in Gateway
  BY AfterFacts
<1>2. x.got <= granted
  BY <1>1, Numbers
<1>3. task' = [task EXCEPT ![t] = x]
  OBVIOUS
<1> HIDE DEF x
<1> QED
  BY <1>1, <1>2, <1>3, QuietTracks

\* The lock is let go.
LEMMA ReleasedTouches ==
    ASSUME Inv, NEW t \in Task, task[t].fence \in Fence, object' = Released(t)
    PROVE  Touches(t) /\ SameMirrors
<1> DEFINE n == task[t].fence
           o == [object[n] EXCEPT !.holder = None]
<1>1. object \in [Fence -> Object] /\ object[n] \in Object
  BY Parts DEF RouterOK
<1>2. CASE object[n].holder = t
  <2>1. object' = [object EXCEPT ![n] = o]
    BY <1>1, <1>2 DEF Released
  <2>2. o \in Object /\ o.mirrors = object[n].mirrors
    BY <1>1 DEF Object
  <2> HIDE DEF o
  <2> QED
    BY <1>1, <1>2, <2>1, <2>2 DEF Touches, SameMirrors
<1>3. CASE object[n].holder # t
  BY <1>3 DEF Released, Touches, SameMirrors
<1> QED
  BY <1>2, <1>3

\* Nothing happens to the objects.
LEMMA Untouched ==
    ASSUME NEW t \in Task, object' = object PROVE Touches(t) /\ SameMirrors
BY DEF Touches, SameMirrors

----------------------------------------------------------------------------
(* The steps that ask for nothing.                                         *)

\* No phase is both the router's and the gateway's.
LEMMA NotBoth == \A do \in Router : do \notin Gateway
BY DEF Router, Gateway

\* ensure_started, its failure, and the end of the service.
LEMMA RuntimeTracks ==
    ASSUME Inv, Track, NEW t \in Task, RuntimeStep(t)
    PROVE  Track' /\ EdgeStep
<1>1. task[t].pc = "begin" /\ object' = object /\ UNCHANGED facadeVars
  BY DEF RuntimeStep, routerVars, At
<1>2. /\ task[t] \in Caller /\ Own(t) /\ Touches(t) /\ SameMirrors
  BY <1>1, UnderWay, Untouched DEF Track
<1>3. CASE ensure_started(t)
  <2>1. PICK now \in [Endpoint -> 0..MaxSession] : Refresh(now)
    BY <1>3 DEF ensure_started
  <2>2. EdgeStep /\ wire' \subseteq wire
    BY <2>1 DEF EdgeStep, Refresh
  <2> DEFINE x == [task[t] EXCEPT !.pc = "enter"]
  <2>3. x.pc = "enter" /\ x.script = task[t].script /\ x.got = task[t].got /\ x.fence = task[t].fence
    BY <1>2 DEF Caller, State
  <2>4. task' = [task EXCEPT ![t] = x]
    BY <1>3 DEF ensure_started
  <2> HIDE DEF x
  <2>5. Asksnot(t)
    BY <1>1, <2>2 DEF Asksnot
  <2> QED
    BY <1>1, <1>2, <2>2, <2>3, <2>4, <2>5, QuietTracks DEF Own, Knows, Doing, LaneOf, Starting
<1>4. CASE NotStarted(t)
  <2>1. [e \in Endpoint |-> 0] \in [Endpoint -> 0..MaxSession]
    BY BoundAssumption
  <2>2. EdgeStep /\ wire' \subseteq wire
    BY <1>4, <2>1 DEF NotStarted, EdgeStep, Refresh
  <2>3. Asksnot(t)
    BY <1>1, <2>2 DEF Asksnot
  <2>4. task' = [task EXCEPT ![t] = After(t, FALSE, task[t].fence)]
    BY <1>4 DEF NotStarted, Ends
  <2>5. Doing(t) \in Gateway => task[t].fence <= granted
    BY <1>1, <1>2, UnderWay DEF Own, Knows
  <2> QED
    BY <1>1, <1>2, <2>2, <2>3, <2>4, <2>5, EndTracks
<1>5. CASE Shutdown(t)
  <2>1. EdgeStep /\ wire' \subseteq wire
    BY <1>5 DEF Shutdown, EdgeStep, agent
  <2>2. Asksnot(t)
    BY <1>1, <2>1 DEF Asksnot
  <2>3. task' = [task EXCEPT ![t] = Idle]
    BY <1>5 DEF Shutdown
  <2>4. Idle.pc = "idle" /\ Idle.script = <<>> /\ Idle.got <= granted /\ ~Starting(Idle)
    BY IdleShaped, Numbers DEF Starting
  <2>5. LanesIn(<<>>) = {}
    BY <1>2, LanesLeft, UnderWay DEF Script
  <2> QED
    BY <1>1, <1>2, <2>1, <2>2, <2>3, <2>4, <2>5, QuietTracks
<1> QED
  BY <1>3, <1>4, <1>5 DEF RuntimeStep

\* The operations that end before they have the lock.
LEMMA RequireTracks ==
    ASSUME Inv, Track, NEW t \in Task, AlreadyActive(t) \/ Unowned(t) \/ TooLate(t) \/ Require(t),
           UNCHANGED facadeVars
    PROVE  Track'
<1>1. /\ task[t].pc \in {"enter", "lock"} /\ Doing(t) \in Router
      /\ UNCHANGED <<edge, agent, wire>> /\ object' = object
  BY DEF AlreadyActive, Unowned, TooLate, Require, AtRequire, At, Router, routerVars
<1>2. EdgeStep /\ Asksnot(t) /\ Touches(t) /\ SameMirrors
  BY <1>1, Untouched DEF EdgeStep, Asksnot
<1>3. CASE Require(t)
  <2> DEFINE x == [task[t] EXCEPT !.pc = "lock"]
  <2>1. task[t] \in Caller /\ Own(t)
    BY <1>1, UnderWay DEF Track
  <2>2. x.pc = "lock" /\ x.script = task[t].script /\ x.got = task[t].got /\ x.fence = task[t].fence
    BY <2>1 DEF Caller, State
  <2>3. task' = [task EXCEPT ![t] = x]
    BY <1>3 DEF Require
  <2> HIDE DEF x
  <2> QED
    BY <1>2, <2>1, <2>2, <2>3, QuietTracks DEF Own, Knows, Doing, LaneOf, Starting
<1>4. CASE AlreadyActive(t) \/ Unowned(t) \/ TooLate(t)
  <2>1. \E f : task' = [task EXCEPT ![t] = After(t, FALSE, f)]
    BY <1>4 DEF AlreadyActive, Unowned, TooLate, Ends
  <2> QED
    BY <1>1, <1>2, <2>1, EndTracks, NotBoth
<1> QED
  BY <1>3, <1>4

\* The end of an operation of the router.
LEMMA ConcludesTracks ==
    ASSUME Inv, Track, NEW t \in Task, Doing(t) \in Router, NEW ok, Concludes(t, ok),
           task[t].pc \in {"turn", "wait"}, Asksnot(t), UNCHANGED <<edge, agent>>, UNCHANGED facadeVars
    PROVE  Track'
<1>1. EdgeStep
  BY DEF EdgeStep
<1>2. Touches(t) /\ SameMirrors
  BY AtWork, ReleasedTouches DEF Concludes
<1>3. task' = [task EXCEPT ![t] = After(t, ok, task[t].fence)]
  BY DEF Concludes, Ends
<1> QED
  BY <1>1, <1>2, <1>3, EndTracks, NotBoth

\* The ends of the gateway's requests, but for the answers.
LEMMA CallEndTracks ==
    ASSUME Inv, Track, NEW t \in Task, HandleGone(t) \/ NotSent(t) \/ NothingLeft(t) \/ GaveUp(t)
    PROVE  Track'
<1>1. /\ task[t].pc # "idle" /\ object' = object /\ UNCHANGED <<edge, agent>> /\ UNCHANGED facadeVars
  BY DEF HandleGone, NotSent, NothingLeft, GaveUp, Unanswered, At, routerVars
<1>2. /\ task[t] \in Caller /\ Own(t) /\ Touches(t) /\ SameMirrors /\ EdgeStep
      /\ task[t].script # <<>> /\ Script(task[t].script)
  BY <1>1, UnderWay, Untouched DEF Track, EdgeStep, Shaped
<1>3. Asksnot(t)
  BY DEF HandleGone, NotSent, NothingLeft, GaveUp, Unanswered, At, Asksnot
<1>4. CASE Ends(t, FALSE, task[t].fence)
  <2>1. task' = [task EXCEPT ![t] = After(t, FALSE, task[t].fence)]
    BY <1>4 DEF Ends
  <2>2. Doing(t) \in Gateway => task[t].fence <= granted
    BY <1>2 DEF Own, Knows
  <2> QED
    BY <1>1, <1>2, <1>3, <2>1, <2>2, EndTracks
<1>5. CASE HandleGone(t)
  <2> DEFINE x == [Idle EXCEPT !.raised = TRUE]
  <2>1. x.pc = "idle" /\ x.script = <<>> /\ x.got = 0
    BY IdleShaped DEF Caller, State
  <2>2. task' = [task EXCEPT ![t] = x]
    BY <1>5 DEF HandleGone
  <2> HIDE DEF x
  <2>3. x.got <= granted /\ LanesIn(x.script) = {} /\ ~Starting(x)
    BY <1>2, <2>1, Numbers, LanesLeft DEF Starting
  <2> QED
    BY <1>1, <1>2, <1>3, <2>1, <2>2, <2>3, QuietTracks
<1>6. CASE GaveUp(t) /\ ~Ends(t, FALSE, task[t].fence)
  <2> DEFINE x == [task[t] EXCEPT !.pc = "turn", !.op = "none", !.todo = @ \ {task[t].at}, !.at = None]
  <2>1. x.pc = "turn" /\ x.script = task[t].script /\ x.got = task[t].got /\ x.fence = task[t].fence
    BY <1>2 DEF Caller, State
  <2>2. task' = [task EXCEPT ![t] = x]
    BY <1>6 DEF GaveUp
  <2>3. Head(task[t].script).do \notin Router
    BY <1>6 DEF GaveUp, Doing, Router
  <2> HIDE DEF x
  <2> QED
    BY <1>1, <1>2, <1>3, <2>1, <2>2, <2>3, QuietTracks DEF Own, Knows, Doing, LaneOf, Starting
<1> QED
  BY <1>4, <1>5, <1>6 DEF NotSent, NothingLeft

\* A caller is cancelled.
LEMMA CancelTracks ==
    ASSUME Inv, Track, NEW t \in Task, Cancel(t)
    PROVE  Track'
<1> DEFINE rest == Tail(task[t].script)
           closes == Doing(t) \in {"call", "r.read"} /\ rest # <<>>
<1>1. /\ task[t].pc # "idle" /\ UNCHANGED <<edge, agent>> /\ UNCHANGED facadeVars
      /\ wire' = Leaves(t)
  BY DEF Cancel, At
<1>2. /\ task[t] \in Caller /\ Own(t) /\ EdgeStep /\ Asksnot(t)
      /\ task[t].script # <<>> /\ Script(task[t].script) /\ task[t].fence \in Allowed(Doing(t))
  BY <1>1, UnderWay DEF Track, EdgeStep, Shaped, Asksnot
<1>3. Touches(t) /\ SameMirrors
  <2>1. CASE task[t].fence # 0 /\ Doing(t) \in Router
    <3>1. task[t].fence \in Fence
      BY <1>2, <2>1, FenceAssumption DEF Allowed, Fence
    <3>2. object' = Released(t)
      BY <2>1 DEF Cancel
    <3> QED
      BY <3>1, <3>2, ReleasedTouches
  <2>2. CASE ~(task[t].fence # 0 /\ Doing(t) \in Router)
    BY <2>2, Untouched DEF Cancel
  <2> QED
    BY <2>1, <2>2
<1>4. CASE ~closes
  <2>1. task' = [task EXCEPT ![t] = Idle]
    BY <1>4 DEF Cancel
  <2>2. Idle.pc = "idle" /\ Idle.script = <<>> /\ Idle.got <= granted /\ ~Starting(Idle)
    BY IdleShaped, Numbers DEF Starting
  <2>3. LanesIn(<<>>) = {}
    BY <1>2, LanesLeft
  <2> QED
    BY <1>1, <1>2, <1>3, <2>1, <2>2, <2>3, QuietTracks
<1>5. CASE closes
  <2> DEFINE x == [Idle EXCEPT !.script = rest, !.pc = "begin", !.fence = task[t].fence]
  <2>1. task' = [task EXCEPT ![t] = x]
    BY <1>5 DEF Cancel
  <2>2. x.script = rest /\ x.pc = "begin" /\ x.fence = task[t].fence /\ x.got = 0
    BY IdleShaped DEF Caller, State
  <2>3. /\ Continues(task[t].script) /\ LanesIn(rest) \subseteq LanesIn(task[t].script)
        /\ rest # <<>> /\ Head(rest).do \in {"open", "start"} => Doing(t) = "open"
    BY <1>2, Scripts, LanesLeft, ScriptNext DEF Doing
  <2>4. Head(rest).do \in Gateway => task[t].fence <= granted
    <3>1. Head(rest).do \in {"close", "r.close"} /\ (Head(rest).do \in Router <=> Doing(t) \in Router)
      BY <1>5, <2>3 DEF Continues, Doing
    <3>2. Head(rest).do \in Gateway => Doing(t) \in Gateway
      BY <1>5, <3>1 DEF Router, Gateway
    <3> QED
      BY <1>2, <3>2 DEF Own, Knows
  <2>5. x.got <= granted /\ ~Starting(x)
    <3>1. x.got <= granted
      BY <2>2, Numbers
    <3>2. ~Starting(x)
      BY <1>5, <2>2, <2>3 DEF Starting
    <3> QED
      BY <3>1, <3>2
  <2> HIDE DEF x
  <2> QED
    BY <1>1, <1>2, <1>3, <2>1, <2>2, <2>3, <2>4, <2>5, QuietTracks
<1> QED
  BY <1>4, <1>5

----------------------------------------------------------------------------
(* The steps that choose where to ask.                                     *)

\* The sessions of now are their endpoints' own.
LEMMA CurrentOurs ==
    ASSUME Inv, LiveOK, NEW S \in Current
    PROVE  \A link \in S : Ours(link[1], link[2]) /\ link[2] = live[link[1]] /\ link[1] \in Endpoint
BY DEF Current, Ours, LiveOK

\* A caller of the router that is to ask somebody next.
LEMMA TurnTracks ==
    ASSUME Inv, Track, NEW t \in Task, NEW x, task' = [task EXCEPT ![t] = x], Doing(t) \in Router,
           x.pc = "turn", x.script = task[t].script, x.got = task[t].got,
           UNCHANGED <<edge, agent>>, UNCHANGED facadeVars, Touches(t), Asksnot(t),
           \A n \in Fence, e \in Endpoint : object'[n].mirrors[e] \in {object[n].mirrors[e], NoMirror},
           \A link \in x.todo : Ours(link[1], link[2]),
           Doing(t) # "r.open" => object'[x.fence].holder = t,
           Doing(t) \in {"r.renew", "r.close"} =>
               \A link \in x.todo : object'[x.fence].mirrors[link[1]].s = link[2],
           Closes(t)', Reads(t)'
    PROVE  Track'
<1>1. EdgeStep /\ UNCHANGED <<handles, lease>> /\ granted' = granted /\ task'[t] = x
  BY Callers DEF EdgeStep, agent, facadeVars, leases
<1>2. Spares(t)
  BY <1>1, SparesObject DEF Touches
<1>3. MirrorsOK'
  BY <1>1, FewerMirrors
<1>4. WireOK'
  BY <1>1, <1>2, WireQuiet DEF Asksnot, Unanswered, At
<1>5. Doing(t)' = Doing(t) /\ LaneOf(t)' = LaneOf(t) /\ Own(t)
  BY <1>1 DEF Doing, LaneOf, Track
<1>6. Locked(t)'
  BY <1>1, <1>5 DEF Locked, Ours, Open, edge, Mirror
<1>7. Waiting(t)' /\ Gone(t)' /\ Knows(t)'
  BY <1>1, <1>5, NotBoth DEF Waiting, Gone, Knows, Own, At
<1>8. Own(t)'
  BY <1>6, <1>7 DEF Own
<1>9. Apart'
  BY <1>1, ApartKept DEF Starting, LaneOf
<1>10. LeaseOK'
  BY <1>1 DEF Track, LeaseOK
<1> QED
  BY <1>1, <1>2, <1>3, <1>4, <1>8, <1>9, <1>10, StepTracks

\* The router's open makes its entry.
LEMMA OpensTracks ==
    ASSUME Inv, Track, NEW t \in Task, Opens(t), UNCHANGED facadeVars
    PROVE  Track' /\ SameMirrors
<1>1. /\ task[t].pc = "enter" /\ task[t] \in Caller /\ Doing(t) = "r.open" /\ LaneOf(t) \in Lane
      /\ object \in [Fence -> Object] /\ fences \in Nat /\ MaxFence \in Nat /\ Doing(t) \in Router
  BY UnderWay, Parts, FenceAssumption DEF Opens, At, RouterOK, Router
<1>2. /\ fences < MaxFence /\ fences' = fences + 1 /\ UNCHANGED <<edge, agent, wire>>
      /\ object' = [object EXCEPT ![fences'].lane = LaneOf(t)]
  BY DEF Opens
<1>3. fences' \in Fence /\ ~object[fences'].given
  BY <1>1, <1>2, Parts DEF Fence, Objects
<1> DEFINE o == [object[fences'] EXCEPT !.lane = LaneOf(t)]
<1>4. o \in Object /\ o.mirrors = object[fences'].mirrors
  <2>1. object[fences'] \in Object
    BY <1>1, <1>3
  <2> QED
    BY <1>1, <2>1 DEF Object
<1>5. object' = [object EXCEPT ![fences'] = o]
  BY <1>2
<1> HIDE DEF o
<1>6. Touches(t) /\ SameMirrors
  BY <1>1, <1>3, <1>4, <1>5 DEF Touches, SameMirrors
<1>7. PICK S \in Current : task' = [task EXCEPT ![t].pc = "turn", ![t].fence = fences', ![t].todo = S]
  BY DEF Opens
<1> DEFINE x == [task[t] EXCEPT !.pc = "turn", !.fence = fences', !.todo = S]
<1>8. x.pc = "turn" /\ x.script = task[t].script /\ x.got = task[t].got /\ x.todo = S
  BY <1>1 DEF Caller, State
<1>9. task' = [task EXCEPT ![t] = x]
  BY <1>7
<1> HIDE DEF x
<1>10. Doing(t)' = "r.open"
  BY <1>1, <1>8, <1>9, Callers DEF Doing
<1>11. Closes(t)' /\ Reads(t)'
  BY <1>10 DEF Closes, Reads
<1>12. \A link \in x.todo : Ours(link[1], link[2])
  BY <1>8, CurrentOurs DEF Track
<1>13. Asksnot(t)
  BY <1>1, <1>2 DEF Asksnot
<1> QED
  BY <1>1, <1>2, <1>6, <1>8, <1>9, <1>11, <1>12, <1>13, TurnTracks DEF SameMirrors

\* The lock is taken.
LEMMA AcquireTracks ==
    ASSUME Inv, Track, NEW t \in Task, Acquire(t), UNCHANGED facadeVars
    PROVE  Track'
<1> DEFINE n == task[t].fence
           ms == object[n].mirrors
           Once(S) == \A a, b \in S : a[1] = b[1] => a = b
           Over(S) == \A link \in S : ms[link[1]].s # link[2] => ms[link[1]].s \notin Open
<1>1. /\ task[t].pc = "lock" /\ task[t] \in Caller /\ n \in Fence /\ Doing(t) \in Router
      /\ object \in [Fence -> Object] /\ object[n] \in Object /\ Doing(t) # "r.open"
      /\ object[n].holder = None
  <2>1. task[t].pc = "lock" /\ Doing(t) \in Router
    BY UnderWay DEF Acquire, At
  <2> QED
    BY <2>1, AtWork, Parts DEF RouterOK, Acquire
<1>2. UNCHANGED <<edge, agent, wire>>
  BY DEF Acquire
<1>3. Asksnot(t)
  BY <1>1, <1>2 DEF Asksnot
<1>4. Doing(t) \in {"r.read", "r.renew", "r.close"}
  BY <1>1 DEF Router
<1>5. ASSUME NEW S \in Current
      PROVE  /\ \A link \in S : /\ Ours(link[1], link[2]) /\ link[2] = live[link[1]] /\ link[1] \in Endpoint
                                /\ link = <<link[1], link[2]>>
             /\ Reachable(n, S) \subseteq S
             /\ \A link \in Reachable(n, S) : ms[link[1]].s = link[2]
             /\ \A e \in Endpoint : ms[e] # NoMirror /\ Unreachable(n, S) = {} => <<e, ms[e].s>> \in Reachable(n, S)
  <2>1. \A link \in S : /\ Ours(link[1], link[2]) /\ link[2] = live[link[1]] /\ link[1] \in Endpoint
                        /\ link = <<link[1], link[2]>>
    BY <1>5, CurrentOurs, LinksTyped, Numbers DEF Track
  <2> QED
    BY <2>1 DEF Reachable, Unreachable
<1>6. ASSUME NEW S, NEW x, task' = [task EXCEPT ![t] = x], x.todo = S, x.pc = "turn",
             x.script = task[t].script, x.fence = n, x.got = task[t].got,
             \A link \in S : Ours(link[1], link[2]),
             NEW o \in Object, object' = [object EXCEPT ![n] = o], o.holder = t,
             \A e \in Endpoint : o.mirrors[e] \in {ms[e], NoMirror},
             Doing(t) # "r.read" => \A link \in S : o.mirrors[link[1]].s = link[2],
             Doing(t) = "r.close" => o.mirrors = ms /\ (x.failed \/ \A e \in Endpoint : ms[e] # NoMirror => <<e, ms[e].s>> \in S),
             Doing(t) = "r.read" => o.mirrors = ms /\ Once(S) /\ Over(S)
      PROVE  Track'
  <2>1. Touches(t)
    BY <1>1, <1>6 DEF Touches
  <2>2. object'[n] = o /\ \A m \in Fence \ {n} : object'[m] = object[m]
    BY <1>1, <1>6
  <2>7. task' = [task EXCEPT ![t] = x] /\ x.todo = S /\ x.pc = "turn" /\ x.fence = n /\ x.script = task[t].script
    BY <1>6
  <2>3. task'[t] = x /\ Doing(t)' = Doing(t) /\ Open' = Open
    BY <1>2, <2>7, Callers DEF Doing, Open, edge
  <2>4. Closes(t)'
    <3> SUFFICES ASSUME Doing(t) = "r.close", ~x.failed
                 PROVE  \A e \in Endpoint : o.mirrors[e] # NoMirror => <<e, o.mirrors[e].s>> \in S
      BY <2>2, <2>3, <2>7 DEF Closes
    <3> QED
      BY <1>6
  <2>5. Reads(t)'
    <3> SUFFICES ASSUME Doing(t) = "r.read"
                 PROVE  /\ \A a, b \in S : a[1] = b[1] => a = b
                        /\ \A link \in S : o.mirrors[link[1]].s # link[2] => o.mirrors[link[1]].s \notin Open
      BY <2>2, <2>3, <2>7 DEF Reads, At, Mirror
    <3> QED
      BY <1>6
  <2>6. \A m \in Fence, e \in Endpoint : object'[m].mirrors[e] \in {object[m].mirrors[e], NoMirror}
    <3>1. \A e \in Endpoint : o.mirrors[e] \in {ms[e], NoMirror}
      BY <1>6
    <3> QED
      BY <2>2, <3>1
  <2> HIDE DEF ms, n
  <2> QED
    BY <1>1, <1>2, <1>3, <1>6, <2>1, <2>2, <2>4, <2>5, <2>6, TurnTracks DEF n
<1>7. CASE Doing(t) = "r.read"
  <2>1. PICK S \in Current : /\ task' = [task EXCEPT ![t].pc = "turn", ![t].todo = S]
                             /\ object' = [object EXCEPT ![n].holder = t]
    BY <1>7 DEF Acquire
  <2> DEFINE x == [task[t] EXCEPT !.pc = "turn", !.todo = S]
             o == [object[n] EXCEPT !.holder = t]
  <2>2. /\ x.pc = "turn" /\ x.script = task[t].script /\ x.fence = n /\ x.got = task[t].got /\ x.todo = S
        /\ o \in Object /\ o.holder = t /\ o.mirrors = ms
    BY <1>1 DEF Caller, State, Object
  <2>3. task' = [task EXCEPT ![t] = x] /\ object' = [object EXCEPT ![n] = o]
    BY <2>1
  <2> HIDE DEF x, o
  <2>4. ASSUME NEW link \in S, ms[link[1]].s # link[2] PROVE ms[link[1]].s \notin Open
    <3>1. Ours(link[1], ms[link[1]].s)
      BY <1>1, <1>5 DEF Track, MirrorsOK, Traced
    <3> QED
      BY <1>5, <2>4, <3>1 DEF Ours
  <2>5. Once(S)
    BY <1>5
  <2>6. \A link \in S : Ours(link[1], link[2])
    BY <1>5
  <2>7. Over(S)
    BY <2>4
  <2>8. \A e \in Endpoint : o.mirrors[e] \in {ms[e], NoMirror}
    BY <2>2
  <2>9. Doing(t) # "r.read" => \A link \in S : o.mirrors[link[1]].s = link[2]
    BY <1>7
  <2>10. Doing(t) # "r.close"
    BY <1>7
  <2> HIDE DEF ms, n, Once, Over
  <2> QED
    BY <1>6, <2>2, <2>3, <2>5, <2>6, <2>7, <2>8, <2>9, <2>10
<1>8. CASE Doing(t) = "r.renew"
  <2>1. PICK S \in Current :
          /\ task' = [task EXCEPT ![t].pc = "turn", ![t].todo = Reachable(n, S)]
          /\ object' = [object EXCEPT ![n].holder = t, ![n].expired = FALSE,
                              ![n].mirrors = [e \in Endpoint |->
                                  IF e \in Unreachable(n, S) THEN NoMirror ELSE @[e]]]
    BY <1>8 DEF Acquire
  <2> DEFINE R == Reachable(n, S)
             x == [task[t] EXCEPT !.pc = "turn", !.todo = R]
             left == [e \in Endpoint |-> IF e \in Unreachable(n, S) THEN NoMirror ELSE ms[e]]
             o == [object[n] EXCEPT !.holder = t, !.expired = FALSE, !.mirrors = left]
  <2>2. /\ x.pc = "turn" /\ x.script = task[t].script /\ x.fence = n /\ x.got = task[t].got /\ x.todo = R
    BY <1>1 DEF Caller, State
  <2>3. left \in [Endpoint -> [s : 0..MaxSession, grant : 0..MaxGrant]]
    BY <1>1, ObjectTyped DEF Object
  <2>4. task' = [task EXCEPT ![t] = x] /\ object' = [object EXCEPT ![n] = o]
    BY <1>1, <2>1
  <2>5. \A e \in Endpoint : left[e] \in {ms[e], NoMirror}
    OBVIOUS
  <2>8. ASSUME NEW link \in R PROVE left[link[1]].s = link[2]
    <3>1. link \in S /\ link = <<link[1], link[2]>> /\ link[1] \in Endpoint /\ ms[link[1]].s = link[2]
      BY <1>5
    <3>2. link[1] \notin Unreachable(n, S)
      BY <3>1 DEF Unreachable
    <3> QED
      BY <3>1, <3>2
  <2>9. \A link \in R : left[link[1]].s = link[2]
    BY <2>8
  <2> HIDE DEF left, R
  <2>6. o \in Object /\ o.holder = t /\ o.mirrors = left
    BY <1>1, <2>3 DEF Object
  <2>7. \A link \in R : Ours(link[1], link[2])
    BY <1>5 DEF R
  <2> HIDE DEF x, o, ms
  <2>10. \A e \in Endpoint : o.mirrors[e] \in {ms[e], NoMirror}
    BY <2>5, <2>6
  <2>11. \A link \in R : o.mirrors[link[1]].s = link[2]
    BY <2>6, <2>9
  <2>12. Doing(t) # "r.close" /\ Doing(t) # "r.read"
    BY <1>8
  <2> QED
    BY <1>6, <2>2, <2>4, <2>6, <2>7, <2>10, <2>11, <2>12
<1>9. CASE Doing(t) = "r.close"
  <2>1. PICK S \in Current :
          /\ task' = [task EXCEPT ![t].pc = "turn", ![t].todo = Reachable(n, S),
                                  ![t].failed = Unreachable(n, S) # {}]
          /\ object' = [object EXCEPT ![n].holder = t]
    BY <1>9 DEF Acquire
  <2> DEFINE R == Reachable(n, S)
             f == Unreachable(n, S) # {}
             x == [task[t] EXCEPT !.pc = "turn", !.todo = R, !.failed = f]
             o == [object[n] EXCEPT !.holder = t]
  <2>2. \A link \in R : Ours(link[1], link[2])
    BY <1>5
  <2>6. \A link \in R : ms[link[1]].s = link[2]
    BY <1>5
  <2>3. f \/ \A e \in Endpoint : ms[e] # NoMirror => <<e, ms[e].s>> \in R
    BY <1>5
  <2>4. task' = [task EXCEPT ![t] = x] /\ object' = [object EXCEPT ![n] = o]
    BY <2>1
  <2> HIDE DEF R, f
  <2>5. /\ x.pc = "turn" /\ x.script = task[t].script /\ x.fence = n /\ x.got = task[t].got /\ x.todo = R
        /\ x.failed = f
        /\ o \in Object /\ o.holder = t /\ o.mirrors = ms
    BY <1>1 DEF Caller, State, Object
  <2> HIDE DEF x, o, ms
  <2>7. \A e \in Endpoint : o.mirrors[e] \in {ms[e], NoMirror}
    BY <2>5
  <2>8. \A link \in R : o.mirrors[link[1]].s = link[2]
    BY <2>5, <2>6
  <2> QED
    BY <1>6, <1>9, <2>2, <2>3, <2>4, <2>5, <2>7, <2>8
<1> QED
  BY <1>4, <1>7, <1>8, <1>9

\* On to the next endpoint or mirror.
LEMMA OnwardTracks ==
    ASSUME Inv, Track, NEW t \in Task, task[t].pc = "wait", Doing(t) \in Router,
           NEW drop \in BOOLEAN, NEW failed \in BOOLEAN, Onward(t, drop, failed),
           drop => Doing(t) \in {"r.renew", "r.close"},
           Doing(t) = "r.close" => drop \/ failed,
           Asksnot(t), UNCHANGED facadeVars
    PROVE  Track'
<1> DEFINE n == task[t].fence
           ms == object[n].mirrors
           d == task[t].at[1]
           x == [task[t] EXCEPT !.pc = "turn", !.todo = @ \ {task[t].at}, !.at = None,
                                !.op = "none", !.ans = "none", !.failed = @ \/ failed]
<1>1. /\ task[t] \in Caller /\ n \in Fence /\ object \in [Fence -> Object] /\ object[n] \in Object
      /\ Own(t) /\ AtIt(t)
  BY AtWork, Parts DEF RouterOK, Track, AtIt
<1>2. task[t].at \in Link /\ d \in Endpoint /\ task[t].at = <<d, task[t].at[2]>>
  BY UnderWay, Numbers
<1>3. /\ x.pc = "turn" /\ x.script = task[t].script /\ x.got = task[t].got /\ x.fence = n
      /\ x.todo = task[t].todo \ {task[t].at} /\ (x.failed <=> task[t].failed \/ failed)
  BY <1>1 DEF Caller, State
<1>4. task' = [task EXCEPT ![t] = x] /\ UNCHANGED <<edge, agent>>
  BY DEF Onward
<1> HIDE DEF x
<1>5. task'[t] = x /\ Doing(t)' = Doing(t) /\ Open' = Open
  BY <1>3, <1>4, Callers DEF Doing, Open, edge
<1>6. /\ \A link \in x.todo : Ours(link[1], link[2])
      /\ Doing(t) # "r.open" => object[n].holder = t
  BY <1>1, <1>3 DEF Own, Locked
<1>7. CASE drop
  <2> DEFINE left == [ms EXCEPT ![d] = NoMirror]
             o == [object[n] EXCEPT !.mirrors = left]
  <2>1. left \in [Endpoint -> [s : 0..MaxSession, grant : 0..MaxGrant]]
    BY <1>1, <1>2, ObjectTyped DEF Object
  <2>2. /\ \A e \in Endpoint : left[e] \in {ms[e], NoMirror}
        /\ \A e \in Endpoint : left[e] # NoMirror => e # d /\ left[e] = ms[e]
    BY <1>1, <1>2 DEF Object
  <2>13. \A e \in Endpoint : e # d => left[e] = ms[e]
    BY <1>1 DEF Object
  <2>3. object' = [object EXCEPT ![n] = o]
    BY <1>1, <1>7 DEF Onward
  <2> HIDE DEF left
  <2>4. o \in Object /\ o.mirrors = left /\ o.holder = object[n].holder
    BY <1>1, <2>1 DEF Object
  <2> HIDE DEF o
  <2>5. object'[n] = o /\ \A m \in Fence \ {n} : object'[m] = object[m]
    BY <1>1, <2>3
  <2>6. object[n].holder = t /\ Doing(t) \in {"r.renew", "r.close"}
    BY <1>6, <1>7
  <2>7. Touches(t)
    BY <1>1, <2>3, <2>4, <2>6 DEF Touches
  <2>8. Closes(t)'
    <3> SUFFICES ASSUME Doing(t) = "r.close", ~x.failed, NEW e \in Endpoint, left[e] # NoMirror
                 PROVE  <<e, left[e].s>> \in x.todo
      BY <1>3, <1>5, <2>4, <2>5 DEF Closes
    <3>1. <<e, ms[e].s>> \in task[t].todo
      BY <1>1, <1>3, <2>2 DEF Own, Closes
    <3> QED
      BY <1>2, <1>3, <2>2, <3>1
  <2>9. Reads(t)'
    BY <1>5, <2>6 DEF Reads
  <2>10. \A m \in Fence, e \in Endpoint : object'[m].mirrors[e] \in {object[m].mirrors[e], NoMirror}
    BY <2>2, <2>4, <2>5
  <2>11. object'[x.fence].holder = t
    BY <1>3, <2>4, <2>5, <2>6
  <2>12. ASSUME NEW link \in x.todo PROVE left[link[1]].s = link[2]
    <3>1. /\ link \in task[t].todo /\ link # task[t].at /\ link[1] \in Endpoint
          /\ link = <<link[1], link[2]>> /\ task[t].at \in task[t].todo
      BY <1>1, <1>3, Numbers DEF Own, Waiting, At
    <3>2. ms[link[1]].s = link[2] /\ ms[d].s = task[t].at[2]
      BY <1>1, <2>6, <3>1 DEF Own, Locked, Mirror
    <3>3. link[1] # d
      BY <1>2, <3>1, <3>2
    <3> QED
      BY <2>13, <3>1, <3>2, <3>3
  <2>14. object'[x.fence].mirrors = left
    BY <1>3, <2>4, <2>5
  <2>15. \A link \in x.todo : object'[x.fence].mirrors[link[1]].s = link[2]
    BY <2>12, <2>14
  <2> HIDE DEF ms, n, d
  <2> QED
    BY <1>3, <1>4, <1>6, <2>7, <2>8, <2>9, <2>10, <2>11, <2>15, TurnTracks
<1>8. CASE ~drop
  <2>1. object' = object
    BY <1>8 DEF Onward
  <2>2. Touches(t) /\ SameMirrors
    BY <2>1, Untouched
  <2>3. Closes(t)'
    BY <1>3, <1>5, <1>8 DEF Closes
  <2>4. Reads(t)'
    BY <1>1, <1>3, <1>5, <2>1 DEF Reads, Own, At, Mirror
  <2>5. Doing(t) \in {"r.renew", "r.close"} => \A link \in x.todo : object'[x.fence].mirrors[link[1]].s = link[2]
    BY <1>1, <1>3, <2>1 DEF Own, Locked, Mirror
  <2> HIDE DEF ms, d
  <2> QED
    BY <1>3, <1>4, <1>6, <2>1, <2>2, <2>3, <2>4, <2>5, TurnTracks DEF SameMirrors
<1> QED
  BY <1>7, <1>8

----------------------------------------------------------------------------
(* The steps that ask.                                                     *)

\* A caller that asks.
LEMMA AsksFacts ==
    ASSUME Inv, NEW t \in Task, task[t].pc # "idle", NEW op, NEW link, NEW x, x = Asks(t, op, link)
    PROVE  /\ x.pc = "wait" /\ x.op = op /\ x.at = link /\ x.ans = "none" /\ x.got = 0
           /\ x.script = task[t].script /\ x.fence = task[t].fence /\ x.todo = task[t].todo
           /\ x.failed = task[t].failed
<1>1. task[t] \in Caller
  BY UnderWay
<1> QED
  BY <1>1 DEF Asks, Caller, State

\* The request of a caller that had none under way.
LEMMA SentWire ==
    ASSUME Inv, Track, NEW t \in Task, Spares(t), UNCHANGED <<edge, agent>>,
           task[t].pc # "wait" \/ task[t].ans # "none",
           NEW link, NEW op, NEW g, wire' = Sent(t, op, link, g),
           NEW x, task'[t] = x, x.pc = "wait", x.op = op, x.at = link, x.ans = "none",
           x.script = task[t].script, Doing(t) \in Closing => g = Wanted(t)'
    PROVE  WireOK'
<1>1. EdgeStep /\ Doing(t)' = Doing(t) /\ LaneOf(t)' = LaneOf(t) /\ At(t, "wait")'
  BY DEF EdgeStep, Doing, LaneOf, At
<1>2. \A m \in wire : m.t # t
  BY NoneAssumption DEF Track, WireOK, Delivers, At
<1>3. ASSUME NEW m \in wire PROVE Delivers(m)'
  BY <1>1, <1>2, OthersDeliver
<1>0. PICK new : new = Message(t, op, link[2], g)
  OBVIOUS
<1>4. new.t = t /\ new.op = op /\ new.s = link[2] /\ new.lane = LaneOf(t) /\ new.grant = g
  BY <1>0 DEF Message
<1>5. wire' \subseteq wire \cup {new}
  BY <1>0 DEF Sent
<1>6. Delivers(new)'
  BY <1>1, <1>4 DEF Delivers
<1>7. \A m \in wire' : Delivers(m)'
  BY <1>3, <1>5, <1>6
<1>8. \A m, k \in wire' : m.t # None /\ m.t = k.t => m = k
  BY <1>2, <1>4, <1>5 DEF Track, WireOK
<1> QED
  BY <1>7, <1>8 DEF WireOK

\* A caller asks.
LEMMA SendTracks ==
    ASSUME Inv, Track, NEW t \in Task, task[t].pc # "idle", UNCHANGED <<edge, agent>>, UNCHANGED facadeVars,
           task[t].pc # "wait" \/ task[t].ans # "none",
           NEW link, NEW op \in OpsOf(Doing(t)), NEW g, wire' = Sent(t, op, link, g),
           NEW x, task' = [task EXCEPT ![t] = x], x.pc = "wait", x.op = op, x.at = link, x.ans = "none",
           x.got = 0, x.script = task[t].script, x.fence = task[t].fence, link \in x.todo,
           Touches(t), MirrorsOK', Closes(t)', Reads(t)',
           Doing(t) \in Closing => g = Wanted(t)',
           Doing(t) \in Router => /\ \A l \in x.todo : Ours(l[1], l[2])
                                  /\ Doing(t) # "r.open" => object'[task[t].fence].holder = t
                                  /\ Doing(t) \in {"r.renew", "r.close"} =>
                                        \A l \in x.todo : object'[task[t].fence].mirrors[l[1]].s = l[2]
    PROVE  Track'
<1>1. EdgeStep /\ UNCHANGED <<handles, lease>> /\ held' = held /\ granted' = granted /\ task'[t] = x
  BY Callers DEF EdgeStep, agent, facadeVars, leases
<1>2. Spares(t)
  BY <1>1, SparesObject DEF Touches
<1>3. Doing(t)' = Doing(t) /\ LaneOf(t)' = LaneOf(t) /\ Own(t)
  BY <1>1 DEF Doing, LaneOf, Track
<1>4. WireOK'
  BY <1>1, <1>2, SentWire
<1>5. Locked(t)'
  BY <1>1, <1>3 DEF Locked, Ours, Open, edge, Mirror
<1>6. Waiting(t)' /\ Gone(t)' /\ Knows(t)'
  <2>1. \A h \in held : h.grant # 0
    BY Numbers
  <2>2. granted \in Nat
    BY Numbers
  <2> QED
    BY <1>1, <1>3, <2>1, <2>2 DEF Waiting, Gone, Knows, Own, At
<1>7. Own(t)'
  BY <1>5, <1>6 DEF Own
<1>8. Apart'
  BY <1>1, ApartKept DEF Starting, LaneOf
<1>9. LeaseOK'
  BY <1>1 DEF Track, LeaseOK
<1> QED
  BY <1>1, <1>2, <1>4, <1>7, <1>8, <1>9, StepTracks

\* The router asks for a mirror, or through one.
LEMMA AskTracks ==
    ASSUME Inv, Track, NEW t \in Task, Turn(t), UNCHANGED facadeVars
    PROVE  Track'
<1> DEFINE n == task[t].fence
<1>1. /\ task[t].pc = "turn" /\ Doing(t) \in Router /\ UNCHANGED <<edge, agent>> /\ object' = object
      /\ Own(t) /\ AtIt(t) /\ n \in Fence
  BY AtWork DEF Turn, At, routerVars, Track, AtIt
<1>2. Doing(t) = "r.open" => \A e \in Endpoint : object[n].mirrors[e] = NoMirror
  BY <1>1, AtWork
<1>3. PICK link \in task[t].todo :
          \/ /\ Mirror(t, link).s = link[2]
             /\ Send(t, CASE Doing(t) = "r.read"  -> "read"
                          [] Doing(t) = "r.renew" -> "renew"
                          [] Doing(t) = "r.close" -> "close", link, Mirror(t, link).grant)
          \/ /\ Mirror(t, link).s # link[2]
             /\ Send(t, "open", link, 0)
  BY DEF Turn
<1>4. link[1] \in Endpoint /\ link[2] # 0
  BY Numbers
<1>5. PICK op, g : /\ Send(t, op, link, g)
                   /\ op \in OpsOf(Doing(t)) /\ (op = "open" => Mirror(t, link).s # link[2])
                   /\ Doing(t) = "r.close" => g = Mirror(t, link).grant
  <2>1. CASE Mirror(t, link).s = link[2]
    <3>1. Doing(t) # "r.open"
      BY <1>2, <1>4, <2>1 DEF Mirror, NoMirror
    <3>2. Doing(t) \in {"r.read", "r.renew", "r.close"} /\ Doing(t) \notin Gateway
      BY <1>1, <3>1, NotBoth DEF Router
    <3>3. CASE Doing(t) = "r.read"
      BY <1>3, <2>1, <3>2, <3>3 DEF OpsOf
    <3>4. CASE Doing(t) = "r.renew"
      BY <1>3, <2>1, <3>2, <3>4 DEF OpsOf
    <3>5. CASE Doing(t) = "r.close"
      BY <1>3, <2>1, <3>2, <3>5 DEF OpsOf
    <3> QED
      BY <3>2, <3>3, <3>4, <3>5
  <2>2. CASE Mirror(t, link).s # link[2]
    <3>1. Doing(t) \in {"r.open", "r.read"} /\ Doing(t) \notin Gateway
      BY <1>1, <2>2, NotBoth DEF Own, Locked, Router
    <3> QED
      BY <1>3, <2>2, <3>1 DEF OpsOf
  <2> QED
    BY <2>1, <2>2
<1>6. PICK x : x = Asks(t, op, link)
  OBVIOUS
<1>7. /\ x.pc = "wait" /\ x.op = op /\ x.at = link /\ x.ans = "none" /\ x.got = 0
      /\ x.script = task[t].script /\ x.fence = n /\ x.todo = task[t].todo
      /\ x.failed = task[t].failed
  BY <1>1, <1>6, AsksFacts
<1>8. task' = [task EXCEPT ![t] = x] /\ wire' = Sent(t, op, link, g)
  BY <1>5, <1>6 DEF Send
<1>9. /\ task'[t] = x /\ Doing(t)' = Doing(t) /\ (\A l : Mirror(t, l)' = Mirror(t, l)) /\ Open' = Open
  BY <1>1, <1>7, <1>8, Callers DEF Doing, Mirror, Open, edge
<1>10. Touches(t) /\ MirrorsOK'
  BY <1>1, Untouched, FewerMirrors DEF EdgeStep
<1>11. Closes(t)' /\ Reads(t)'
  <2>1. Closes(t)'
    BY <1>1, <1>7, <1>9 DEF Own, Closes
  <2>2. Reads(t)'
    BY <1>1, <1>5, <1>7, <1>9 DEF Own, Reads
  <2> QED
    BY <2>1, <2>2
<1>12. Doing(t) \in Closing => g = Wanted(t)'
  BY <1>1, <1>5, <1>7, <1>9 DEF Closing, Router, Wanted
<1>13. /\ \A l \in x.todo : Ours(l[1], l[2])
       /\ Doing(t) # "r.open" => object'[n].holder = t
       /\ Doing(t) \in {"r.renew", "r.close"} => \A l \in x.todo : object'[n].mirrors[l[1]].s = l[2]
  BY <1>1, <1>7 DEF Own, Locked, Mirror
<1>14. link \in x.todo /\ task[t].pc # "idle" /\ task[t].pc # "wait"
  BY <1>1, <1>7
<1> HIDE DEF n
<1> QED
  BY <1>1, <1>5, <1>7, <1>8, <1>10, <1>11, <1>12, <1>13, <1>14, SendTracks DEF n

\* The gateway's requests.
LEMMA CallTracks ==
    ASSUME Inv, Track, NEW t \in Task, Call(t) \/ Again(t)
    PROVE  Track'
<1>1. /\ task[t].pc \in {"enter", "turn"} /\ Doing(t) \in Gateway /\ UNCHANGED <<edge, agent>> /\ object' = object
      /\ UNCHANGED facadeVars
  BY DEF Call, Again, At, routerVars, Gateway
<1>2. PICK link, S, op, g, x :
          /\ wire' = Sent(t, op, link, g) /\ task' = [task EXCEPT ![t] = x]
          /\ x = [Asks(t, op, link) EXCEPT !.todo = S]
          /\ op = Operation[Doing(t)] /\ g = Token(t) /\ link \in S
  <2>1. CASE Call(t)
    <3>1. PICK S \in SUBSET {<<e, pool[e]>> : e \in Endpoint} : \E link \in S :
            /\ wire' = Sent(t, Operation[Doing(t)], link, Token(t))
            /\ task' = [task EXCEPT ![t] = [Asks(t, Operation[Doing(t)], link) EXCEPT !.todo = S]]
      BY <2>1 DEF Call
    <3>2. PICK link \in S :
            /\ wire' = Sent(t, Operation[Doing(t)], link, Token(t))
            /\ task' = [task EXCEPT ![t] = [Asks(t, Operation[Doing(t)], link) EXCEPT !.todo = S]]
      BY <3>1
    <3> QED
      BY <3>2
  <2>2. CASE Again(t)
    <3>1. PICK link \in task[t].todo : Send(t, "read", link, Token(t))
      BY <2>2 DEF Again
    <3>2. Operation[Doing(t)] = "read"
      BY <2>2 DEF Again, Operation
    <3>3. [Asks(t, "read", link) EXCEPT !.todo = task[t].todo] = Asks(t, "read", link)
      <4>1. task[t] \in Caller
        BY <1>1, UnderWay
      <4> QED
        BY <4>1 DEF Asks, Caller, State
    <3> QED
      BY <3>1, <3>2, <3>3 DEF Send
  <2> QED
    BY <2>1, <2>2
<1>3. /\ x.pc = "wait" /\ x.op = op /\ x.at = link /\ x.ans = "none" /\ x.got = 0
      /\ x.script = task[t].script /\ x.fence = task[t].fence /\ x.todo = S
  <2>1. task[t] \in Caller
    BY <1>1, UnderWay
  <2> QED
    BY <1>2, <2>1 DEF Asks, Caller, State
<1>4. /\ task'[t] = x /\ Doing(t)' = Doing(t) /\ LaneOf(t)' = LaneOf(t) /\ UNCHANGED lease
  BY <1>1, <1>2, <1>3, Callers DEF Doing, LaneOf, facadeVars, leases
<1>5. Doing(t) \notin Router /\ op \in OpsOf(Doing(t))
  <2>1. Doing(t) \notin Router /\ Doing(t) \notin {"r.open", "r.read", "r.renew", "r.close"}
    BY <1>1, NotBoth DEF Router
  <2>2. OpsOf(Doing(t)) = {Operation[Doing(t)]}
    BY <1>1, <2>1 DEF OpsOf
  <2> QED
    BY <1>2, <2>1, <2>2
<1>6. Touches(t) /\ MirrorsOK'
  BY <1>1, Untouched, FewerMirrors DEF EdgeStep
<1>7. Closes(t)' /\ Reads(t)'
  BY <1>4, <1>5 DEF Closes, Reads, Router
<1>8. Doing(t) \in Closing => g = Wanted(t)'
  BY <1>2, <1>3, <1>4, <1>5 DEF Wanted, Router, Token
<1> QED
  BY <1>1, <1>2, <1>3, <1>5, <1>6, <1>7, <1>8, SendTracks

\* A mirror is noted: the router goes on to the read, or the lane is open.
LEMMA MirroredTracks ==
    ASSUME Inv, Track, NEW t \in Task, Mirrored(t), UNCHANGED facadeVars
    PROVE  Track'
<1> DEFINE n == task[t].fence
           at == task[t].at
           mirror == [s |-> at[2], grant |-> task[t].got]
           ms == [object[n].mirrors EXCEPT ![at[1]] = mirror]
           o == [object[n] EXCEPT !.given = TRUE, !.mirrors = ms]
<1>1. /\ task[t].pc = "wait" /\ task[t].ans = "ok" /\ task[t].op = "open"
      /\ Doing(t) \in {"r.open", "r.read"} /\ Doing(t) \in Router
      /\ UNCHANGED <<edge, agent>> /\ Own(t) /\ AtIt(t) /\ At(t, "wait")
  BY DEF Mirrored, Answered, At, Router, Track, AtIt
<1>2. /\ n \in Fence /\ object \in [Fence -> Object] /\ object[n] \in Object /\ task[t] \in Caller
      /\ Doing(t) = "r.open" => ~object[n].given
  BY <1>1, AtWork, Parts DEF RouterOK
<1>3. at \in Link /\ at[1] \in Endpoint /\ at[2] \in Nat /\ at \in task[t].todo
      /\ at[2] \in 0..MaxSession /\ task[t].got \in 0..MaxGrant
  <2>1. at \in Link
    BY <1>1, UnderWay
  <2>2. at[2] \in 0..MaxSession
    BY <2>1, BoundAssumption DEF Link, Session
  <2> QED
    BY <1>1, <1>2, <2>1, <2>2, Numbers DEF Own, Waiting, Caller, State
<1>4. mirror.s = at[2] /\ mirror.grant = task[t].got /\ mirror \in [s : 0..MaxSession, grant : 0..MaxGrant]
  BY <1>3
<1> HIDE DEF mirror
<1>5. /\ ms \in [Endpoint -> [s : 0..MaxSession, grant : 0..MaxGrant]] /\ ms[at[1]] = mirror
      /\ \A e \in Endpoint : e # at[1] => ms[e] = object[n].mirrors[e]
  BY <1>2, <1>3, <1>4 DEF Object
<1>6. object' = [object EXCEPT ![n] = o]
  BY <1>2 DEF Mirrored, mirror
<1> HIDE DEF ms
<1>7. o \in Object /\ o.mirrors = ms /\ o.holder = object[n].holder
  BY <1>2, <1>5 DEF Object
<1> HIDE DEF o
<1>8. object'[n] = o /\ \A m \in Fence \ {n} : object'[m] = object[m]
  BY <1>2, <1>6
<1>9. /\ held' = held /\ granted' = granted /\ Open' = Open
      /\ \A e, s : Ours(e, s)' = Ours(e, s)
  BY <1>1 DEF agent, edge, Open, Ours
<1>10. MirrorsOK'
  <2>1. ASSUME NEW m \in Fence, NEW e \in Endpoint, NEW k, k = object'[m].mirrors[e]
        PROVE  Traced(e, k)
    <3>1. CASE m = n /\ e = at[1]
      <4>1. k = mirror
        BY <1>5, <1>7, <1>8, <2>1, <3>1
      <4>2. Ours(e, at[2]) /\ task[t].got <= granted /\ \A h \in held : h.grant = task[t].got => h.s = at[2]
        BY <1>1, <1>3, <3>1 DEF Own, Locked, Knows, Waiting
      <4> QED
        BY <1>4, <4>1, <4>2 DEF Traced
    <3>2. CASE ~(m = n /\ e = at[1])
      BY <1>5, <1>7, <1>8, <2>1, <3>2 DEF Track, MirrorsOK
    <3> QED
      BY <3>1, <3>2
  <2>2. ASSUME NEW m \in Fence, NEW e \in Endpoint PROVE Traced(e, object[m].mirrors[e])'
    <3>1. PICK k : k = object'[m].mirrors[e]
      OBVIOUS
    <3> QED
      BY <1>9, <2>1, <3>1 DEF Traced
  <2> QED
    BY <2>2 DEF MirrorsOK
<1>11. Touches(t)
  BY <1>1, <1>2, <1>6, <1>7 DEF Touches, Own, Locked
<1>12. CASE Doing(t) = "r.read"
  <2>1. PICK x : x = Asks(t, "read", at)
    OBVIOUS
  <2>2. /\ x.pc = "wait" /\ x.op = "read" /\ x.at = at /\ x.ans = "none" /\ x.got = 0
        /\ x.script = task[t].script /\ x.fence = n /\ x.todo = task[t].todo
    BY <1>1, <2>1, AsksFacts
  <2>3. task' = [task EXCEPT ![t] = x] /\ wire' = Sent(t, "read", at, task[t].got)
    BY <1>12, <2>1 DEF Mirrored, Send
  <2>4. task'[t] = x /\ Doing(t)' = "r.read" /\ \A l : Mirror(t, l)' = ms[l[1]]
    BY <1>7, <1>8, <1>12, <2>2, <2>3, Callers DEF Doing, Mirror
  <2>5. Closes(t)'
    BY <2>4 DEF Closes
  <2>6. Reads(t)'
    <3>1. ASSUME NEW l \in task[t].todo, ms[l[1]].s # l[2] PROVE ms[l[1]].s \notin Open
      <4>1. l[1] \in Endpoint
        BY Numbers
      <4>2. l[1] # at[1]
        BY <1>1, <1>3, <1>4, <1>5, <1>12, <3>1 DEF Own, Reads
      <4>3. ms[l[1]] = Mirror(t, l)
        BY <1>5, <4>1, <4>2 DEF Mirror
      <4> QED
        BY <1>1, <1>12, <3>1, <4>3 DEF Own, Reads
    <3>2. \A a, b \in task[t].todo : a[1] = b[1] => a = b
      BY <1>1, <1>12 DEF Own, Reads
    <3> QED
      BY <1>9, <2>2, <2>4, <3>1, <3>2 DEF Reads
  <2>7. "read" \in OpsOf(Doing(t))
    BY <1>1, <1>12, NotBoth DEF OpsOf
  <2>8. \A l \in x.todo : Ours(l[1], l[2])
    BY <1>1, <2>2 DEF Own, Locked
  <2>9. object'[n].holder = t
    BY <1>1, <1>7, <1>8, <1>12 DEF Own, Locked
  <2>10. Doing(t) \notin Closing
    BY <1>12 DEF Closing
  <2> HIDE DEF n, at
  <2> QED
    BY <1>1, <1>3, <1>10, <1>11, <1>12, <2>2, <2>3, <2>5, <2>6, <2>7, <2>8, <2>9, <2>10, SendTracks DEF n
<1>13. CASE Doing(t) = "r.open"
  <2>1. PICK x : x = After(t, TRUE, n)
    OBVIOUS
  <2>2. task' = [task EXCEPT ![t] = x] /\ wire' = wire
    BY <1>13, <2>1 DEF Mirrored
  <2>3. /\ x.pc \in {"idle", "begin"} /\ x.got = 0
        /\ LanesIn(x.script) \subseteq LanesIn(task[t].script)
        /\ Starting(x) => Starting(task[t]) /\ Head(x.script).lane = LaneOf(t)
        /\ x.script # <<>> => Head(x.script).do \notin Gateway
    <3>1. task[t].pc # "idle" /\ Doing(t) \notin Gateway
      BY <1>1, NotBoth
    <3>4. PICK ok, f : ok = TRUE /\ f = n
      OBVIOUS
    <3> DEFINE y == After(t, ok, f)
    <3>2. /\ y.pc \in {"idle", "begin"} /\ y.got = 0
          /\ LanesIn(y.script) \subseteq LanesIn(task[t].script)
          /\ Starting(y) => Starting(task[t]) /\ Head(y.script).lane = LaneOf(t)
          /\ y.script # <<>> /\ Head(y.script).do \in Gateway => Doing(t) \in Gateway
      <4> HIDE DEF n, at
      <4> QED
        BY <3>1, AfterFacts
    <3> QED
      BY <2>1, <3>1, <3>2, <3>4
  <2>4. EdgeStep /\ UNCHANGED <<handles, lease>>
    BY <1>1 DEF EdgeStep, facadeVars, leases
  <2>5. Spares(t)
    BY <1>11, <2>2, <2>4, SparesObject DEF Touches
  <2>6. Own(t)'
    <3>1. task'[t] = x /\ x.got <= granted'
      BY <1>9, <2>2, <2>3, Callers, Numbers
    <3> QED
      BY <2>3, <3>1, OwnAtRest
  <2>7. WireOK'
    BY <1>1, <2>2, <2>4, <2>5, WireQuiet DEF Unanswered
  <2>8. Apart'
    BY <2>2, <2>3, <2>4, ApartKept
  <2>9. LeaseOK'
    BY <1>9, <2>4 DEF Track, LeaseOK
  <2> QED
    BY <1>10, <2>4, <2>5, <2>6, <2>7, <2>8, <2>9, StepTracks
<1> QED
  BY <1>1, <1>12, <1>13

\* An answer of the gateway's.
LEMMA ReturnTracks ==
    ASSUME Inv, Track, NEW t \in Task, Return(t)
    PROVE  Track'
<1> DEFINE ok == task[t].ans = "ok"
           f == IF Doing(t) = "open" THEN task[t].got ELSE task[t].fence
           x == After(t, ok, f)
<1>1. /\ task[t].pc = "wait" /\ task[t].ans # "none" /\ Doing(t) \in Gateway
      /\ UNCHANGED <<edge, agent, wire>> /\ object' = object /\ Own(t)
  BY DEF Return, Answered, At, routerVars, Track
<1>2. EdgeStep /\ granted' = granted /\ task' = [task EXCEPT ![t] = x]
  BY <1>1 DEF EdgeStep, agent, Return, Ends
<1>3. /\ handles' \subseteq handles \cup {LaneOf(t)} /\ (handles' \subseteq handles \/ (Doing(t) = "start" /\ ok))
      /\ lease' = lease \/ (Doing(t) = "start" /\ ok /\ lease' = [lease EXCEPT ![LaneOf(t)] = task[t].fence])
  BY DEF Return
<1>4. f <= granted /\ task[t].fence <= granted
  BY <1>1, UnderWay DEF Own, Knows
<1>5. /\ task[t].script # <<>> /\ Script(task[t].script) /\ LaneOf(t) \in LanesIn(task[t].script)
      /\ \A u \in Task : task[u].script # <<>> => LaneOf(u) \in LanesIn(task[u].script)
  BY <1>1, UnderWay, Callers, LanesLeft DEF Shaped, LaneOf
<1> HIDE DEF ok, f
<1>6. /\ x.pc \in {"idle", "begin"} /\ x.got = 0 /\ x.script = Rest(t, ok)
      /\ x.script # <<>> => x.fence = f
      /\ LanesIn(x.script) \subseteq LanesIn(task[t].script)
      /\ Starting(x) => Starting(task[t]) /\ Head(x.script).lane = LaneOf(t)
  BY <1>1, AfterFacts
<1>7. Starting(x) => handles' \subseteq handles
  <2>1. Doing(t) = "start" /\ ok => Rest(t, ok) = <<>>
    BY DEF Rest
  <2> QED
    BY <1>3, <1>6, <2>1 DEF Starting
<1> HIDE DEF x
<1>8. ASSUME NEW u \in Task \ {t}, task[u].script # <<>>, Doing(u) = "release"
      PROVE  lease'[LaneOf(u)] = lease[LaneOf(u)]
  <2>1. Doing(t) = "start" => LaneOf(u) # LaneOf(t)
    BY <1>1, <1>5, <1>8 DEF Track, Apart, Starting, Doing
  <2>2. lease \in [Private -> 0..MaxGrant]
    BY Parts DEF FacadeOK
  <2>3. Script(task[u].script) /\ Doing(u) \in Gateway
    BY <1>8, Callers DEF Shaped, Gateway
  <2>4. LaneOf(u) \in Private
    BY <1>8, <2>3, Scripts DEF Doing, LaneOf
  <2> QED
    BY <1>3, <2>1, <2>2, <2>4
<1>9. Spares(t)
  BY <1>1, <1>2, <1>8, SparesObject
<1>10. Own(t)'
  <2>1. task'[t] = x /\ x.got <= granted'
    BY <1>2, <1>6, Callers, Numbers
  <2> QED
    BY <1>2, <1>4, <1>6, <2>1, OwnAtRest
<1>11. MirrorsOK' /\ WireOK'
  BY <1>1, <1>2, <1>9, FewerMirrors, WireQuiet DEF Unanswered
<1>12. Apart'
  BY <1>2, <1>3, <1>5, <1>6, <1>7, ApartKept
<1>13. LeaseOK'
  <2>1. lease \in [Private -> 0..MaxGrant] /\ LeaseOK
    BY Parts DEF FacadeOK, Track
  <2> QED
    BY <1>2, <1>3, <1>4, <2>1 DEF LeaseOK
<1> QED
  BY <1>2, <1>9, <1>10, <1>11, <1>12, <1>13, StepTracks

----------------------------------------------------------------------------
(* The calls                                                               *)

\* A call begins, on lanes that are the facade's handles, or shared, or new.
LEMMA BeginTracks ==
    ASSUME Inv, Track, NEW t \in Task, NEW sc, NEW f, Begins(t, sc, f),
           UNCHANGED <<handles, lease>>,
           sc # <<>> /\ Head(sc).do \in Gateway => f <= granted,
           \/ /\ ~(sc # <<>> /\ Head(sc).do \in {"open", "start"})
              /\ LanesIn(sc) \subseteq handles \cup {Shared}
           \/ \E l \in Private \ used : LanesIn(sc) = {l} /\ sc # <<>> /\ Head(sc).lane = l
    PROVE  Track'
<1> DEFINE x == [Idle EXCEPT !.script = sc, !.pc = "begin", !.fence = f]
<1>1. /\ task[t].pc = "idle" /\ UNCHANGED <<edge, agent, wire>> /\ object' = object
      /\ task' = [task EXCEPT ![t] = x]
  BY DEF Begins, At, routerVars
<1>2. x.script = sc /\ x.pc = "begin" /\ x.fence = f /\ x.got = 0
  BY IdleShaped DEF Caller, State
<1> HIDE DEF x
<1>3. EdgeStep /\ granted' = granted /\ handles' = handles /\ lease' = lease
      /\ task'[t] = x /\ \A u \in Task \ {t} : task'[u] = task[u]
  BY <1>1, Callers DEF EdgeStep, agent
<1>4. Spares(t)
  BY <1>1, <1>3, SparesObject
<1>5. Own(t)'
  <2>1. x.got <= granted'
    BY <1>2, <1>3, Numbers
  <2> QED
    BY <1>2, <1>3, <2>1, OwnAtRest
<1>6. MirrorsOK' /\ WireOK'
  BY <1>1, <1>3, <1>4, FewerMirrors, WireQuiet DEF Unanswered, At
<1>7. Apart'
  <2>1. \A u \in Task : LanesIn(task[u].script) \subseteq used \cup {Shared}
    BY Callers DEF Marked, LanesIn
  <2>2. handles \subseteq used /\ used \subseteq Private /\ Shared \notin Private
    BY Parts, LaneAssumption DEF FacadeOK
  <2>3. \A u \in Task : task[u].script # <<>> => LaneOf(u) \in LanesIn(task[u].script)
    <3>1. \A u \in Task : Script(task[u].script)
      BY Callers DEF Shaped
    <3> QED
      BY <3>1, LanesLeft DEF LaneOf
  <2>4. \A u \in Task : Starting(task[u]) =>
          /\ LaneOf(u) \notin handles
          /\ \A v \in Task \ {u} : LaneOf(u) \notin LanesIn(task[v].script)
    BY DEF Track, Apart
  <2>5. ASSUME NEW u \in Task, Starting(task[u]) PROVE LaneOf(u) # Shared
    <3>1. Doing(u) \in Gateway
      BY <2>5 DEF Starting, Doing, Gateway
    <3>2. Script(task[u].script) /\ task[u].script # <<>>
      BY <2>5, Callers DEF Shaped, Starting
    <3>3. LaneOf(u) \in Private
      BY <3>1, <3>2, Scripts DEF Doing, LaneOf
    <3> QED
      BY <2>2, <3>3
  <2>6. ASSUME NEW u \in Task, Starting(task'[u])
        PROVE  /\ LaneOf(u)' \notin handles'
               /\ \A v \in Task \ {u} : LaneOf(u)' \notin LanesIn(task'[v].script)
    <3>1. CASE u = t
      <4>1. PICK l \in Private \ used : LanesIn(sc) = {l} /\ Head(sc).lane = l
        BY <1>2, <1>3, <2>6, <3>1 DEF Starting
      <4>2. LaneOf(u)' = l
        BY <1>2, <1>3, <3>1, <4>1 DEF LaneOf
      <4> QED
        BY <1>3, <2>1, <2>2, <3>1, <4>1, <4>2
    <3>2. CASE u # t
      <4>1. LaneOf(u)' = LaneOf(u) /\ Starting(task[u]) /\ LaneOf(u) \in LanesIn(task[u].script)
        BY <1>3, <2>3, <2>6, <3>2 DEF LaneOf, Starting
      <4>2. LaneOf(u) \notin LanesIn(sc)
        <5>1. LaneOf(u) \in used
          BY <2>1, <2>5, <4>1
        <5> QED
          BY <2>2, <2>4, <2>5, <4>1, <5>1
      <4> QED
        BY <1>2, <1>3, <2>4, <3>2, <4>1, <4>2
    <3> QED
      BY <3>1, <3>2
  <2> QED
    BY <2>6 DEF Apart, Starting, LanesIn
<1>8. LeaseOK'
  BY <1>3 DEF Track, LeaseOK
<1> QED
  BY <1>3, <1>4, <1>5, <1>6, <1>7, <1>8, StepTracks

\* The calls of the operators and of the facade.
LEMMA CallsTracks ==
    ASSUME Inv, Track, NEW t \in Task, Calls(t)
    PROVE  Track'
<1>1. handles \subseteq used /\ IsFiniteSet(used) /\ 0 <= granted
  BY Parts, Numbers DEF FacadeOK, Inv
<1>2. ASSUME NEW do \in {"r.open", "r.renew", "r.read", "r.close", "shutdown", "status", "input", "release"},
             NEW l \in handles \cup {Shared}, NEW f, Begins(t, <<Do(do, l)>>, f),
             UNCHANGED <<handles, lease>>, do \in Gateway => f = 0
      PROVE  Track'
  <2>1. <<Do(do, l)>> # <<>> /\ Head(<<Do(do, l)>>) = Do(do, l)
    BY Singles
  <2>2. Do(do, l).do = do
    BY DEF Do
  <2>3. LanesIn(<<Do(do, l)>>) \subseteq handles \cup {Shared}
    BY DEF LanesIn, Do
  <2> QED
    BY <1>1, <1>2, <2>1, <2>2, <2>3, BeginTracks
<1>3. ASSUME NEW sc, NEW a, NEW b, NEW c, NEW l, Fresh(l), Begins(t, sc, 0),
             sc = <<Do(a, l), Do(b, l), Do(c, l)>> \/ sc = <<Do(a, l), Do(b, l)>>,
             UNCHANGED <<handles, lease>>
      PROVE  Track'
  <2>1. l \in Private \ used
    BY <1>3 DEF Fresh
  <2>2. sc # <<>> /\ Head(sc).lane = l
    BY <1>3 DEF Do
  <2>3. LanesIn(sc) = {l}
    <3>1. CASE sc = <<Do(a, l), Do(b, l), Do(c, l)>>
      <4>1. 1 \in 1..Len(sc) /\ \A i \in 1..Len(sc) : sc[i].lane = l
        BY <3>1 DEF Do
      <4> QED
        BY <4>1 DEF LanesIn
    <3>2. CASE sc = <<Do(a, l), Do(b, l)>>
      <4>1. 1 \in 1..Len(sc) /\ \A i \in 1..Len(sc) : sc[i].lane = l
        BY <3>2 DEF Do
      <4> QED
        BY <4>1 DEF LanesIn
    <3> QED
      BY <1>3, <3>1, <3>2
  <2> QED
    BY <1>1, <1>3, <2>1, <2>2, <2>3, BeginTracks
<1>4. CASE shutdown(t)
  BY <1>2, <1>4 DEF shutdown, leases, Gateway
<1>5. CASE lane_open(t)
  BY <1>2, <1>5 DEF lane_open, leases, Gateway
<1>6. CASE lane_operation(t)
  BY <1>2, <1>6 DEF lane_operation, leases, Router, Gateway
<1>7. CASE read_call(t) \/ write_call(t)
  <2>1. PICK l \in Private :
          \E a, b, c : Fresh(l) /\ Begins(t, <<Do(a, l), Do(b, l), Do(c, l)>>, 0) /\ UNCHANGED <<handles, lease>>
    BY <1>7 DEF read_call, write_call, ephemeral
  <2> QED
    BY <1>3, <2>1
<1>8. CASE start_process(t)
  BY <1>3, <1>8 DEF start_process
<1>9. CASE process_operation(t)
  BY <1>2, <1>9 DEF process_operation, leases
<1>10. CASE release_process(t)
  BY <1>2, <1>10 DEF release_process, leases
<1>11. CASE drain(t)
  <2> DEFINE sc == [i \in 1..Cardinality(handles) |-> Do("release", SetToSeq(handles)[i])]
  <2>1. handles # {} /\ Begins(t, sc, 0) /\ UNCHANGED <<handles, lease>>
    BY <1>11 DEF drain, leases
  <2>5. Head(sc).do = "release" /\ \A i \in 1..Len(sc) : sc[i].lane \in handles
    BY <2>1, DrainScript
  <2>4. LanesIn(sc) \subseteq handles \cup {Shared}
    BY <2>5 DEF LanesIn
  <2> HIDE DEF sc
  <2> QED
    BY <1>1, <2>1, <2>4, <2>5, BeginTracks
<1> QED
  BY <1>4, <1>5, <1>6, <1>7, <1>8, <1>9, <1>10, <1>11 DEF Calls

----------------------------------------------------------------------------
(* The agent                                                               *)

\* The callers of a step of the agent: one may have its answer.
SameCalls ==
    \A t \in Task :
        /\ task'[t].script = task[t].script /\ task'[t].pc = task[t].pc /\ task'[t].fence = task[t].fence
        /\ task'[t].todo = task[t].todo /\ task'[t].at = task[t].at /\ task'[t].op = task[t].op
        /\ task'[t].failed = task[t].failed

\* A token that a caller wants closed has been issued.
LEMMA WantedIssued ==
    ASSUME Inv, Track, NEW t \in Task, At(t, "wait"), Doing(t) \in Closing
    PROVE  Wanted(t) <= granted
<1>1. task[t].pc = "wait" /\ task[t].at[1] \in Endpoint /\ task[t].script # <<>>
  BY UnderWay, Numbers DEF At
<1>2. CASE Doing(t) = "r.close"
  <2>1. task[t].fence \in Fence
    BY <1>1, <1>2, AtWork DEF Router
  <2> QED
    BY <1>1, <1>2, <2>1 DEF Wanted, Mirror, Track, MirrorsOK, Traced
<1>3. CASE Doing(t) = "close"
  BY <1>1, <1>3 DEF Wanted, Token, Track, Own, Knows, Gateway
<1>4. CASE Doing(t) = "release"
  <2>1. LaneOf(t) \in Private
    BY <1>1, <1>4, UnderWay DEF Gateway
  <2> QED
    BY <1>4, <2>1 DEF Wanted, Token, Track, LeaseOK
<1> QED
  BY <1>2, <1>3, <1>4 DEF Closing

\* A step of the agent: lanes go, or one comes with a new token, and whoever
\* has its answer has no request under way any more.
LEMMA AgentTracks ==
    ASSUME Inv, Track, UNCHANGED edge, UNCHANGED <<object, handles, lease>>, wire' \subseteq wire,
           granted' \in {granted, granted + 1}, SameCalls,
           \A h \in held' : h \in held \/ (h.grant = granted' /\ granted' = granted + 1),
           \A t \in Task :
               \/ task'[t].ans = task[t].ans /\ task'[t].got = task[t].got
               \/ /\ task[t].pc = "wait" /\ \A m \in wire' : m.t # t
                  /\ task'[t].got <= granted'
                  /\ task[t].op # "open" \/ task'[t].ans # "ok" => task'[t].got = 0
                  /\ \A h \in held' : h.grant = task'[t].got => h.s = task[t].at[2]
                  /\ Doing(t) \in Closing /\ task'[t].ans = "ok" => \A h \in held' : h.grant # Wanted(t)
    PROVE  Track'
<1>1. /\ Open' = Open /\ (\A e, s : Ours(e, s)' = Ours(e, s))
      /\ \A t \in Task : /\ Doing(t)' = Doing(t) /\ LaneOf(t)' = LaneOf(t) /\ (AtIt(t)' <=> AtIt(t))
                         /\ (\A pc : At(t, pc)' <=> At(t, pc)) /\ (\A l : Mirror(t, l)' = Mirror(t, l))
                         /\ Token(t)' = Token(t) /\ Wanted(t)' = Wanted(t)
                         /\ (Starting(task'[t]) <=> Starting(task[t]))
  <2>1. Open' = Open /\ (\A e, s : Ours(e, s)' = Ours(e, s))
    BY DEF edge, Open, Ours
  <2> SUFFICES ASSUME NEW t \in Task
               PROVE  /\ Doing(t)' = Doing(t) /\ LaneOf(t)' = LaneOf(t) /\ (AtIt(t)' <=> AtIt(t))
                      /\ (\A pc : At(t, pc)' <=> At(t, pc)) /\ (\A l : Mirror(t, l)' = Mirror(t, l))
                      /\ Token(t)' = Token(t) /\ Wanted(t)' = Wanted(t)
                      /\ (Starting(task'[t]) <=> Starting(task[t]))
    BY <2>1
  <2>2. /\ task'[t].pc = task[t].pc /\ task'[t].script = task[t].script /\ task'[t].fence = task[t].fence
        /\ task'[t].at = task[t].at
    BY DEF SameCalls
  <2>3. Doing(t)' = Doing(t) /\ LaneOf(t)' = LaneOf(t) /\ (Starting(task'[t]) <=> Starting(task[t]))
    BY <2>2 DEF Doing, LaneOf, Starting
  <2>4. (AtIt(t)' <=> AtIt(t)) /\ (\A pc : At(t, pc)' <=> At(t, pc)) /\ (\A l : Mirror(t, l)' = Mirror(t, l))
    BY <2>2 DEF AtIt, At, Mirror
  <2>5. Token(t)' = Token(t)
    BY <2>2, <2>3 DEF Token
  <2> QED
    BY <2>2, <2>3, <2>4, <2>5 DEF Wanted
<1>2. granted \in Nat /\ granted <= granted' /\ \A h \in held : h.grant \in Nat /\ h.grant <= granted
  BY Numbers DEF Track, HeldOK
<1>3. LiveOK' /\ HeldOK'
  <2>1. LiveOK'
    BY DEF Track, LiveOK, edge
  <2>2. HeldOK'
    BY <1>1, <1>2 DEF Track, HeldOK
  <2> QED
    BY <2>1, <2>2
<1>4. ASSUME NEW g \in Nat, g <= granted, NEW h \in held', h.grant = g PROVE h \in held
  BY <1>2, <1>4
<1>5. MirrorsOK'
  <2>1. ASSUME NEW n \in Fence, NEW e \in Endpoint PROVE Traced(e, object[n].mirrors[e])'
    <3>1. Traced(e, object[n].mirrors[e]) /\ object[n].mirrors[e].grant \in Nat
      BY Numbers DEF Track, MirrorsOK
    <3> QED
      BY <1>1, <1>2, <1>4, <3>1 DEF Traced
  <2> QED
    BY <2>1 DEF MirrorsOK
<1>6. ASSUME NEW t \in Task PROVE Own(t)'
  <2>0. Own(t) /\ task[t].got \in Nat
    BY Numbers DEF Track
  <2>1. Locked(t)' /\ Closes(t)' /\ Reads(t)'
    BY <1>1, <2>0 DEF SameCalls, Own, Locked, Closes, Reads
  <2>2. Waiting(t)' /\ Knows(t)' /\ Gone(t)'
    <3>1. CASE task'[t].ans = task[t].ans /\ task'[t].got = task[t].got
      <4>1. Knows(t)'
        BY <1>1, <1>2, <2>0, <3>1, Numbers DEF SameCalls, Own, Knows
      <4>2. Waiting(t)'
        BY <1>1, <1>4, <2>0, <3>1 DEF SameCalls, Own, Waiting, Knows
      <4>3. Gone(t)'
        BY <1>1, <1>2, <2>0, <3>1, WantedIssued DEF SameCalls, Own, Gone
      <4> QED
        BY <4>1, <4>2, <4>3
    <3>2. CASE /\ task[t].pc = "wait"
               /\ task'[t].got <= granted'
               /\ task[t].op # "open" \/ task'[t].ans # "ok" => task'[t].got = 0
               /\ \A h \in held' : h.grant = task'[t].got => h.s = task[t].at[2]
               /\ Doing(t) \in Closing /\ task'[t].ans = "ok" => \A h \in held' : h.grant # Wanted(t)
      <4>1. Knows(t)'
        BY <1>1, <1>2, <2>0, <3>2, Numbers DEF SameCalls, Own, Knows
      <4>2. Waiting(t)'
        BY <1>1, <2>0, <3>2 DEF SameCalls, Own, Waiting, At
      <4>3. Gone(t)'
        BY <1>1, <3>2 DEF Gone
      <4> QED
        BY <4>1, <4>2, <4>3
    <3> QED
      BY <3>1, <3>2
  <2> QED
    BY <2>1, <2>2 DEF Own
<1>7. WireOK'
  <2>1. ASSUME NEW m \in wire' PROVE Delivers(m)'
    <3>1. Delivers(m) /\ (m.t # None => m.t \in Task)
      BY Parts DEF Track, WireOK, Request
    <3>2. m.t # None => task'[m.t].ans = task[m.t].ans
      BY <3>1
    <3> QED
      BY <1>1, <3>1, <3>2 DEF Delivers, SameCalls
  <2>2. \A m, k \in wire' : m.t # None /\ m.t = k.t => m = k
    BY DEF Track, WireOK
  <2> QED
    BY <2>1, <2>2 DEF WireOK
<1>8. Apart'
  BY <1>1 DEF Track, Apart, SameCalls
<1>9. LeaseOK'
  <2>1. \A l \in Private : lease[l] \in Nat /\ lease[l] <= granted
    BY Numbers DEF Track, LeaseOK
  <2> QED
    BY <1>2, <2>1 DEF LeaseOK
<1> QED
  BY <1>3, <1>5, <1>6, <1>7, <1>8, <1>9 DEF Track

\* The agent serves a request, or ends a lane or a session.
LEMMA WorldTracks ==
    ASSUME Inv, Track, World
    PROVE  Track'
<1>0. UNCHANGED <<object, handles, lease>> /\ UNCHANGED edge /\ granted \in Nat
  BY Numbers DEF World, routerVars, facadeVars, leases, Serve, LaneEnds, SessionEnds
<1>1. \A h \in held : h.grant \in Nat \ {0} /\ h.grant <= granted
  BY Numbers DEF Track, HeldOK
<1>2. ASSUME NEW h \in held, LaneEnds(h) PROVE Track'
  <2>1. UNCHANGED <<granted, wire, task>> /\ held' \subseteq held
    BY <1>2 DEF LaneEnds
  <2>2. SameCalls
    BY <2>1 DEF SameCalls
  <2> QED
    BY <1>0, <2>1, <2>2, AgentTracks
<1>3. ASSUME NEW m \in wire, Serve(m) PROVE Track'
  <2>1. wire' = wire \ {m} /\ m \in Request /\ Delivers(m)
        /\ \A k \in wire' : m.t # None => k.t # m.t
    BY <1>3, Parts DEF Serve, Track, WireOK
  <2>2. m.t \in Task \cup {None}
    BY <2>1 DEF Request
  <2>3. ASSUME NEW ans, NEW got, NEW arrives, arrives => m.t # None, Answer(m, ans, got, arrives),
               granted' \in {granted, granted + 1}, got <= granted', got \in Nat,
               \A h \in held' : h \in held \/ (h.grant = granted' /\ granted' = granted + 1),
               m.op # "open" \/ ans # "ok" => got = 0,
               \A h \in held' : h.grant = got => h.s = m.s,
               ans = "ok" /\ m.op = "close" => \A h \in held' : h.grant # m.grant
        PROVE  Track'
    <3>1. CASE UNCHANGED task
      <4>1. SameCalls
        BY <3>1 DEF SameCalls
      <4> QED
        BY <1>0, <2>1, <2>3, <3>1, <4>1, AgentTracks
    <3>2. CASE m.t # None /\ task' = [task EXCEPT ![m.t].ans = ans, ![m.t].got = got]
      <4> DEFINE t == m.t
                 x == [task[t] EXCEPT !.ans = ans, !.got = got]
      <4>1. t \in Task
        BY <2>2, <3>2
      <4>2. /\ task[t].pc = "wait" /\ task[t].op = m.op /\ task[t].at[2] = m.s
            /\ Doing(t) \in Closing => m.grant = Wanted(t)
            /\ Own(t) /\ At(t, "wait") /\ task[t] \in Caller
        BY <2>1, <3>2, <4>1, UnderWay DEF Delivers, At, Track
      <4>3. task' = [task EXCEPT ![t] = x]
        BY <3>2, <4>1, Callers
      <4>4. /\ x.ans = ans /\ x.got = got /\ x.script = task[t].script /\ x.pc = task[t].pc
            /\ x.fence = task[t].fence /\ x.todo = task[t].todo /\ x.at = task[t].at /\ x.op = task[t].op
            /\ x.failed = task[t].failed
        BY <4>2 DEF Caller, State
      <4> HIDE DEF x
      <4>5. task'[t] = x /\ \A u \in Task \ {t} : task'[u] = task[u]
        BY <4>1, <4>3, Callers
      <4>6. SameCalls
        BY <4>4, <4>5 DEF SameCalls
      <4>7. Doing(t) \in Closing => m.op = "close"
        BY <4>2 DEF Closing, Own, Waiting, OpsOf, Gateway, Operation
      <4>8. \A k \in wire' : k.t # t
        BY <2>1, <3>2
      <4>9. /\ task'[t].got <= granted'
            /\ task[t].op # "open" \/ task'[t].ans # "ok" => task'[t].got = 0
            /\ \A h \in held' : h.grant = task'[t].got => h.s = task[t].at[2]
            /\ Doing(t) \in Closing /\ task'[t].ans = "ok" => \A h \in held' : h.grant # Wanted(t)
        BY <2>3, <4>2, <4>4, <4>5, <4>7
      <4> HIDE DEF t
      <4>10. \A u \in Task :
               \/ task'[u].ans = task[u].ans /\ task'[u].got = task[u].got
               \/ /\ task[u].pc = "wait" /\ \A k \in wire' : k.t # u
                  /\ task'[u].got <= granted'
                  /\ task[u].op # "open" \/ task'[u].ans # "ok" => task'[u].got = 0
                  /\ \A h \in held' : h.grant = task'[u].got => h.s = task[u].at[2]
                  /\ Doing(u) \in Closing /\ task'[u].ans = "ok" => \A h \in held' : h.grant # Wanted(u)
        BY <4>2, <4>5, <4>8, <4>9
      <4>11. wire' \subseteq wire
        BY <2>1
      <4> QED
        BY <1>0, <2>3, <4>6, <4>10, <4>11, AgentTracks
    <3> QED
      BY <2>3, <3>1, <3>2 DEF Answer
  <2>4. PICK arrives : (arrives => m.t # None) /\ (ServeOpen(m, arrives) \/ ServeOn(m, arrives))
    BY <1>3 DEF Serve
  <2>5. CASE Refuse(m, arrives)
    <3>1. Answer(m, "refused", 0, arrives) /\ held' = held /\ granted' = granted
      BY <2>5 DEF Refuse
    <3>2. 0 <= granted' /\ \A h \in held' : h.grant # 0
      BY <1>0, <1>1, <3>1
    <3> QED
      BY <2>3, <2>4, <3>1, <3>2
  <2>6. CASE ServeOpen(m, arrives) /\ ~Refuse(m, arrives)
    <3>1. /\ m.op = "open" /\ granted' = granted + 1 /\ Answer(m, "ok", granted', arrives)
          /\ held' = held \cup {[lane |-> m.lane, s |-> m.s, grant |-> granted']}
      BY <2>6 DEF ServeOpen
    <3>2. granted' \in Nat /\ \A h \in held : h.grant # granted'
      BY <1>0, <1>1, <3>1
    <3>3. \A h \in held' : h \in held \/ (h.s = m.s /\ h.grant = granted')
      BY <3>1
    <3> QED
      BY <2>1, <2>3, <2>4, <3>1, <3>2, <3>3
  <2>7. CASE ServeOn(m, arrives) /\ ~Refuse(m, arrives)
    <3>1. /\ m.op # "open" /\ granted' = granted /\ Answer(m, "ok", 0, arrives)
          /\ held' = IF m.op = "close" THEN {h \in held : h.grant # m.grant} ELSE held
      BY <2>7 DEF ServeOn
    <3>2. held' \subseteq held /\ (m.op = "close" => \A h \in held' : h.grant # m.grant)
      BY <3>1
    <3>3. 0 <= granted' /\ \A h \in held' : h.grant # 0
      BY <1>0, <1>1, <3>1, <3>2
    <3> QED
      BY <2>3, <2>4, <3>1, <3>2, <3>3
  <2> QED
    BY <2>4, <2>5, <2>6, <2>7
<1>4. ASSUME NEW s, SessionEnds(s) PROVE Track'
  <2>1. UNCHANGED <<granted, task>> /\ held' \subseteq held /\ wire' \subseteq wire
    BY <1>4 DEF SessionEnds
  <2>2. SameCalls
    BY <2>1 DEF SameCalls
  <2> QED
    BY <1>0, <2>1, <2>2, AgentTracks
<1> QED
  BY <1>2, <1>3, <1>4 DEF World

----------------------------------------------------------------------------
(* Every step                                                              *)

\* The router's steps.
LEMMA RouterTracks ==
    ASSUME Inv, Track, NEW t \in Task, RouterStep(t), UNCHANGED facadeVars
    PROVE  Track'
<1>1. CASE NoTimeLeft(t) \/ Exhausted(t)
  <2>1. /\ task[t].pc = "turn" /\ Doing(t) \in Router /\ UNCHANGED <<edge, agent>> /\ Asksnot(t)
        /\ \E ok : Concludes(t, ok)
    BY <1>1 DEF NoTimeLeft, Exhausted, At, Router, Asksnot
  <2> QED
    BY <2>1, ConcludesTracks
<1>2. CASE NotMirrored(t) \/ Read(t)
  <2>1. /\ task[t].pc = "wait" /\ Doing(t) \in Router /\ UNCHANGED <<edge, agent>> /\ Asksnot(t)
        /\ \E ok : Concludes(t, ok)
    BY <1>2 DEF NotMirrored, Read, Answered, At, Router, Asksnot
  <2> QED
    BY <2>1, ConcludesTracks
<1>3. CASE Renewed(t)
  <2>1. /\ task[t].pc = "wait" /\ Doing(t) = "r.renew" /\ Doing(t) \in Router /\ Asksnot(t)
        /\ Onward(t, task[t].ans = "refused", FALSE) /\ (task[t].ans = "refused") \in BOOLEAN
    BY <1>3 DEF Renewed, Answered, At, Router, Asksnot
  <2> QED
    BY <2>1, OnwardTracks
<1>4. CASE Closed(t)
  <2>1. /\ task[t].pc = "wait" /\ Doing(t) = "r.close" /\ Doing(t) \in Router /\ Asksnot(t)
        /\ Onward(t, task[t].ans = "ok", task[t].ans = "refused") /\ task[t].ans # "none"
    BY <1>4 DEF Closed, Answered, At, Router, Asksnot
  <2>2. task[t].ans \in {"none", "ok", "refused"}
    BY <2>1, UnderWay DEF Caller, State
  <2>3. (task[t].ans = "ok") \in BOOLEAN /\ (task[t].ans = "refused") \in BOOLEAN
    OBVIOUS
  <2> QED
    BY <2>1, <2>2, <2>3, OnwardTracks
<1>5. CASE Lost(t)
  <2>1. /\ task[t].pc = "wait" /\ Doing(t) \in Router
        /\ Onward(t, Doing(t) = "r.renew", Doing(t) = "r.close") /\ wire' = Leaves(t)
    BY <1>5 DEF Lost, Unanswered, At
  <2>2. Asksnot(t)
    BY <2>1 DEF Asksnot, Onward
  <2>3. (Doing(t) = "r.renew") \in BOOLEAN /\ (Doing(t) = "r.close") \in BOOLEAN
    OBVIOUS
  <2> QED
    BY <2>1, <2>2, <2>3, OnwardTracks
<1>6. CASE Broken(t)
  <2>1. /\ task[t].pc = "wait" /\ Doing(t) \in Router /\ UNCHANGED <<edge, agent>> /\ Asksnot(t)
        /\ Concludes(t, FALSE)
    BY <1>6 DEF Broken, Unanswered, At, Asksnot
  <2> QED
    BY <2>1, ConcludesTracks
<1> QED
  BY <1>1, <1>2, <1>3, <1>4, <1>5, <1>6, OpensTracks, RequireTracks, AcquireTracks, AskTracks,
     MirroredTracks DEF RouterStep

\* A lane object's time is up, or nothing happens.
LEMMA ExpireTracks ==
    ASSUME Inv, Track, UNCHANGED runtimeVars, UNCHANGED <<handles, lease>>,
           \A n \in Fence : /\ object'[n].mirrors = object[n].mirrors
                            /\ object'[n].holder = object[n].holder
    PROVE  Track'
<1>1. /\ UNCHANGED <<edge, agent, wire, task>> /\ held' = held /\ granted' = granted /\ Open' = Open
      /\ \A e, s : Ours(e, s)' = Ours(e, s)
      /\ \A t \in Task : /\ Doing(t)' = Doing(t) /\ LaneOf(t)' = LaneOf(t) /\ (AtIt(t)' <=> AtIt(t))
                         /\ (\A pc : At(t, pc)' <=> At(t, pc)) /\ Token(t)' = Token(t)
  BY DEF runtimeVars, agent, edge, Open, Ours, Doing, LaneOf, AtIt, At, Token
<1>2. LiveOK' /\ HeldOK' /\ Apart' /\ LeaseOK'
  BY <1>1 DEF Track, LiveOK, HeldOK, Apart, LeaseOK, edge
<1>3. MirrorsOK'
  BY <1>1 DEF Track, MirrorsOK, Traced
<1>4. ASSUME NEW t \in Task, AtIt(t), Doing(t) \in Router
      PROVE  /\ task[t].fence \in Fence /\ \A l : Mirror(t, l)' = Mirror(t, l)
  BY <1>1, <1>4, AtWork DEF AtIt, Mirror
<1>5. ASSUME NEW t \in Task, At(t, "wait") PROVE Wanted(t)' = Wanted(t)
  BY <1>1, <1>4, <1>5 DEF Wanted, At, AtIt, Router
<1>6. ASSUME NEW t \in Task PROVE Own(t)'
  <2>0. Own(t)
    BY DEF Track
  <2>1. Waiting(t)' /\ Knows(t)' /\ Gone(t)'
    BY <1>1, <1>5, <2>0 DEF Own, Waiting, Knows, Gone
  <2>2. Locked(t)'
    BY <1>1, <1>4, <2>0 DEF Own, Locked
  <2>3. Closes(t)'
    BY <1>1, <1>4, <2>0 DEF Own, Closes, Router
  <2>4. Reads(t)'
    BY <1>1, <1>4, <2>0 DEF Own, Reads, Router
  <2> QED
    BY <2>1, <2>2, <2>3, <2>4 DEF Own
<1>7. WireOK'
  <2>1. ASSUME NEW m \in wire PROVE Delivers(m)'
    <3>1. Delivers(m) /\ (m.t # None => m.t \in Task)
      BY Parts DEF Track, WireOK, Request
    <3> QED
      BY <1>1, <1>5, <3>1 DEF Delivers
  <2> QED
    BY <1>1, <2>1 DEF Track, WireOK
<1> QED
  BY <1>2, <1>3, <1>6, <1>7 DEF Track

\* At first nothing is held and nobody is at work.
LEMMA TrackInit == ASSUME Init, Inv PROVE Track
<1>1. /\ live = [e \in Endpoint |-> 0] /\ made = 0 /\ held = {} /\ granted = 0 /\ wire = {} /\ handles = {}
      /\ \A t \in Task : task[t] = Idle
      /\ \A n \in Fence : object[n].mirrors = [e \in Endpoint |-> NoMirror]
      /\ \A l \in Private : lease[l] = 0
  BY DEF Init
<1>2. Idle.script = <<>> /\ Idle.pc = "idle" /\ Idle.got = 0
  BY IdleShaped
<1>3. LiveOK /\ HeldOK /\ WireOK /\ LeaseOK
  BY <1>1 DEF LiveOK, HeldOK, WireOK, LeaseOK
<1>4. Apart
  BY <1>1, <1>2 DEF Apart, Starting
<1>5. MirrorsOK
  <2>1. NoMirror.s = 0 /\ NoMirror.grant = 0 /\ 0 \notin Open
    BY DEF NoMirror, Open
  <2> QED
    BY <1>1, <2>1 DEF MirrorsOK, Traced, Ours
<1>6. ASSUME NEW t \in Task PROVE Own(t)
  BY <1>1, <1>2 DEF Own, Waiting, Knows, Gone, Locked, Closes, Reads, AtIt, At
<1> QED
  BY <1>3, <1>4, <1>5, <1>6 DEF Track

\* Every step keeps track.
LEMMA TrackNext ==
    ASSUME Inv, Track, [Next]_vars
    PROVE  Track'
<1>1. ASSUME NEW t \in Task, Steps(t) PROVE Track'
  <2>1. CASE RuntimeStep(t)
    BY <2>1, RuntimeTracks
  <2>2. CASE RouterStep(t) /\ UNCHANGED facadeVars
    BY <2>2, RouterTracks
  <2>3. CASE CallStep(t)
    BY <2>3, CallEndTracks, CallTracks, ReturnTracks DEF CallStep
  <2> QED
    BY <1>1, <2>1, <2>2, <2>3 DEF Steps
<1>2. ASSUME NEW t \in Task, Calls(t) \/ Cancel(t) PROVE Track'
  BY <1>2, CallsTracks, CancelTracks
<1>3. ASSUME NEW n \in Fence, Expire(n), UNCHANGED facadeVars PROVE Track'
  <2>1. object \in [Fence -> Object]
    BY Parts DEF RouterOK
  <2>2. \A k \in Fence : object'[k].mirrors = object[k].mirrors /\ object'[k].holder = object[k].holder
    BY <1>3, <2>1 DEF Expire, Object
  <2> QED
    BY <1>3, <2>2, ExpireTracks DEF Expire, facadeVars, leases
<1>4. CASE UNCHANGED vars
  BY <1>4, ExpireTracks DEF vars, facadeVars, leases, routerVars
<1> QED
  BY <1>1, <1>2, <1>3, <1>4, WorldTracks DEF Next

----------------------------------------------------------------------------
(* Who answers for a lane after a step.                                    *)

\* One caller's step: the others answer for their lanes as before.
LEMMA LeftKept ==
    ASSUME Inv, NoSilentLeftover, NEW t \in Task, \A u \in Task \ {t} : task'[u] = task[u],
           held' \subseteq held, UNCHANGED excused \/ \E G : Excuses(G),
           \A h \in held' : ByMirror(h) \/ ByHandle(h) \/ ByCall(t, h) =>
               h.grant \in excused' \/ ByMirror(h)' \/ ByHandle(h)' \/ ByCall(t, h)'
    PROVE  NoSilentLeftover'
<1> SUFFICES ASSUME NEW h \in held' PROVE h.grant \in excused' \/ Accounted(h)'
  BY DEF NoSilentLeftover
<1>1. h.grant \in excused => h.grant \in excused'
  BY DEF Excuses
<1>2. ByMirror(h)' \/ ByHandle(h)' \/ (\E u \in Task : ByCall(u, h)') => Accounted(h)'
  BY DEF Accounted, ByMirror, ByHandle, ByCall
<1>3. h.grant \in excused \/ ByMirror(h) \/ ByHandle(h) \/ \E u \in Task : ByCall(u, h)
  BY DEF NoSilentLeftover, Accounted, ByMirror, ByHandle, ByCall
<1>4. ASSUME NEW u \in Task \ {t}, ByCall(u, h) PROVE ByCall(u, h)'
  BY <1>4 DEF ByCall, At, Doing, LaneOf
<1> QED
  BY <1>1, <1>2, <1>3, <1>4

\* A mirror of the current object that stays still answers.
LEMMA MirrorStays ==
    ASSUME Inv, NEW h \in held, ByMirror(h), lanes'[h.lane] = lanes[h.lane],
           \A e \in Endpoint :
               LET m == object[lanes[h.lane]].mirrors[e]
               IN m # NoMirror /\ m.grant = h.grant => object'[lanes[h.lane]].mirrors[e] = m
    PROVE  ByMirror(h)'
<1> DEFINE n == lanes[h.lane]
<1>1. n # 0 /\ \E e \in Endpoint : object[n].mirrors[e] # NoMirror /\ object[n].mirrors[e].grant = h.grant
  BY DEF ByMirror, Tokens, Mirrors
<1>2. PICK e \in Endpoint : object[n].mirrors[e] # NoMirror /\ object[n].mirrors[e].grant = h.grant
  BY <1>1
<1>3. object'[n].mirrors[e] = object[n].mirrors[e]
  BY <1>2
<1>5. lanes'[h.lane] = n
  OBVIOUS
<1> HIDE DEF n
<1>4. h.grant \in {m.grant : m \in {object'[n].mirrors[d] : d \in Endpoint} \ {NoMirror}}
  BY <1>2, <1>3
<1> QED
  BY <1>1, <1>4, <1>5 DEF ByMirror, Tokens, Mirrors

\* A lane's object is one of the router's.
LEMMA LanesFenced == ASSUME Inv, NEW h \in held PROVE lanes[h.lane] \in 0..MaxFence /\ (lanes[h.lane] # 0 => lanes[h.lane] \in Fence)
<1>1. lanes \in [Lane -> 0..MaxFence] /\ MaxFence \in Nat
  BY Parts, FenceAssumption DEF RouterOK
<1>2. h.lane \in Lane
  BY Numbers
<1> QED
  BY <1>1, <1>2 DEF Fence

\* A step that leaves the router's lanes and mirrors and the handles alone.
LEMMA LeftByCall ==
    ASSUME Inv, NoSilentLeftover, NEW t \in Task, NEW x, task' = [task EXCEPT ![t] = x],
           held' \subseteq held, UNCHANGED excused \/ \E G : Excuses(G),
           lanes' = lanes, SameMirrors, UNCHANGED <<handles, lease>>,
           \A h \in held' : ByCall(t, h) => h.grant \in excused' \/ ByMirror(h)' \/ ByCall(t, h)'
    PROVE  NoSilentLeftover'
<1>1. \A u \in Task \ {t} : task'[u] = task[u]
  BY Callers
<1>2. ASSUME NEW h \in held', ByMirror(h) PROVE ByMirror(h)'
  <2>1. lanes[h.lane] \in Fence
    BY <1>2, LanesFenced DEF ByMirror
  <2> QED
    BY <1>2, <2>1, MirrorStays DEF SameMirrors
<1>3. ASSUME NEW h \in held', ByHandle(h) PROVE ByHandle(h)'
  BY <1>3 DEF ByHandle
<1> QED
  BY <1>1, <1>2, <1>3, LeftKept

\* A caller that is not at a lane of its own answers for none.
LEMMA NoCall ==
    ASSUME Inv, Track, NEW t \in Task, NEW h \in held, ByCall(t, h)
    PROVE  /\ task[t].pc # "idle" /\ LaneOf(t) = h.lane
           /\ \/ Doing(t) \in {"call", "start", "close"} /\ task[t].fence = h.grant
              \/ /\ task[t].pc = "wait" /\ task[t].op = "open" /\ task[t].ans = "ok"
                 /\ task[t].got = h.grant /\ Doing(t) \in {"r.open", "r.read", "open"}
<1>1. task[t].pc # "idle" /\ LaneOf(t) = h.lane /\ h.grant # 0
  BY Numbers DEF ByCall, At
<1>2. ASSUME At(t, "wait"), task[t].got = h.grant
      PROVE  /\ task[t].op = "open" /\ task[t].ans = "ok"
             /\ Doing(t) \in {"r.open", "r.read", "open"}
  <2>1. task[t].op = "open" /\ task[t].ans = "ok" /\ task[t].op \in OpsOf(Doing(t))
    BY <1>1, <1>2 DEF Track, Own, Waiting
  <2>2. Doing(t) \in Router \cup Gateway \cup {"shutdown"}
    BY <1>1, UnderWay
  <2>3. CASE Doing(t) \in Gateway
    BY <2>1, <2>3 DEF OpsOf, Gateway, Operation
  <2>4. CASE Doing(t) \notin Gateway
    BY <2>1, <2>2, <2>4 DEF OpsOf, Router
  <2> QED
    BY <2>1, <2>3, <2>4
<1> QED
  BY <1>1, <1>2 DEF ByCall, At

\* A caller that goes on to the close of its lane, or that says it is not closed.
LEMMA EndsLeft ==
    ASSUME Inv, NEW t \in Task, task[t].pc # "idle", NEW ok, NEW f, Ends(t, ok, f),
           NEW h \in held', LaneOf(t) = h.lane, f = h.grant,
           \/ Doing(t) \in {"call", "start", "close"} /\ (ok => Doing(t) = "call")
           \/ Doing(t) = "open" /\ ok
    PROVE  h.grant \in excused' \/ ByCall(t, h)'
<1> DEFINE x == After(t, ok, f)
<1>1. /\ x.script = Rest(t, ok) /\ (Rest(t, ok) # <<>> => x.pc = "begin" /\ x.fence = f)
  BY AfterFacts
<1>2. /\ task[t].script # <<>> /\ Script(task[t].script) /\ LaneOf(t) \in Private
      /\ Doing(t) \in Gateway
  <2>1. Doing(t) \in Gateway
    BY DEF Gateway
  <2> QED
    BY <2>1, UnderWay DEF Shaped
<1>3. task'[t] = x
  BY Callers DEF Ends
<1> HIDE DEF x
<1>4. ASSUME Rest(t, ok) # <<>>, Head(Rest(t, ok)).do \in {"call", "start", "close"},
             Head(Rest(t, ok)).lane = LaneOf(t)
      PROVE  ByCall(t, h)'
  BY <1>1, <1>3, <1>4 DEF ByCall, At, Doing, LaneOf
<1>5. CASE Doing(t) = "call" \/ (Doing(t) = "open" /\ ok)
  <2>1. Rest(t, ok) = Tail(task[t].script)
    BY <1>5 DEF Rest
  <2>2. Tail(task[t].script) # <<>> /\ Head(Tail(task[t].script)).do \in {"call", "start", "close"}
        /\ Head(Tail(task[t].script)).lane = LaneOf(t)
    BY <1>2, <1>5, ScriptNext DEF Doing, LaneOf
  <2> QED
    BY <1>4, <2>1, <2>2
<1>6. CASE Doing(t) = "start" /\ ~ok
  <2>1. Rest(t, ok) = <<[do |-> "close", lane |-> LaneOf(t)]>>
    BY <1>6 DEF Rest
  <2>2. Rest(t, ok) # <<>> /\ Head(Rest(t, ok)).do = "close" /\ Head(Rest(t, ok)).lane = LaneOf(t)
    BY <2>1, Singles
  <2> QED
    BY <1>4, <2>2
<1>7. CASE Doing(t) = "close" /\ ~ok
  <2>1. LaneOf(t) # Shared
    BY <1>2, LaneAssumption
  <2>2. Outcome(t, ok) # "ok"
    BY <1>7, <2>1 DEF Outcome, Reported
  <2> QED
    BY <1>7, <2>2 DEF Ends, Excuses
<1> QED
  BY <1>5, <1>6, <1>7

\* ensure_started, its failure, and the end of the service.
LEMMA RuntimeLeft ==
    ASSUME Inv, Track, NoSilentLeftover, NEW t \in Task, RuntimeStep(t)
    PROVE  NoSilentLeftover'
<1>1. /\ task[t].pc = "begin" /\ object' = object /\ lanes' = lanes /\ UNCHANGED <<handles, lease>>
      /\ SameMirrors /\ task[t] \in Caller
  BY UnderWay DEF RuntimeStep, routerVars, facadeVars, leases, At, SameMirrors
<1>2. held' \subseteq held
  BY RuntimeTracks, EdgesAgent
<1>3. \A h \in held : ByCall(t, h) => /\ LaneOf(t) = h.lane /\ Doing(t) \in {"call", "start", "close"}
                                      /\ task[t].fence = h.grant
  BY <1>1, NoCall
<1>4. CASE ensure_started(t)
  <2> DEFINE x == [task[t] EXCEPT !.pc = "enter"]
  <2>1. x.pc = "enter" /\ x.script = task[t].script /\ x.fence = task[t].fence
    BY <1>1 DEF Caller, State
  <2>2. task' = [task EXCEPT ![t] = x] /\ Excuses({})
    BY <1>4 DEF ensure_started
  <2> HIDE DEF x
  <2>3. \A h \in held : ByCall(t, h) => ByCall(t, h)'
    BY <1>3, <2>1, <2>2, Callers DEF ByCall, At, Doing, LaneOf
  <2> QED
    BY <1>1, <1>2, <2>2, <2>3, LeftByCall
<1>5. CASE NotStarted(t)
  <2>1. Ends(t, FALSE, task[t].fence)
    BY <1>5 DEF NotStarted
  <2>2. (\E G : Excuses(G)) /\ task' = [task EXCEPT ![t] = After(t, FALSE, task[t].fence)]
    BY <2>1 DEF Ends
  <2>3. \A h \in held' : ByCall(t, h) => h.grant \in excused' \/ ByCall(t, h)'
    BY <1>1, <1>2, <1>3, <2>1, EndsLeft
  <2> QED
    BY <1>1, <1>2, <2>2, <2>3, LeftByCall
<1>6. CASE Shutdown(t)
  <2>1. task' = [task EXCEPT ![t] = Idle] /\ Excuses({}) /\ Doing(t) = "shutdown"
    BY <1>6 DEF Shutdown
  <2> QED
    BY <1>1, <1>2, <1>3, <2>1, LeftByCall
<1> QED
  BY <1>4, <1>5, <1>6 DEF RuntimeStep

\* The operations that end before they have the lock.
LEMMA RequireLeft ==
    ASSUME Inv, Track, NoSilentLeftover, NEW t \in Task,
           AlreadyActive(t) \/ Unowned(t) \/ TooLate(t) \/ Require(t), UNCHANGED facadeVars
    PROVE  NoSilentLeftover'
<1>1. /\ task[t].pc \in {"enter", "lock"} /\ Doing(t) \in Router
      /\ held' = held /\ object' = object /\ UNCHANGED <<handles, lease>> /\ SameMirrors
      /\ UNCHANGED excused \/ \E G : Excuses(G)
      /\ \E x : task' = [task EXCEPT ![t] = x]
  BY DEF AlreadyActive, Unowned, TooLate, Require, AtRequire, At, Router, agent, facadeVars, leases,
         SameMirrors, routerVars, Ends
<1>2. \A h \in held : ~ByCall(t, h)
  <2>1. Doing(t) \notin {"call", "start", "close"}
    BY <1>1 DEF Router
  <2> QED
    BY <1>1, <2>1, NoCall
<1>3. CASE lanes' = lanes
  BY <1>1, <1>2, <1>3, LeftByCall
<1>4. CASE TooLate(t)
  <2>1. /\ Owns(t) /\ lanes' = [lanes EXCEPT ![LaneOf(t)] = 0] /\ Excuses(Tokens(task[t].fence))
    BY <1>4 DEF TooLate
  <2>2. ASSUME NEW h \in held', ByMirror(h) PROVE h.grant \in excused' \/ ByMirror(h)'
    <3>1. CASE h.lane = LaneOf(t)
      BY <1>1, <2>1, <2>2, <3>1 DEF ByMirror, Owns, Excuses
    <3>2. CASE h.lane # LaneOf(t)
      <4>1. lanes'[h.lane] = lanes[h.lane]
        BY <1>1, <2>1, <3>2, Parts, Numbers DEF RouterOK
      <4> QED
        BY <1>1, <2>2, <4>1, MirrorStays
    <3> QED
      BY <3>1, <3>2
  <2>3. \A h \in held' : ByHandle(h) => ByHandle(h)'
    BY <1>1 DEF ByHandle
  <2>4. \A u \in Task \ {t} : task'[u] = task[u]
    BY <1>1, Callers
  <2> QED
    BY <1>1, <1>2, <2>2, <2>3, <2>4, LeftKept
<1> QED
  BY <1>3, <1>4 DEF AlreadyActive, Unowned, Require, routerVars

\* The router at work answers by its mirrors, and for a lane just opened.
LEMMA RouterCalls ==
    ASSUME Inv, Track, NEW t \in Task, Doing(t) \in Router, NEW h \in held, ByCall(t, h)
    PROVE  /\ task[t].pc = "wait" /\ task[t].op = "open" /\ task[t].ans = "ok" /\ task[t].got = h.grant
           /\ LaneOf(t) = h.lane /\ Doing(t) \in {"r.open", "r.read"}
<1>1. Doing(t) \notin {"call", "start", "close", "open"}
  BY DEF Router
<1> QED
  BY <1>1, NoCall

\* A new object replaces one whose mirrors are excused.
LEMMA OpensLeft ==
    ASSUME Inv, Track, NoSilentLeftover, NEW t \in Task, Opens(t), UNCHANGED facadeVars
    PROVE  NoSilentLeftover'
<1>1. /\ task[t].pc = "enter" /\ Doing(t) \in Router /\ held' = held /\ UNCHANGED <<handles, lease>>
      /\ lanes' = [lanes EXCEPT ![LaneOf(t)] = fences'] /\ Excuses(Tokens(lanes[LaneOf(t)]))
      /\ \E x : task' = [task EXCEPT ![t] = x]
  BY DEF Opens, At, Router, agent, facadeVars, leases
<1>2. SameMirrors
  BY OpensTracks
<1>3. ASSUME NEW h \in held', ByMirror(h) PROVE h.grant \in excused' \/ ByMirror(h)'
  <2>1. CASE h.lane = LaneOf(t)
    BY <1>1, <1>3, <2>1 DEF ByMirror, Excuses
  <2>2. CASE h.lane # LaneOf(t)
    <3>1. lanes'[h.lane] = lanes[h.lane] /\ lanes[h.lane] \in Fence
      BY <1>1, <1>3, <2>2, LanesFenced, Parts, Numbers DEF RouterOK, ByMirror
    <3> QED
      BY <1>1, <1>2, <1>3, <3>1, MirrorStays DEF SameMirrors
  <2> QED
    BY <2>1, <2>2
<1>4. \A h \in held' : ByHandle(h) => ByHandle(h)'
  BY <1>1 DEF ByHandle
<1>5. \A h \in held' : ~ByCall(t, h)
  BY <1>1, RouterCalls
<1>6. \A u \in Task \ {t} : task'[u] = task[u]
  BY <1>1, Callers
<1> QED
  BY <1>1, <1>3, <1>4, <1>5, <1>6, LeftKept

\* A step that drops mirrors of an object, or replaces one: each was excused,
\* or its lane is not held any more.
LEMMA DropsLeft ==
    ASSUME Inv, NoSilentLeftover, NEW t \in Task, \E x : task' = [task EXCEPT ![t] = x],
           lanes' = lanes, held' = held, UNCHANGED <<handles, lease>>,
           UNCHANGED excused \/ \E G : Excuses(G),
           \A h \in held : ByCall(t, h) => h.grant \in excused' \/ ByMirror(h)',
           \A h \in held, n \in Fence, e \in Endpoint :
               object[n].mirrors[e] # NoMirror /\ object[n].mirrors[e].grant = h.grant =>
                   object'[n].mirrors[e] = object[n].mirrors[e] \/ h.grant \in excused'
    PROVE  NoSilentLeftover'
<1>1. ASSUME NEW h \in held', ByMirror(h) PROVE h.grant \in excused' \/ ByMirror(h)'
  <2>1. lanes[h.lane] \in Fence
    BY <1>1, LanesFenced DEF ByMirror
  <2>2. CASE h.grant \notin excused'
    <3>1. \A e \in Endpoint :
            LET m == object[lanes[h.lane]].mirrors[e]
            IN m # NoMirror /\ m.grant = h.grant => object'[lanes[h.lane]].mirrors[e] = m
      BY <2>1, <2>2
    <3> QED
      BY <1>1, <3>1, MirrorStays
  <2> QED
    BY <2>2
<1>2. \A h \in held' : ByHandle(h) => ByHandle(h)'
  BY DEF ByHandle
<1>3. \A u \in Task \ {t} : task'[u] = task[u]
  BY Callers
<1> QED
  BY <1>1, <1>2, <1>3, LeftKept

\* The lock is taken; renew drops the mirrors that it cannot reach.
LEMMA AcquireLeft ==
    ASSUME Inv, Track, NoSilentLeftover, NEW t \in Task, Acquire(t), UNCHANGED facadeVars
    PROVE  NoSilentLeftover'
<1> DEFINE n == task[t].fence
           ms == object[n].mirrors
<1>1. /\ task[t].pc = "lock" /\ Doing(t) \in Router /\ n \in Fence /\ object[n] \in Object
  <2>1. task[t].pc = "lock" /\ Doing(t) \in Router
    BY UnderWay DEF Acquire, At
  <2> QED
    BY <2>1, AtWork
<1>2. held' = held /\ lanes' = lanes /\ UNCHANGED <<handles, lease>>
  BY DEF Acquire, agent, facadeVars, leases
<1>3. \A h \in held : ~ByCall(t, h)
  BY <1>1, RouterCalls
<1>4. PICK S \in Current :
        CASE Doing(t) = "r.read" ->
                /\ task' = [task EXCEPT ![t].pc = "turn", ![t].todo = S]
                /\ object' = [object EXCEPT ![n].holder = t]
                /\ UNCHANGED excused
          [] Doing(t) = "r.renew" ->
                /\ task' = [task EXCEPT ![t].pc = "turn", ![t].todo = Reachable(n, S)]
                /\ object' = [object EXCEPT ![n].holder = t, ![n].expired = FALSE,
                      ![n].mirrors = [e \in Endpoint |->
                          IF e \in Unreachable(n, S) THEN NoMirror ELSE @[e]]]
                /\ Excuses({object[n].mirrors[e].grant : e \in Unreachable(n, S)})
          [] Doing(t) = "r.close" ->
                /\ task' = [task EXCEPT ![t].pc = "turn", ![t].todo = Reachable(n, S),
                                        ![t].failed = Unreachable(n, S) # {}]
                /\ object' = [object EXCEPT ![n].holder = t]
                /\ UNCHANGED excused
  BY DEF Acquire
<1>5. Doing(t) \in {"r.read", "r.renew", "r.close"}
  BY <1>1, AtWork DEF Router
<1>6. CASE Doing(t) \in {"r.read", "r.close"}
  <2> DEFINE o == [object[n] EXCEPT !.holder = t]
  <2>1. object' = [object EXCEPT ![n] = o] /\ UNCHANGED excused /\ \E x : task' = [task EXCEPT ![t] = x]
    BY <1>4, <1>6
  <2>2. o.mirrors = ms
    BY <1>1 DEF Object
  <2> HIDE DEF o
  <2>3. SameMirrors
    BY <1>1, <2>1, <2>2, Parts DEF SameMirrors, RouterOK
  <2> HIDE DEF n
  <2> QED
    BY <1>2, <1>3, <2>1, <2>3, LeftByCall
<1>7. CASE Doing(t) = "r.renew"
  <2> DEFINE left == [e \in Endpoint |-> IF e \in Unreachable(n, S) THEN NoMirror ELSE ms[e]]
             o == [object[n] EXCEPT !.holder = t, !.expired = FALSE, !.mirrors = left]
  <2>1. /\ object' = [object EXCEPT ![n] = o] /\ \E x : task' = [task EXCEPT ![t] = x]
        /\ Excuses({ms[e].grant : e \in Unreachable(n, S)})
    BY <1>1, <1>4, <1>7
  <2>2. \A e \in Endpoint : e \in Unreachable(n, S) \/ left[e] = ms[e]
    OBVIOUS
  <2> HIDE DEF left
  <2>3. o.mirrors = left
    BY <1>1 DEF Object
  <2>4. \A h \in held, e \in Endpoint : ms[e].grant = h.grant => o.mirrors[e] = ms[e] \/ h.grant \in excused'
    BY <1>2, <2>1, <2>2, <2>3 DEF Excuses
  <2>5. UNCHANGED excused \/ \E G : Excuses(G)
    BY <2>1
  <2>6. object'[n] = o /\ (\A m \in Fence \ {n} : object'[m] = object[m]) /\ \E x : task' = [task EXCEPT ![t] = x]
    BY <1>1, <2>1, Parts DEF RouterOK
  <2> HIDE DEF o
  <2>7. \A h \in held, m \in Fence, e \in Endpoint :
          object[m].mirrors[e] # NoMirror /\ object[m].mirrors[e].grant = h.grant =>
              object'[m].mirrors[e] = object[m].mirrors[e] \/ h.grant \in excused'
    BY <2>4, <2>6
  <2>8. \A h \in held : ByCall(t, h) => h.grant \in excused' \/ ByMirror(h)'
    BY <1>3
  <2> QED
    BY <1>2, <2>5, <2>6, <2>7, <2>8, DropsLeft
<1> QED
  BY <1>5, <1>6, <1>7

\* A request: the caller works on as it did.
LEMMA AskLeft ==
    ASSUME Inv, Track, NoSilentLeftover, NEW t \in Task,
           \/ Turn(t) /\ UNCHANGED facadeVars
           \/ Call(t) \/ Again(t)
    PROVE  NoSilentLeftover'
<1>1. /\ task[t].pc \in {"enter", "turn"} /\ held' = held /\ lanes' = lanes /\ object' = object /\ UNCHANGED excused
      /\ UNCHANGED <<handles, lease>> /\ SameMirrors
  BY DEF Turn, Call, Again, At, agent, routerVars, facadeVars, leases, SameMirrors
<1>2. PICK x : /\ task' = [task EXCEPT ![t] = x] /\ x.pc = "wait" /\ x.script = task[t].script
               /\ x.fence = task[t].fence
  <2>0. task[t] \in Caller
    BY <1>1, UnderWay
  <2>1. ASSUME NEW op, NEW link
        PROVE  /\ Asks(t, op, link).pc = "wait" /\ Asks(t, op, link).script = task[t].script
               /\ Asks(t, op, link).fence = task[t].fence
    BY <2>0 DEF Asks, Caller, State
  <2>2. ASSUME NEW op, NEW link, NEW g, Send(t, op, link, g)
        PROVE  task' = [task EXCEPT ![t] = Asks(t, op, link)]
    BY <2>2 DEF Send
  <2>3. CASE Turn(t) \/ Again(t)
    <3>1. \E op, link, g : Send(t, op, link, g)
      BY <2>3 DEF Turn, Again
    <3> QED
      BY <2>1, <2>2, <3>1
  <2>4. CASE Call(t)
    <3>1. PICK S, link, op : task' = [task EXCEPT ![t] = [Asks(t, op, link) EXCEPT !.todo = S]]
      BY <2>4 DEF Call
    <3>2. PICK x : x = [Asks(t, op, link) EXCEPT !.todo = S]
      OBVIOUS
    <3>3. x.pc = "wait" /\ x.script = task[t].script /\ x.fence = task[t].fence
      BY <2>0, <3>2 DEF Asks, Caller, State
    <3>4. task' = [task EXCEPT ![t] = x]
      BY <3>1, <3>2
    <3> QED
      BY <3>3, <3>4
  <2> QED
    BY <2>3, <2>4
<1>3. ASSUME NEW h \in held, ByCall(t, h) PROVE ByCall(t, h)'
  <2>1. /\ LaneOf(t) = h.lane /\ Doing(t) \in {"call", "start", "close"} /\ task[t].fence = h.grant
    BY <1>1, <1>3, NoCall
  <2>2. task'[t] = x
    BY <1>2, Callers
  <2> QED
    BY <1>2, <2>1, <2>2 DEF ByCall, At, Doing, LaneOf
<1> QED
  BY <1>1, <1>2, <1>3, LeftByCall

\* An operation of the router ends: the entry it takes off the table is empty.
LEMMA ConcludesLeft ==
    ASSUME Inv, Track, NoSilentLeftover, NEW t \in Task, Doing(t) \in Router, NEW ok, Concludes(t, ok),
           \/ task[t].pc = "turn"
           \/ task[t].pc = "wait" /\ (task[t].op # "open" \/ task[t].ans # "ok"),
           Doing(t) = "r.close" /\ ok => task[t].pc = "turn" /\ task[t].todo = {} /\ ~task[t].failed,
           UNCHANGED agent, UNCHANGED facadeVars
    PROVE  NoSilentLeftover'
<1> DEFINE n == task[t].fence
<1>1. /\ held' = held /\ UNCHANGED <<handles, lease>> /\ SameMirrors /\ (\E G : Excuses(G))
      /\ \E x : task' = [task EXCEPT ![t] = x]
  BY AtWork, ReleasedTouches DEF Concludes, Ends, agent, facadeVars, leases
<1>2. \A h \in held : ~ByCall(t, h)
  BY RouterCalls
<1>3. CASE lanes' = lanes
  BY <1>1, <1>2, <1>3, LeftByCall
<1>4. CASE lanes' # lanes
  <2>1. Owns(t) /\ lanes' = [lanes EXCEPT ![LaneOf(t)] = 0] /\ (Doing(t) = "r.open" \/ (Doing(t) = "r.close" /\ ok))
    BY <1>4 DEF Concludes, Forget
  <2>2. \A e \in Endpoint : object[n].mirrors[e] = NoMirror
    <3>1. CASE Doing(t) = "r.open"
      BY <3>1, AtWork
    <3>2. CASE Doing(t) = "r.close" /\ ok
      BY <3>2 DEF Track, Own, Closes, AtIt
    <3> QED
      BY <2>1, <3>1, <3>2
  <2>3. ASSUME NEW h \in held, ByMirror(h) PROVE ByMirror(h)'
    <3>1. h.lane # LaneOf(t)
      BY <2>1, <2>2, <2>3 DEF ByMirror, Owns, Tokens, Mirrors
    <3>2. lanes'[h.lane] = lanes[h.lane] /\ lanes[h.lane] \in Fence
      BY <2>1, <2>3, <3>1, LanesFenced, Parts, Numbers DEF RouterOK, ByMirror
    <3> QED
      BY <1>1, <2>3, <3>2, MirrorStays DEF SameMirrors
  <2>4. \A h \in held' : ByHandle(h) => ByHandle(h)'
    BY <1>1 DEF ByHandle
  <2>5. \A u \in Task \ {t} : task'[u] = task[u]
    BY <1>1, Callers
  <2> QED
    BY <1>1, <1>2, <2>3, <2>4, <2>5, LeftKept
<1> QED
  BY <1>3, <1>4

\* On to the next mirror: the one that is dropped is excused, or closed.
LEMMA OnwardLeft ==
    ASSUME Inv, Track, NoSilentLeftover, NEW t \in Task, task[t].pc = "wait", Doing(t) \in Router,
           NEW drop, NEW failed, Onward(t, drop, failed),
           task[t].op # "open" \/ task[t].ans # "ok",
           UNCHANGED excused \/ \E G : Excuses(G), UNCHANGED facadeVars,
           drop => \A h \in held : h.grant = Mirror(t, task[t].at).grant => h.grant \in excused'
    PROVE  NoSilentLeftover'
<1> DEFINE k == task[t].fence
           d == task[t].at[1]
           x == [task[t] EXCEPT !.pc = "turn", !.todo = @ \ {task[t].at}, !.at = None,
                                !.op = "none", !.ans = "none", !.failed = @ \/ failed]
<1>0. task' = [task EXCEPT ![t] = x]
  BY DEF Onward
<1> HIDE DEF x
<1>1. /\ held' = held /\ lanes' = lanes /\ UNCHANGED <<handles, lease>> /\ \E y : task' = [task EXCEPT ![t] = y]
  BY <1>0 DEF Onward, agent, facadeVars, leases
<1>2. \A h \in held : ~ByCall(t, h)
  BY RouterCalls
<1>3. k \in Fence /\ object \in [Fence -> Object] /\ object[k] \in Object /\ d \in Endpoint
  BY AtWork, Parts, UnderWay, Numbers DEF RouterOK
<1>4. ASSUME NEW n \in Fence, NEW e \in Endpoint
      PROVE  object'[n].mirrors[e] = object[n].mirrors[e] \/ (drop /\ n = k /\ e = d)
  <2>1. object' = IF drop THEN [object EXCEPT ![k].mirrors[d] = NoMirror] ELSE object
    BY DEF Onward
  <2> HIDE DEF k, d
  <2> QED
    BY <1>3, <2>1 DEF Object
<1>5. \A h \in held, n \in Fence, e \in Endpoint :
        object[n].mirrors[e] # NoMirror /\ object[n].mirrors[e].grant = h.grant =>
            object'[n].mirrors[e] = object[n].mirrors[e] \/ h.grant \in excused'
  BY <1>4 DEF Mirror
<1> HIDE DEF k, d
<1> QED
  BY <1>1, <1>2, <1>5, DropsLeft

\* A lane just opened is answered for by its mirror, or excused; the mirror in
\* its place was of a session the controller has dropped, and is excused too.
LEMMA MirroredLeft ==
    ASSUME Inv, Track, NoSilentLeftover, NEW t \in Task, Mirrored(t), UNCHANGED facadeVars
    PROVE  NoSilentLeftover'
<1> DEFINE k == task[t].fence
           d == task[t].at[1]
           mirror == [s |-> task[t].at[2], grant |-> task[t].got]
<1>1. /\ task[t].pc = "wait" /\ task[t].ans = "ok" /\ task[t].op = "open"
      /\ Doing(t) \in {"r.open", "r.read"} /\ Doing(t) \in Router /\ Own(t) /\ AtIt(t) /\ At(t, "wait")
      /\ held' = held /\ lanes' = lanes /\ UNCHANGED <<handles, lease>>
      /\ object' = [object EXCEPT ![k].given = TRUE, ![k].mirrors[d] = mirror]
      /\ Excuses(Replaced(t) \cup IF Owns(t) THEN {} ELSE {task[t].got})
      /\ \E x : task' = [task EXCEPT ![t] = x]
  BY DEF Mirrored, Answered, At, Router, Track, AtIt, agent, facadeVars, leases, Send
<1>2. /\ k \in Fence /\ object \in [Fence -> Object] /\ object[k] \in Object /\ d \in Endpoint
      /\ Doing(t) = "r.open" => \A e \in Endpoint : object[k].mirrors[e] = NoMirror
  BY <1>1, AtWork, Parts, UnderWay, Numbers DEF RouterOK
<1>3. mirror.grant = task[t].got
  OBVIOUS
<1> HIDE DEF mirror
<1>4. /\ object'[k].mirrors[d] = mirror
      /\ \A n \in Fence, e \in Endpoint : object'[n].mirrors[e] = object[n].mirrors[e] \/ (n = k /\ e = d)
  <2> HIDE DEF k, d
  <2> QED
    BY <1>1, <1>2 DEF Object
<1>5. ASSUME NEW h \in held, object[k].mirrors[d] # NoMirror, object[k].mirrors[d].grant = h.grant
      PROVE  h.grant \in excused'
  <2>1. Doing(t) = "r.read" /\ task[t].at \in task[t].todo
    BY <1>1, <1>2, <1>5 DEF Own, Waiting
  <2>2. object[k].mirrors[d].s \notin Open
    BY <1>1, <2>1 DEF Own, Reads, Mirror
  <2>3. h.grant \in Replaced(t)
    BY <1>5, <2>2 DEF Replaced, Mirror
  <2> QED
    BY <1>1, <2>3 DEF Excuses
<1>6. \A h \in held, n \in Fence, e \in Endpoint :
        object[n].mirrors[e] # NoMirror /\ object[n].mirrors[e].grant = h.grant =>
            object'[n].mirrors[e] = object[n].mirrors[e] \/ h.grant \in excused'
  BY <1>4, <1>5
<1>7. ASSUME NEW h \in held, ByCall(t, h) PROVE h.grant \in excused' \/ ByMirror(h)'
  <2>1. task[t].got = h.grant /\ LaneOf(t) = h.lane /\ h.grant # 0
    BY <1>1, <1>7, RouterCalls, Numbers
  <2>2. CASE Owns(t)
    <3>1. lanes'[h.lane] = k /\ k # 0
      BY <1>1, <2>1, <2>2 DEF Owns
    <3>2. mirror # NoMirror
      BY <1>3, <2>1 DEF NoMirror
    <3> HIDE DEF k, d
    <3>3. h.grant \in {m.grant : m \in {object'[k].mirrors[e] : e \in Endpoint} \ {NoMirror}}
      BY <1>2, <1>3, <1>4, <2>1, <3>2
    <3> QED
      BY <3>1, <3>3 DEF ByMirror, Tokens, Mirrors
  <2>3. CASE ~Owns(t)
    BY <1>1, <2>1, <2>3 DEF Excuses
  <2> QED
    BY <2>2, <2>3
<1>8. UNCHANGED excused \/ \E G : Excuses(G)
  BY <1>1
<1> HIDE DEF k, d
<1> QED
  BY <1>1, <1>6, <1>7, <1>8, DropsLeft

\* The router's steps.
LEMMA RouterLeft ==
    ASSUME Inv, Track, NoSilentLeftover, NEW t \in Task, RouterStep(t), UNCHANGED facadeVars
    PROVE  NoSilentLeftover'
<1>0. /\ task[t].pc = "wait" /\ Doing(t) \in {"r.renew", "r.close"} => task[t].op # "open"
      /\ task[t].pc = "wait" => task[t].at[1] \in Endpoint /\ (Doing(t) \in Router => task[t].fence \in Fence)
  <2>1. ASSUME task[t].pc = "wait", Doing(t) \in {"r.renew", "r.close"} PROVE task[t].op # "open"
    <3>1. Doing(t) \notin Gateway
      BY <2>1 DEF Gateway
    <3> QED
      BY <2>1, <3>1 DEF Track, Own, Waiting, At, OpsOf
  <2> QED
    BY <2>1, AtWork, UnderWay, Numbers
<1>1. CASE NoTimeLeft(t) \/ Exhausted(t)
  <2>1. /\ task[t].pc = "turn" /\ Doing(t) \in Router /\ UNCHANGED agent
        /\ \E ok : /\ Concludes(t, ok)
                   /\ Doing(t) = "r.close" /\ ok => task[t].todo = {} /\ ~task[t].failed
    BY <1>1 DEF NoTimeLeft, Exhausted, At, Router
  <2> QED
    BY <2>1, ConcludesLeft
<1>2. CASE NotMirrored(t) \/ Read(t)
  <2>1. /\ task[t].pc = "wait" /\ Doing(t) \in Router /\ Doing(t) # "r.close"
        /\ task[t].op # "open" \/ task[t].ans # "ok"
        /\ UNCHANGED agent /\ \E ok : Concludes(t, ok)
    BY <1>2 DEF NotMirrored, Read, Answered, At, Router
  <2> QED
    BY <2>1, ConcludesLeft
<1>3. CASE Renewed(t)
  <2>1. /\ task[t].pc = "wait" /\ Doing(t) = "r.renew" /\ Doing(t) \in Router
        /\ Onward(t, task[t].ans = "refused", FALSE)
        /\ Excuses(IF task[t].ans = "refused" THEN {Mirror(t, task[t].at).grant} ELSE {})
    BY <1>3 DEF Renewed, Answered, At, Router
  <2>2. task[t].ans = "refused" =>
          \A h \in held : h.grant = Mirror(t, task[t].at).grant => h.grant \in excused'
    BY <2>1 DEF Excuses, Onward, agent
  <2>3. UNCHANGED excused \/ \E G : Excuses(G)
    BY <2>1
  <2> QED
    BY <1>0, <2>1, <2>2, <2>3, OnwardLeft
<1>4. CASE Closed(t)
  <2>1. /\ task[t].pc = "wait" /\ At(t, "wait") /\ Doing(t) = "r.close" /\ Doing(t) \in Router
        /\ Onward(t, task[t].ans = "ok", task[t].ans = "refused") /\ UNCHANGED excused
    BY <1>4 DEF Closed, Answered, At, Router
  <2>2. task[t].ans = "ok" => \A h \in held : h.grant # Mirror(t, task[t].at).grant
    BY <2>1 DEF Track, Own, Gone, Closing, Wanted
  <2> QED
    BY <1>0, <2>1, <2>2, OnwardLeft
<1>5. CASE Lost(t)
  <2>1. /\ task[t].pc = "wait" /\ Doing(t) \in Router /\ task[t].ans # "ok"
        /\ Onward(t, Doing(t) = "r.renew", Doing(t) = "r.close")
        /\ Excuses(IF Doing(t) = "r.renew" THEN {Mirror(t, task[t].at).grant} ELSE {})
    BY <1>5 DEF Lost, Unanswered, At
  <2>2. Doing(t) = "r.renew" =>
          \A h \in held : h.grant = Mirror(t, task[t].at).grant => h.grant \in excused'
    BY <2>1 DEF Excuses, Onward, agent
  <2>3. UNCHANGED excused \/ \E G : Excuses(G)
    BY <2>1
  <2> QED
    BY <2>1, <2>2, <2>3, OnwardLeft
<1>6. CASE Broken(t)
  <2>1. /\ task[t].pc = "wait" /\ Doing(t) \in Router /\ UNCHANGED agent /\ Concludes(t, FALSE)
        /\ task[t].ans # "ok"
    BY <1>6 DEF Broken, Unanswered, At
  <2> QED
    BY <2>1, ConcludesLeft
<1> QED
  BY <1>1, <1>2, <1>3, <1>4, <1>5, <1>6, OpensLeft, RequireLeft, AcquireLeft, AskLeft, MirroredLeft
     DEF RouterStep

\* The ends of the gateway's requests: a caller goes on to close its lane, or
\* learns that it is not closed; a started process is behind its handle.
LEMMA CallLeft ==
    ASSUME Inv, Track, NoSilentLeftover, NEW t \in Task, CallStep(t)
    PROVE  NoSilentLeftover'
<1>1. held' = held /\ lanes' = lanes /\ object' = object /\ SameMirrors
  BY DEF CallStep, HandleGone, Call, NotSent, Again, NothingLeft, Return, GaveUp, agent, routerVars, SameMirrors
<1>2. CASE HandleGone(t) \/ NothingLeft(t) \/ (GaveUp(t) /\ ~Ends(t, FALSE, task[t].fence))
  <2>1. /\ task[t].pc # "idle" /\ (task[t].pc = "wait" => task[t].ans # "ok")
        /\ Doing(t) \notin {"call", "start", "close"} /\ UNCHANGED <<handles, lease>>
        /\ UNCHANGED excused \/ \E G : Excuses(G)
    BY <1>2 DEF HandleGone, Leased, NothingLeft, GaveUp, Unanswered, At, facadeVars, leases, Ends
  <2>2. \E x : task' = [task EXCEPT ![t] = x]
    <3>1. CASE HandleGone(t)
      BY <3>1 DEF HandleGone
    <3>2. CASE NothingLeft(t)
      BY <3>2 DEF NothingLeft, Ends
    <3>3. CASE GaveUp(t) /\ ~Ends(t, FALSE, task[t].fence)
      <4> DEFINE x == [task[t] EXCEPT !.pc = "turn", !.op = "none", !.todo = @ \ {task[t].at}, !.at = None]
      <4>1. task' = [task EXCEPT ![t] = x]
        BY <3>3 DEF GaveUp
      <4> QED
        BY <4>1
    <3> QED
      BY <1>2, <3>1, <3>2, <3>3
  <2>3. \A h \in held : ~ByCall(t, h)
    BY <2>1, NoCall
  <2> QED
    BY <1>1, <2>1, <2>2, <2>3, LeftByCall
<1>3. CASE NotSent(t) \/ (GaveUp(t) /\ Ends(t, FALSE, task[t].fence))
  <2>1. /\ task[t].pc # "idle" /\ (task[t].pc = "wait" => task[t].ans # "ok")
        /\ Ends(t, FALSE, task[t].fence) /\ UNCHANGED <<handles, lease>>
    BY <1>3 DEF NotSent, GaveUp, Unanswered, At, facadeVars, leases
  <2>2. ASSUME NEW h \in held', ByCall(t, h) PROVE h.grant \in excused' \/ ByCall(t, h)'
    <3>1. LaneOf(t) = h.lane /\ Doing(t) \in {"call", "start", "close"} /\ task[t].fence = h.grant
      BY <1>1, <2>1, <2>2, NoCall
    <3> QED
      BY <2>1, <3>1, EndsLeft
  <2>3. (\E G : Excuses(G)) /\ \E x : task' = [task EXCEPT ![t] = x]
    BY <2>1 DEF Ends
  <2> QED
    BY <1>1, <2>1, <2>2, <2>3, LeftByCall
<1>4. CASE Return(t)
  <2> DEFINE ok == task[t].ans = "ok"
             f == IF Doing(t) = "open" THEN task[t].got ELSE task[t].fence
  <2>1. /\ task[t].pc = "wait" /\ At(t, "wait") /\ Doing(t) \in Gateway /\ Ends(t, ok, f)
        /\ handles' = CASE Doing(t) = "start" /\ ok   -> handles \cup {LaneOf(t)}
                        [] Doing(t) = "release" /\ ok -> handles \ {LaneOf(t)}
                        [] OTHER -> handles
        /\ lease' = IF Doing(t) = "start" /\ ok THEN [lease EXCEPT ![LaneOf(t)] = task[t].fence]
                                                ELSE lease
    BY <1>4 DEF Return, Answered, At
  <2>2. /\ LaneOf(t) \in Private /\ lease \in [Private -> 0..MaxGrant] /\ task[t].script # <<>>
        /\ handles \subseteq Private
    BY <2>1, UnderWay, Parts DEF FacadeOK
  <2>3. Doing(t) \in Closing /\ ok => \A h \in held : h.grant # Wanted(t)
    BY <2>1 DEF Track, Own, Gone
  <2>4. ASSUME NEW h \in held', ByHandle(h) PROVE ByHandle(h)'
    <3>1. CASE Doing(t) = "start" /\ ok
      <4>1. LaneOf(t) \notin handles
        BY <2>2, <3>1 DEF Track, Apart, Starting, Doing
      <4> QED
        BY <2>1, <2>2, <2>4, <3>1, <4>1 DEF ByHandle
    <3>2. CASE Doing(t) = "release" /\ ok
      <4>1. h.grant # lease[LaneOf(t)]
        BY <1>1, <2>3, <3>2 DEF Closing, Wanted, Token
      <4> QED
        BY <2>1, <2>4, <3>2, <4>1 DEF ByHandle
    <3>3. CASE ~(Doing(t) = "start" /\ ok) /\ ~(Doing(t) = "release" /\ ok)
      BY <2>1, <2>4, <3>3 DEF ByHandle
    <3> QED
      BY <3>1, <3>2, <3>3
  <2>5. ASSUME NEW h \in held', ByCall(t, h) PROVE h.grant \in excused' \/ ByHandle(h)' \/ ByCall(t, h)'
    <3>1. /\ LaneOf(t) = h.lane
          /\ \/ Doing(t) \in {"call", "start", "close"} /\ task[t].fence = h.grant
             \/ ok /\ task[t].got = h.grant /\ Doing(t) = "open"
      <4>1. Doing(t) \notin {"r.open", "r.read"}
        BY <2>1, NotBoth DEF Router
      <4> QED
        BY <1>1, <2>5, <4>1, NoCall
    <3>2. CASE Doing(t) = "start" /\ ok
      BY <2>1, <2>2, <3>1, <3>2 DEF ByHandle
    <3>3. CASE Doing(t) = "close" /\ ok
      BY <1>1, <2>3, <3>1, <3>3 DEF Closing, Wanted, Token
    <3>4. CASE Doing(t) = "open" \/ (Doing(t) \in {"call", "start", "close"} /\ (ok => Doing(t) = "call"))
      <4>1. f = h.grant
        BY <3>1, <3>4
      <4> HIDE DEF f, ok
      <4>2. \/ Doing(t) \in {"call", "start", "close"} /\ (ok => Doing(t) = "call")
            \/ Doing(t) = "open" /\ ok
        BY <3>1, <3>4
      <4>3. task[t].pc # "idle"
        BY <2>1
      <4> QED
        BY <2>1, <3>1, <4>1, <4>2, <4>3, EndsLeft
    <3> QED
      BY <3>1, <3>2, <3>3, <3>4
  <2>6. ASSUME NEW h \in held', ByMirror(h) PROVE ByMirror(h)'
    BY <1>1, <2>6, MirrorStays
  <2>7. (\E G : Excuses(G)) /\ held' \subseteq held /\ \A u \in Task \ {t} : task'[u] = task[u]
    BY <1>1, <2>1, Callers DEF Ends
  <2> HIDE DEF f, ok
  <2> QED
    BY <2>4, <2>5, <2>6, <2>7, LeftKept
<1> QED
  BY <1>2, <1>3, <1>4, AskLeft DEF CallStep

\* A cancelled caller: a finally clause closes its lane, or it is excused.
LEMMA CancelLeft ==
    ASSUME Inv, Track, NoSilentLeftover, NEW t \in Task, Cancel(t)
    PROVE  NoSilentLeftover'
<1> DEFINE rest == Tail(task[t].script)
           closes == Doing(t) \in {"call", "r.read"} /\ rest # <<>>
           x == IF closes THEN [Idle EXCEPT !.script = rest, !.pc = "begin", !.fence = task[t].fence] ELSE Idle
<1>1. /\ task[t].pc # "idle" /\ held' = held /\ lanes' = lanes /\ UNCHANGED <<handles, lease>>
      /\ task' = [task EXCEPT ![t] = x]
      /\ Excuses({task[t].got} \cup IF Doing(t) \in {"start", "close"} THEN {task[t].fence} ELSE {})
  BY DEF Cancel, At, agent, facadeVars, leases
<1>2. task[t].script # <<>> /\ Script(task[t].script) /\ task[t].fence \in Allowed(Doing(t))
  BY <1>1, UnderWay DEF Shaped
<1>3. SameMirrors
  <2>1. CASE task[t].fence # 0 /\ Doing(t) \in Router
    <3>1. task[t].fence \in Fence /\ object' = Released(t)
      BY <1>2, <2>1, FenceAssumption DEF Allowed, Fence, Cancel
    <3> QED
      BY <3>1, ReleasedTouches
  <2>2. CASE ~(task[t].fence # 0 /\ Doing(t) \in Router)
    BY <2>2 DEF Cancel, SameMirrors
  <2> QED
    BY <2>1, <2>2
<1>4. ASSUME NEW h \in held', ByCall(t, h) PROVE h.grant \in excused' \/ ByCall(t, h)'
  <2>1. LaneOf(t) = h.lane /\ (task[t].got = h.grant \/ (Doing(t) \in {"call", "start", "close"} /\ task[t].fence = h.grant))
    BY <1>1, <1>4, NoCall
  <2>2. CASE task[t].got = h.grant \/ (Doing(t) \in {"start", "close"} /\ task[t].fence = h.grant)
    BY <1>1, <1>4, <2>2 DEF Excuses
  <2>3. CASE Doing(t) = "call" /\ task[t].fence = h.grant
    <3>1. rest # <<>> /\ Head(rest).do = "close" /\ Head(rest).lane = LaneOf(t)
      BY <1>2, <2>3, ScriptNext DEF Doing, LaneOf
    <3>2. x = [Idle EXCEPT !.script = rest, !.pc = "begin", !.fence = task[t].fence]
      BY <2>3, <3>1
    <3>3. x.script = rest /\ x.pc = "begin" /\ x.fence = task[t].fence
      BY <3>2, IdleShaped DEF Caller, State
    <3> HIDE DEF x, rest
    <3>4. task'[t] = x
      BY <1>1, Callers
    <3> QED
      BY <2>1, <2>3, <3>1, <3>3, <3>4 DEF ByCall, At, Doing, LaneOf
  <2> QED
    BY <2>1, <2>2, <2>3
<1>5. (\E G : Excuses(G)) /\ \E y : task' = [task EXCEPT ![t] = y]
  BY <1>1
<1> QED
  BY <1>1, <1>3, <1>4, <1>5, LeftByCall

\* A call begins.
LEMMA CallsLeft ==
    ASSUME Inv, Track, NoSilentLeftover, NEW t \in Task, Calls(t)
    PROVE  NoSilentLeftover'
<1>1. UNCHANGED <<handles, lease>> /\ \E sc, f : Begins(t, sc, f)
  <2>1. CASE shutdown(t) \/ lane_open(t) \/ lane_operation(t)
    BY <2>1 DEF shutdown, lane_open, lane_operation, leases
  <2>2. CASE read_call(t) \/ write_call(t) \/ start_process(t)
    BY <2>2 DEF read_call, write_call, ephemeral, start_process
  <2>3. CASE process_operation(t) \/ release_process(t) \/ drain(t)
    BY <2>3 DEF process_operation, release_process, drain, leases
  <2> QED
    BY <2>1, <2>2, <2>3 DEF Calls
<1>2. /\ task[t].pc = "idle" /\ held' = held /\ lanes' = lanes /\ UNCHANGED excused /\ SameMirrors
      /\ \E x : task' = [task EXCEPT ![t] = x]
  BY <1>1 DEF Begins, At, agent, routerVars, SameMirrors
<1>3. \A h \in held : ~ByCall(t, h)
  BY <1>2, NoCall
<1> QED
  BY <1>1, <1>2, <1>3, LeftByCall

\* The agent: a lane that is new is its caller's, if the answer arrives.
LEMMA WorldLeft ==
    ASSUME Inv, Track, NoSilentLeftover, World
    PROVE  NoSilentLeftover'
<1>1. UNCHANGED <<lanes, object, handles, lease>>
  BY DEF World, routerVars, facadeVars, leases
<1>2. ASSUME NEW h, ByMirror(h) PROVE ByMirror(h)'
  BY <1>1, <1>2 DEF ByMirror, Tokens, Mirrors
<1>3. ASSUME NEW h, ByHandle(h) PROVE ByHandle(h)'
  BY <1>1, <1>3 DEF ByHandle
<1>4. ASSUME SameCalls, NEW h \in held \cap held', h.grant \in excused => h.grant \in excused',
             \A t \in Task : task'[t].got = task[t].got \/ task[t].ans = "none"
      PROVE  h.grant \in excused' \/ Accounted(h)'
  <2>1. ASSUME NEW t \in Task, ByCall(t, h) PROVE ByCall(t, h)'
    <3>1. task[t].ans = "none" => ~(At(t, "wait") /\ task[t].got = h.grant)
      BY Numbers DEF Track, Own, Waiting
    <3> QED
      BY <1>4, <2>1, <3>1 DEF ByCall, SameCalls, At, Doing, LaneOf
  <2>2. h.grant \in excused \/ ByMirror(h) \/ ByHandle(h) \/ \E t \in Task : ByCall(t, h)
    BY DEF NoSilentLeftover, Accounted, ByMirror, ByHandle, ByCall
  <2>3. ByMirror(h)' \/ ByHandle(h)' \/ (\E t \in Task : ByCall(t, h)') => Accounted(h)'
    BY DEF Accounted, ByMirror, ByHandle, ByCall
  <2> QED
    BY <1>2, <1>3, <1>4, <2>1, <2>2, <2>3
<1>5. ASSUME NEW k \in held, LaneEnds(k) PROVE NoSilentLeftover'
  <2>1. UNCHANGED task /\ held' \subseteq held /\ Excuses({})
    BY <1>5 DEF LaneEnds
  <2>2. SameCalls
    BY <2>1 DEF SameCalls
  <2>3. \A h \in held' : h.grant \in excused => h.grant \in excused'
    BY <2>1 DEF Excuses
  <2> QED
    BY <1>4, <2>1, <2>2, <2>3 DEF NoSilentLeftover
<1>6. ASSUME NEW m \in wire, Serve(m) PROVE NoSilentLeftover'
  <2>1. Delivers(m) /\ m.t \in Task \cup {None}
    BY Parts DEF Track, WireOK, Request
  <2>2. PICK arrives : (arrives => m.t # None) /\ (ServeOpen(m, arrives) \/ ServeOn(m, arrives))
    BY <1>6 DEF Serve
  <2>3. ASSUME NEW ans, NEW got, Answer(m, ans, got, arrives)
        PROVE  /\ SameCalls /\ \A t \in Task : task'[t].got = task[t].got \/ task[t].ans = "none"
               /\ arrives => task'[m.t].got = got /\ At(m.t, "wait") /\ LaneOf(m.t) = m.lane
    <3>1. CASE UNCHANGED task /\ ~arrives
      BY <3>1 DEF SameCalls
    <3>2. CASE m.t # None /\ arrives /\ task' = [task EXCEPT ![m.t].ans = ans, ![m.t].got = got]
      <4> DEFINE x == [task[m.t] EXCEPT !.ans = ans, !.got = got]
      <4>1. m.t \in Task /\ task[m.t] \in Caller /\ task[m.t].ans = "none" /\ At(m.t, "wait") /\ LaneOf(m.t) = m.lane
        BY <2>1, <3>2, UnderWay DEF Delivers, At
      <4>2. task' = [task EXCEPT ![m.t] = x]
        BY <3>2, <4>1, Callers
      <4>3. /\ x.got = got /\ x.script = task[m.t].script /\ x.pc = task[m.t].pc
            /\ x.fence = task[m.t].fence /\ x.todo = task[m.t].todo /\ x.at = task[m.t].at
            /\ x.op = task[m.t].op /\ x.failed = task[m.t].failed
        BY <4>1 DEF Caller, State
      <4> HIDE DEF x
      <4>4. task'[m.t] = x /\ \A u \in Task \ {m.t} : task'[u] = task[u]
        BY <4>1, <4>2, Callers
      <4> QED
        BY <4>1, <4>3, <4>4 DEF SameCalls
    <3> QED
      BY <2>2, <2>3, <3>1, <3>2 DEF Answer
  <2>4. CASE held' \subseteq held
    <3>1. (\E ans, got : Answer(m, ans, got, arrives)) /\ (UNCHANGED excused \/ \E G : Excuses(G))
      BY <2>2 DEF ServeOpen, ServeOn, Refuse
    <3>2. \A h \in held' : h.grant \in excused => h.grant \in excused'
      BY <3>1 DEF Excuses
    <3> QED
      BY <1>4, <2>3, <2>4, <3>1, <3>2 DEF NoSilentLeftover
  <2>5. CASE ~(held' \subseteq held)
    <3>1. /\ held' = held \cup {[lane |-> m.lane, s |-> m.s, grant |-> granted']}
          /\ Answer(m, "ok", granted', arrives)
          /\ Excuses(IF arrives THEN {} ELSE {granted'})
      BY <2>2, <2>5 DEF ServeOpen, ServeOn, Refuse
    <3>2. \A h \in held' : h.grant \in excused => h.grant \in excused'
      BY <3>1 DEF Excuses
    <3>3. ASSUME NEW h \in held' PROVE h.grant \in excused' \/ Accounted(h)'
      <4>1. CASE h \in held
        BY <1>4, <2>3, <3>1, <3>2, <4>1
      <4>2. CASE h.lane = m.lane /\ h.grant = granted' /\ ~arrives
        BY <3>1, <4>2 DEF Excuses
      <4>3. CASE h.lane = m.lane /\ h.grant = granted' /\ arrives
        <5>1. m.t \in Task /\ SameCalls /\ task'[m.t].got = h.grant /\ At(m.t, "wait") /\ LaneOf(m.t) = h.lane
          BY <2>1, <2>2, <2>3, <3>1, <4>3
        <5>2. task'[m.t].pc = "wait" /\ Head(task'[m.t].script).lane = h.lane
          BY <5>1 DEF SameCalls, At, LaneOf
        <5> QED
          BY <5>1, <5>2 DEF Accounted, At, LaneOf
      <4> QED
        BY <3>1, <4>1, <4>2, <4>3
    <3> QED
      BY <3>3 DEF NoSilentLeftover
  <2> QED
    BY <2>4, <2>5
<1>7. ASSUME NEW s, SessionEnds(s) PROVE NoSilentLeftover'
  <2>1. UNCHANGED task /\ held' \subseteq held /\ Excuses({})
    BY <1>7 DEF SessionEnds
  <2>2. SameCalls
    BY <2>1 DEF SameCalls
  <2>3. \A h \in held' : h.grant \in excused => h.grant \in excused'
    BY <2>1 DEF Excuses
  <2> QED
    BY <1>4, <2>1, <2>2, <2>3 DEF NoSilentLeftover
<1> QED
  BY <1>5, <1>6, <1>7 DEF World

\* Every step leaves somebody who answers for every lane, or says why not.
LEMMA LeftNext ==
    ASSUME Inv, Track, NoSilentLeftover, [Next]_vars
    PROVE  NoSilentLeftover'
<1>1. ASSUME NEW t \in Task, Steps(t) PROVE NoSilentLeftover'
  BY <1>1, RuntimeLeft, RouterLeft, CallLeft DEF Steps
<1>2. ASSUME NEW t \in Task, Calls(t) \/ Cancel(t) PROVE NoSilentLeftover'
  BY <1>2, CallsLeft, CancelLeft
<1>3. ASSUME UNCHANGED <<runtimeVars, lanes, handles, lease>>, SameMirrors PROVE NoSilentLeftover'
  <2>1. UNCHANGED <<held, excused, task, lanes>>
    BY <1>3 DEF runtimeVars, agent
  <2>2. ASSUME NEW h \in held, ByMirror(h) PROVE ByMirror(h)'
    <3>1. lanes[h.lane] \in Fence
      BY <2>2, LanesFenced DEF ByMirror
    <3> QED
      BY <1>3, <2>1, <2>2, <3>1, MirrorStays DEF SameMirrors
  <2> QED
    BY <1>3, <2>1, <2>2 DEF NoSilentLeftover, Accounted, ByMirror, At, LaneOf, Doing
<1>4. ASSUME NEW n \in Fence, Expire(n), UNCHANGED facadeVars PROVE NoSilentLeftover'
  <2>1. object \in [Fence -> Object]
    BY Parts DEF RouterOK
  <2>2. SameMirrors
    BY <1>4, <2>1 DEF Expire, Object, SameMirrors
  <2> QED
    BY <1>3, <1>4, <2>2 DEF Expire, facadeVars, leases
<1>5. CASE UNCHANGED vars
  BY <1>3, <1>5 DEF vars, facadeVars, leases, routerVars, SameMirrors
<1> QED
  BY <1>1, <1>2, <1>4, <1>5, WorldLeft DEF Next

\* The controller loses track of a lane on the agent only where it cannot help
\* it or says so (ControllerLanes.NoSilentLeftover).
THEOREM NothingLeftSilently == Spec => []NoSilentLeftover
<1> DEFINE Left == Inv /\ Track /\ NoSilentLeftover
<1>1. Init => Left
  <2> SUFFICES ASSUME Init PROVE Left
    OBVIOUS
  <2>1. NoSilentLeftover
    BY DEF Init, NoSilentLeftover
  <2> QED
    BY <2>1, InvAtFirst, TrackInit
<1>2. Left /\ [Next]_vars => Left'
  <2> SUFFICES ASSUME Left, [Next]_vars PROVE Left'
    OBVIOUS
  <2>1. Inv'
    BY NextKeeps DEF Keeps
  <2>2. Track'
    BY TrackNext
  <2>3. NoSilentLeftover'
    BY LeftNext
  <2> QED
    BY <2>1, <2>2, <2>3
<1>3. Left => NoSilentLeftover
  OBVIOUS
<1> QED
  BY <1>1, <1>2, <1>3, PTL DEF Spec

============================================================================
