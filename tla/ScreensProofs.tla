---------------------------- MODULE ScreensProofs ---------------------------
(***************************************************************************)
(* What Screens promises for any number of apps, rooms and requests and    *)
(* any capacity of the channels: the types, that what is pending is owed,  *)
(* that the audit lists follow and that the live screens agree.            *)
(*                                                                         *)
(* The handlers are followed by what is left of their scripts: each step   *)
(* is left once, in the order of the code (Tidy), so a handler that has    *)
(* the change before it has the whole script before it, and one that has   *)
(* still to read has still to publish.  The invariants are OwedInv (a mark *)
(* is of a request of its own app and room), ListInv (entries are those of *)
(* handlers that have changed their room), ReadInv (a payload is the room  *)
(* as it is, or was overtaken) and ShowInv (the last word on its way is    *)
(* the room as it is, already between Subscribe and the full_state).       *)
(***************************************************************************)
EXTENDS Screens, SequenceTheorems, NaturalsInduction, WellFoundedInduction, TLAPS

Step == {"apply", "log", "tell", "read", "publish", "answer"}

\* What is left of a script has each step once, and in the order of the code.
Tidy(q, script, sc) ==
  /\ q \in Seq(Step)
  /\ \A j, k \in DOMAIN q : q[j] = q[k] => j = k
  /\ \A k \in DOMAIN q :
       /\ q[k] = "apply" => k = 1 /\ Range(q) = Range(script)
       /\ q[k] = "read"  => \E j \in DOMAIN q : k < j /\ q[j] = "publish"
       /\ q[k] = "log"   => sc = "backend" /\ \E j \in DOMAIN q : k < j /\ q[j] = "tell"

\* What it is to be in the range of a sequence.
LEMMA InRange ==
  ASSUME NEW f, NEW y PROVE y \in Range(f) <=> \E x \in DOMAIN f : f[x] = y
BY DEF Range

\* The scripts of the handlers are tidy, and begin with the change of the room.
LEMMA ScriptIsTidy ==
  ASSUME scenario \in Scenario
  PROVE  /\ Tidy(Script, Script, scenario) /\ Script # <<>> /\ Head(Script) = "apply"
         /\ "publish" \in Range(Script) => "read" \in Range(Script)
<1> DEFINE q == Script
<1>1. CASE scenario = "backend"
  <2>1. q = <<"apply", "log", "tell", "read", "publish", "answer">>
    BY <1>1 DEF Script, BackendScript
  <2>2. QED
    BY <1>1, <2>1 DEF Tidy, Step, Range
<1>2. CASE scenario = "normal"
  <2>1. q = <<"apply", "answer", "read", "publish", "tell">>
    BY <1>2 DEF Script, NormalScript
  <2>2. QED
    BY <2>1 DEF Tidy, Step, Range
<1>3. CASE scenario = "delayed-room-update"
  <2>1. q = <<"apply", "answer", "tell">>
    BY <1>3 DEF Script, DelayedScript
  <2>2. QED
    BY <2>1 DEF Tidy, Step, Range
<1>4. CASE scenario = "delayed-room-update-recover"
  <2>1. q = <<"apply", "answer", "tell">> \o <<"read", "publish">>
    BY <1>4 DEF Script, RecoverScript, DelayedScript
  <2>2. /\ q \in Seq(Step) /\ Len(q) = 5
        /\ q[1] = "apply" /\ q[2] = "answer" /\ q[3] = "tell" /\ q[4] = "read" /\ q[5] = "publish"
    BY <2>1 DEF Step
  <2> HIDE DEF q
  <2>3. DOMAIN q = 1 .. 5 /\ Head(q) = "apply" /\ q # <<>>
    BY <2>2, LenProperties, EmptySeq
  <2>4. Tidy(q, q, scenario)
    BY <2>2, <2>3 DEF Tidy, q
  <2>5. "read" \in Range(q)
    BY <2>2, <2>3, InRange
  <2>6. QED
    BY <2>3, <2>4, <2>5 DEF q
<1>5. CASE scenario = "sse-drop-after-full-state"
  <2>1. q = <<"apply", "answer">>
    BY <1>5 DEF Script, DropScript
  <2>2. QED
    BY <2>1 DEF Tidy, Step, Range
<1>6. QED
  BY <1>1, <1>2, <1>3, <1>4, <1>5, ScreensAssumption

\* A step is done and the others are left.
LEMMA TailIsTidy ==
  ASSUME NEW q, NEW script, NEW sc, Tidy(q, script, sc), q # <<>>
  PROVE  /\ Tidy(Tail(q), script, sc) /\ Range(Tail(q)) = Range(q) \ {Head(q)}
         /\ Head(q) \in Range(q)
         /\ Len(q) = 1 <=> Tail(q) = <<>>
<1> DEFINE t == Tail(q)
<1>1. /\ q \in Seq(Step) /\ Len(q) \in Nat \ {0} /\ DOMAIN q = 1 .. Len(q) /\ Head(q) = q[1]
      /\ t \in Seq(Step) /\ Len(t) = Len(q) - 1 /\ DOMAIN t = 1 .. Len(t)
      /\ \A k \in DOMAIN t : t[k] = q[k + 1] /\ k + 1 \in DOMAIN q
  BY HeadTailProperties, EmptySeq, LenProperties DEF Tidy
<1>2. \A k \in DOMAIN q : k # 1 => k - 1 \in DOMAIN t /\ q[k] = t[k - 1]
  BY <1>1
<1>3. t = <<>> <=> Len(t) = 0
  BY <1>1, EmptySeq
<1> HIDE DEF t
<1>4. \A j, k \in DOMAIN t : t[j] = t[k] => j = k
  BY <1>1 DEF Tidy
<1>5. ASSUME NEW k \in DOMAIN t
      PROVE  /\ t[k] = "apply" => FALSE
             /\ t[k] = "read"  => \E j \in DOMAIN t : k < j /\ t[j] = "publish"
             /\ t[k] = "log"   => sc = "backend"
                                    /\ \E j \in DOMAIN t : k < j /\ t[j] = "tell"
  <2>1. k + 1 \in DOMAIN q /\ q[k + 1] = t[k] /\ k + 1 # 1 /\ k \in Nat
    BY <1>1
  <2>2. ASSUME NEW j \in DOMAIN q, k + 1 < j
        PROVE  j - 1 \in DOMAIN t /\ k < j - 1 /\ t[j - 1] = q[j]
    BY <1>1, <1>2, <2>1, <2>2
  <2>3. t[k] # "apply"
    BY <2>1 DEF Tidy
  <2>4. t[k] = "read" => \E j \in DOMAIN q : k + 1 < j /\ q[j] = "publish"
    BY <2>1 DEF Tidy
  <2>5. t[k] = "log" => sc = "backend" /\ \E j \in DOMAIN q : k + 1 < j /\ q[j] = "tell"
    BY <2>1 DEF Tidy
  <2>6. QED
    BY <2>2, <2>3, <2>4, <2>5
<1>6. Range(t) = Range(q) \ {Head(q)}
  <2>1. ASSUME NEW y PROVE y \in Range(t) <=> \E k \in DOMAIN q : k # 1 /\ q[k] = y
    BY <1>1, <1>2, InRange
  <2>2. ASSUME NEW y PROVE y \in Range(q) <=> \E k \in DOMAIN q : q[k] = y
    BY InRange
  <2>3. \A k \in DOMAIN q : k # 1 <=> q[k] # Head(q)
    BY <1>1 DEF Tidy
  <2>4. QED
    BY <2>1, <2>2, <2>3
<1>7. Head(q) \in Range(q)
  <2>1. 1 \in DOMAIN q /\ q[1] = Head(q)
    BY <1>1
  <2>2. QED
    BY <2>1, InRange
<1>8. QED
  BY <1>1, <1>3, <1>4, <1>5, <1>6, <1>7 DEF Tidy, t

\* What the place of a step says of the steps that are left.
LEMMA StepsInOrder ==
  ASSUME NEW q, NEW script, NEW sc, Tidy(q, script, sc), q # <<>>
  PROVE  /\ "apply" \in Range(q) <=> Head(q) = "apply"
         /\ "apply" \in Range(q) => Range(q) = Range(script)
         /\ "read" \in Range(q) => "publish" \in Range(q) /\ Head(q) # "publish"
         /\ "log" \in Range(q) => "tell" \in Range(q) /\ sc = "backend"
         /\ Head(q) \in Step
<1>1. q \in Seq(Step) /\ Len(q) \in Nat \ {0} /\ DOMAIN q = 1 .. Len(q) /\ Head(q) = q[1]
  BY EmptySeq, LenProperties DEF Tidy
<1>2. \A y : y \in Range(q) <=> \E k \in DOMAIN q : q[k] = y
  BY InRange
<1>3. 1 \in DOMAIN q /\ \A k \in DOMAIN q : q[k] \in Step
  BY <1>1
<1>4. "apply" \in Range(q) => Head(q) = "apply" /\ Range(q) = Range(script)
  BY <1>1, <1>2 DEF Tidy
<1>5. "read" \in Range(q) => "publish" \in Range(q) /\ Head(q) # "publish"
  <2> SUFFICES ASSUME NEW k \in DOMAIN q, q[k] = "read"
               PROVE  "publish" \in Range(q) /\ Head(q) # "publish"
    BY <1>2
  <2>1. PICK j \in DOMAIN q : k < j /\ q[j] = "publish"
    BY DEF Tidy
  <2>2. j # 1 /\ j \in Nat /\ k \in Nat
    BY <1>1, <2>1
  <2>3. QED
    BY <1>1, <1>2, <1>3, <2>1, <2>2 DEF Tidy
<1>6. "log" \in Range(q) => "tell" \in Range(q) /\ sc = "backend"
  BY <1>2 DEF Tidy
<1>7. Head(q) \in Range(q) /\ Head(q) \in Step
  BY <1>1, <1>2, <1>3
<1>8. QED
  BY <1>4, <1>5, <1>6, <1>7
-----------------------------------------------------------------------------
\* The types of the server's variables, with what is left of the handlers' scripts.
ServerOK ==
  /\ scenario \in Scenario /\ kind \in [Screen -> Kind]
  /\ rooms \in [Room -> RoomState] /\ audit \in Seq(Request) /\ sent \in Nat
  /\ todo \in [Request -> Seq(Step)]
  /\ \A i \in Request : Tidy(todo[i], Script, scenario)
  /\ job \in [Request -> [room: Room \cup {NoJob.room}, from: Screen \cup {Elsewhere}]]
  /\ \A i \in Request : todo[i] # <<>> => job[i].room \in Room /\ i <= sent
  /\ read \in [Request -> RoomState]
  /\ \A i \in Request : (scenario # "backend" /\ todo[i] # <<>> /\ ~Has(i, "apply")) => audit # <<>>

Single(S) == {<<x>> : x \in S}

WireOK ==
  /\ stream \in [Screen -> {"none", "connecting", "subscribed", "live", "ended"}]
  /\ channel \in [Screen -> Seq(Event)]
  /\ \A s \in Screen : Len(channel[s]) <= Capacity /\ (~Subscribed(s) => channel[s] = <<>>)
  /\ greeting \in [Screen -> {<<>>} \cup Single([Room -> RoomState])]

FetchOK ==
  /\ asked \in [Screen -> {"nothing", "rooms", "audit"}]
  /\ got \in [Screen -> {<<>>} \cup Single([Room -> RoomState]) \cup Single(SUBSET Request)]
  /\ \A s \in Screen : got[s] # <<>> =>
       \/ asked[s] = "rooms" /\ got[s] \in Single([Room -> RoomState])
       \/ asked[s] = "audit" /\ got[s] \in Single(SUBSET Request)

AppOK ==
  /\ shown \in [Screen -> [Room -> RoomState \cup {Unknown}]]
  /\ items \in [Screen -> SUBSET Request]
  /\ pending \in [Screen -> [Room -> Request \cup {0}]]
  /\ delayed \in [Screen -> SUBSET Room]
  /\ \A s \in Screen : \A r \in delayed[s] : pending[s][r] # 0

HistoryOK ==
  /\ overtaken \subseteq Request /\ missed \subseteq Request
  /\ doubt \in [Screen -> SUBSET Room] /\ gap \in [Screen -> SUBSET Request]

TypeInv == ServerOK /\ WireOK /\ FetchOK /\ AppOK /\ HistoryOK

\* What the step st of handler i does to the scripts and the jobs.
Did(i, st) ==
  /\ \A k \in Request, x \in Step : x \in Range(todo'[k]) <=> (Has(k, x) /\ ~(k = i /\ x = st))
  /\ \A k \in Request : todo'[k] # <<>> => todo[k] # <<>> /\ job'[k] = job[k]

\* A handler that does its next step has a room, and goes on with its script.
LEMMA Advances ==
  ASSUME ServerOK, UNCHANGED scenario, NEW i \in Request, NEW st, AtStep(i, st), Advance(i)
  PROVE  /\ todo' \in [Request -> Seq(Step)]
         /\ \A k \in Request : Tidy(todo'[k], Script', scenario')
         /\ job' \in [Request -> [room: Room \cup {NoJob.room}, from: Screen \cup {Elsewhere}]]
         /\ job[i].room \in Room /\ i <= sent /\ st \in Step /\ Has(i, st)
         /\ Did(i, st)
<1>1. todo[i] # <<>> /\ Head(todo[i]) = st /\ Tidy(todo[i], Script, scenario)
  BY DEF AtStep, ServerOK
<1>2. Script' = Script
  BY DEF Script
<1>3. /\ Tidy(Tail(todo[i]), Script, scenario) /\ Tail(todo[i]) \in Seq(Step)
      /\ Range(Tail(todo[i])) = Range(todo[i]) \ {st} /\ st \in Range(todo[i])
      /\ Len(todo[i]) = 1 <=> Tail(todo[i]) = <<>>
  <2>1. /\ Tidy(Tail(todo[i]), Script, scenario)
        /\ Range(Tail(todo[i])) = Range(todo[i]) \ {Head(todo[i])}
        /\ Head(todo[i]) \in Range(todo[i])
        /\ Len(todo[i]) = 1 <=> Tail(todo[i]) = <<>>
    BY <1>1, TailIsTidy
  <2>2. Tail(todo[i]) \in Seq(Step)
    BY <2>1 DEF Tidy
  <2>3. QED
    BY <1>1, <2>1, <2>2
<1>4. st \in Step
  BY <1>1, StepsInOrder
<1>5. todo' = [todo EXCEPT ![i] = Tail(todo[i])] /\ todo \in [Request -> Seq(Step)]
  BY DEF Advance, ServerOK
<1>6. /\ todo'[i] = Tail(todo[i]) /\ \A k \in Request \ {i} : todo'[k] = todo[k]
      /\ todo' \in [Request -> Seq(Step)]
  BY <1>3, <1>5
<1>7. \A k \in Request : Tidy(todo'[k], Script', scenario')
  BY <1>2, <1>3, <1>6 DEF ServerOK
<1>8. /\ job' \in [Request -> [room: Room \cup {NoJob.room}, from: Screen \cup {Elsewhere}]]
      /\ \A k \in Request : todo'[k] # <<>> => todo[k] # <<>> /\ job'[k] = job[k]
  <2>1. CASE Len(todo[i]) = 1
    <3>1. job' = [job EXCEPT ![i] = NoJob]
      BY <2>1 DEF Advance, Forget
    <3>2. todo'[i] = <<>>
      BY <1>3, <1>6, <2>1
    <3>3. NoJob \in [room: Room \cup {NoJob.room}, from: Screen \cup {Elsewhere}]
      BY DEF NoJob
    <3>4. QED
      BY <1>6, <3>1, <3>2, <3>3 DEF ServerOK
  <2>2. CASE Len(todo[i]) # 1
    BY <1>1, <1>6, <2>2 DEF Advance, ServerOK
  <2>3. QED
    BY <2>1, <2>2
<1>9. \A k \in Request, x \in Step : x \in Range(todo'[k]) <=> (Has(k, x) /\ ~(k = i /\ x = st))
  BY <1>3, <1>6 DEF Has
<1>10. Did(i, st)
  BY <1>8, <1>9 DEF Did
<1>11. job[i].room \in Room /\ i <= sent
  BY <1>1 DEF ServerOK
<1>12. QED
  BY <1>3, <1>4, <1>6, <1>7, <1>8, <1>10, <1>11 DEF Has

\* A new request has a number of its own and the whole script before it.
LEMMA Arrives ==
  ASSUME ServerOK, UNCHANGED <<scenario, kind, rooms, audit, read>>,
         NEW r \in Room, NEW s \in Screen \cup {Elsewhere}, Arrive(r, s)
  PROVE  /\ ServerOK'
         /\ sent' = sent + 1 /\ sent' \in Request
         /\ todo[sent'] = <<>> /\ todo'[sent'] = Script
         /\ job'[sent'] = [room |-> r, from |-> s]
         /\ \A k \in Request \ {sent'} : todo'[k] = todo[k] /\ job'[k] = job[k]
<1>1. Script' = Script
  BY DEF Script
<1>2. /\ Tidy(Script, Script, scenario) /\ Script \in Seq(Step) /\ "apply" \in Range(Script)
      /\ Script # <<>>
  <2>1. Tidy(Script, Script, scenario) /\ Script # <<>> /\ Head(Script) = "apply"
    BY ScriptIsTidy DEF ServerOK
  <2>2. Head(Script) \in Range(Script)
    BY <2>1, TailIsTidy
  <2>3. Script \in Seq(Step)
    BY <2>1 DEF Tidy
  <2>4. QED
    BY <2>1, <2>2, <2>3
<1>3. /\ sent' = sent + 1 /\ sent' \in Request /\ sent \in Nat
      /\ job' = [job EXCEPT ![sent'] = [room |-> r, from |-> s]]
      /\ todo' = [todo EXCEPT ![sent'] = Script]
  BY DEF Arrive, ServerOK
<1>4. todo[sent'] = <<>>
  BY <1>3 DEF ServerOK
<1>5. /\ todo'[sent'] = Script /\ job'[sent'] = [room |-> r, from |-> s]
      /\ \A k \in Request \ {sent'} : todo'[k] = todo[k] /\ job'[k] = job[k]
  BY <1>3 DEF ServerOK
<1>6. todo' \in [Request -> Seq(Step)]
  BY <1>2, <1>3 DEF ServerOK
<1>7. \A k \in Request : Tidy(todo'[k], Script', scenario')
  BY <1>1, <1>2, <1>5 DEF ServerOK
<1>8. job' \in [Request -> [room: Room \cup {NoJob.room}, from: Screen \cup {Elsewhere}]]
  BY <1>3 DEF ServerOK
<1>9. \A k \in Request : todo'[k] # <<>> => job'[k].room \in Room /\ k <= sent'
  BY <1>3, <1>5, ScreensAssumption DEF ServerOK
<1>10. \A k \in Request : (scenario' # "backend" /\ todo'[k] # <<>> /\ "apply" \notin Range(todo'[k]))
                            => audit' # <<>>
  BY <1>2, <1>5 DEF ServerOK, Has
<1>11. ServerOK'
  <2>1. /\ scenario' \in Scenario /\ kind' \in [Screen -> Kind] /\ sent' \in Nat
        /\ rooms' \in [Room -> RoomState] /\ audit' \in Seq(Request)
        /\ read' \in [Request -> RoomState]
    BY <1>3 DEF ServerOK
  <2>2. QED
    BY <1>6, <1>7, <1>8, <1>9, <1>10, <2>1 DEF ServerOK, Has
<1>12. QED
  BY <1>3, <1>4, <1>5, <1>11

\* The command of a handler makes a room of a room.
LEMMA ChangedType ==
  ASSUME NEW c \in Command, NEW room \in RoomState
  PROVE  Changed(room, c) \in RoomState /\ MockChanged(room, c) \in RoomState
<1>1. /\ room.status \in {"vacant", "occupied", "cleaning"} /\ room.minutes \in {0, 1}
      /\ c \in {"check_in", "check_out", "start_cleaning", "finish_cleaning", "open_room"}
  BY ScreensAssumption DEF RoomState
<1>2. Changed(room, c) \in RoomState
  BY <1>1 DEF Changed, RoomState
<1>3. QED
  BY <1>1, <1>2 DEF MockChanged, RoomState

\* What a handler's step asks of the server's other variables.
LEMMA HandlerKeepsServer ==
  ASSUME ServerOK, UNCHANGED <<scenario, kind, sent>>, NEW i \in Request, NEW st,
         AtStep(i, st), Advance(i),
         rooms' \in [Room -> RoomState], audit' \in Seq(Request), read' \in [Request -> RoomState],
         audit # <<>> => audit' # <<>>,
         (st = "apply" /\ scenario # "backend") => audit' # <<>>
  PROVE  ServerOK'
<1>1. /\ todo' \in [Request -> Seq(Step)]
      /\ \A k \in Request : Tidy(todo'[k], Script', scenario')
      /\ job' \in [Request -> [room: Room \cup {NoJob.room}, from: Screen \cup {Elsewhere}]]
      /\ Did(i, st)
  BY Advances
<1>2. \A k \in Request : todo'[k] # <<>> => job'[k].room \in Room /\ k <= sent'
  BY <1>1 DEF Did, ServerOK
<1>3. ASSUME NEW k \in Request, scenario' # "backend", todo'[k] # <<>>, "apply" \notin Range(todo'[k])
      PROVE  audit' # <<>>
  <2>1. todo[k] # <<>> /\ (Has(k, "apply") => k = i /\ st = "apply")
    BY <1>1, <1>3 DEF Did, Step
  <2>2. QED
    BY <1>3, <2>1 DEF ServerOK
<1>4. /\ scenario' \in Scenario /\ kind' \in [Screen -> Kind] /\ sent' \in Nat
  BY DEF ServerOK
<1>5. QED
  BY <1>1, <1>2, <1>3, <1>4 DEF ServerOK, Has

\* Every action keeps the server in its types.
LEMMA ServerTypes == ServerOK /\ [Next]_vars => ServerOK'
<1> SUFFICES ASSUME ServerOK, [Next]_vars PROVE ServerOK'
  OBVIOUS
<1>1. CASE UNCHANGED <<scenario, kind, rooms, audit, todo, job, sent, read>>
  <2>1. Script' = Script
    BY <1>1 DEF Script
  <2>2. QED
    BY <1>1, <2>1 DEF ServerOK, Has
<1>2. ASSUME NEW i \in Request, Refuse(i) PROVE ServerOK'
  <2>1. /\ todo' = [todo EXCEPT ![i] = <<>>] /\ job' = [job EXCEPT ![i] = NoJob]
        /\ UNCHANGED <<scenario, kind, rooms, audit, sent, read>>
    BY <1>2 DEF Refuse, Forget
  <2>2. Script' = Script /\ Tidy(<<>>, Script, scenario) /\ <<>> \in Seq(Step)
    BY <2>1 DEF Script, Tidy
  <2>3. NoJob \in [room: Room \cup {NoJob.room}, from: Screen \cup {Elsewhere}]
    BY DEF NoJob
  <2>4. \A k \in Request : todo'[k] = <<>> \/ (todo'[k] = todo[k] /\ job'[k] = job[k])
    BY <2>1 DEF ServerOK
  <2>5. \A k \in Request : Tidy(todo'[k], Script', scenario')
    BY <2>1, <2>2, <2>4 DEF ServerOK
  <2>6. QED
    BY <2>1, <2>2, <2>3, <2>4, <2>5 DEF ServerOK, Has
<1>3. ASSUME NEW i \in Request, LoseAnswer(i) PROVE ServerOK'
  <2>1. /\ job' = [job EXCEPT ![i].from = Elsewhere]
        /\ UNCHANGED <<scenario, kind, rooms, audit, todo, sent, read>>
    BY <1>3 DEF LoseAnswer
  <2>2. Script' = Script
    BY <2>1 DEF Script
  <2>3. /\ job' \in [Request -> [room: Room \cup {NoJob.room}, from: Screen \cup {Elsewhere}]]
        /\ \A k \in Request : job'[k].room = job[k].room
    BY <2>1 DEF ServerOK
  <2>4. QED
    BY <2>1, <2>2, <2>3 DEF ServerOK, Has
<1>4. ASSUME NEW i \in Request, Apply(i) PROVE ServerOK'
  <2>1. job[i].room \in Room
    BY <1>4, Advances DEF Apply
  <2>2. PICK c \in Command : rooms' = [rooms EXCEPT ![job[i].room] =
          IF scenario = "backend" THEN Changed(@, c) ELSE MockChanged(@, c)]
    BY <1>4 DEF Apply
  <2>3. rooms' \in [Room -> RoomState]
    BY <2>1, <2>2, ChangedType DEF ServerOK
  <2>4. /\ audit' \in Seq(Request) /\ (audit # <<>> => audit' # <<>>)
        /\ scenario # "backend" => audit' # <<>>
    BY <1>4 DEF Apply, ServerOK
  <2>5. QED
    BY <1>4, <2>3, <2>4, HandlerKeepsServer DEF Apply, ServerOK
<1>5. ASSUME NEW i \in Request, Log(i) PROVE ServerOK'
  <2>1. audit' \in Seq(Request) /\ audit' # <<>>
    BY <1>5 DEF Log, ServerOK
  <2>2. rooms' \in [Room -> RoomState] /\ read' \in [Request -> RoomState]
    BY <1>5 DEF Log, ServerOK
  <2>3. QED
    BY <1>5, <2>1, <2>2, HandlerKeepsServer DEF Log
<1>6. ASSUME NEW i \in Request, Tell(i) PROVE ServerOK'
  <2>1. UNCHANGED <<scenario, kind, rooms, audit, sent, read>> /\ AtStep(i, "tell") /\ Advance(i)
    BY <1>6 DEF Tell
  <2>2. QED
    BY <2>1, HandlerKeepsServer DEF ServerOK
<1>7. ASSUME NEW i \in Request, Read(i) PROVE ServerOK'
  <2>1. job[i].room \in Room
    BY <1>7, Advances DEF Read
  <2>2. /\ UNCHANGED <<scenario, kind, rooms, audit, sent>> /\ AtStep(i, "read") /\ Advance(i)
        /\ read' \in [Request -> RoomState]
    BY <1>7, <2>1 DEF Read, ServerOK
  <2>3. QED
    BY <2>2, HandlerKeepsServer DEF ServerOK
<1>8. ASSUME NEW i \in Request, PublishRoom(i) PROVE ServerOK'
  <2>1. NoPayload \in RoomState
    BY DEF NoPayload, RoomState
  <2>2. /\ UNCHANGED <<scenario, kind, rooms, audit, sent>> /\ AtStep(i, "publish") /\ Advance(i)
        /\ read' \in [Request -> RoomState]
    BY <1>8, <2>1 DEF PublishRoom, ServerOK
  <2>3. QED
    BY <2>2, HandlerKeepsServer DEF ServerOK
<1>9. ASSUME NEW i \in Request, Answer(i) PROVE ServerOK'
  <2>1. UNCHANGED <<scenario, kind, rooms, audit, sent, read>> /\ AtStep(i, "answer") /\ Advance(i)
    BY <1>9 DEF Answer
  <2>2. QED
    BY <2>1, HandlerKeepsServer DEF ServerOK
<1>10. ASSUME NEW r \in Room, Foreign(r) PROVE ServerOK'
  BY <1>10, Arrives DEF Foreign
<1>11. ASSUME NEW s \in Screen, NEW r \in Room, Press(s, r) PROVE ServerOK'
  BY <1>11, Arrives DEF Press
<1>12. ASSUME NEW s \in Screen,
              \/ \E r \in Room : TimeOut(s, r)
              \/ Open(s) \/ Refresh(s) \/ Serve(s) \/ LoadRooms(s) \/ LoadAudit(s) \/ FetchFails(s)
              \/ Subscribe(s) \/ Stream(s) \/ Disconnect(s)
       PROVE  UNCHANGED <<scenario, kind, rooms, audit, todo, job, sent, read>>
  BY <1>12 DEF server, TimeOut, Open, Refresh, Serve, LoadRooms, LoadAudit, FetchFails, Subscribe,
               Stream, Greet, TakeGreeting, TakeEvent, Disconnect
<1>13. CASE UNCHANGED vars
  BY <1>1, <1>13 DEF vars, server
<1>14. QED
  BY <1>1, <1>2, <1>3, <1>4, <1>5, <1>6, <1>7, <1>8, <1>9, <1>10, <1>11, <1>12, <1>13
     DEF Next, Handle

\* What Publish leaves in a channel: the event too, where somebody listens and has room.
LEMMA PublishIs ==
  ASSUME WireOK, NEW e \in Event, Publish(e), NEW s \in Screen
  PROVE  channel'[s] = IF Subscribed(s) /\ ~Full(s) THEN Append(channel[s], e) ELSE channel[s]
BY DEF Publish

\* Publish keeps the channels within their capacity, and those of nobody empty.
LEMMA PublishKeepsWire ==
  ASSUME WireOK, NEW e \in Event, Publish(e), UNCHANGED <<stream, greeting>>
  PROVE  WireOK'
<1>1. ASSUME NEW s \in Screen
      PROVE  /\ channel'[s] \in Seq(Event) /\ Len(channel'[s]) <= Capacity
             /\ ~Subscribed(s) => channel'[s] = <<>>
  <2>1. channel[s] \in Seq(Event) /\ Len(channel[s]) \in Nat /\ Len(channel[s]) <= Capacity
    BY LenProperties DEF WireOK
  <2>2. Append(channel[s], e) \in Seq(Event) /\ Len(Append(channel[s], e)) = Len(channel[s]) + 1
    BY <2>1, AppendProperties
  <2>3. ~Full(s) => Len(channel[s]) + 1 <= Capacity
    BY <2>1, ScreensAssumption DEF Full
  <2>4. CASE Subscribed(s) /\ ~Full(s)
    BY <2>2, <2>3, <2>4, PublishIs
  <2>5. CASE ~(Subscribed(s) /\ ~Full(s))
    BY <2>1, <2>5, PublishIs DEF WireOK
  <2>6. QED
    BY <2>4, <2>5
<1>2. channel' = [s \in Screen |-> channel'[s]]
  BY DEF Publish
<1>3. channel' \in [Screen -> Seq(Event)]
  BY <1>1, <1>2
<1>4. \A s \in Screen : Subscribed(s)' <=> Subscribed(s)
  BY DEF Subscribed
<1>5. QED
  BY <1>1, <1>3, <1>4 DEF WireOK

\* The event of a Tell is one: there is an entry to announce.
LEMMA TellEvent ==
  ASSUME ServerOK, NEW i \in Request, AtStep(i, "tell")
  PROVE  Announced(i) \in Request /\ [event |-> "audit_event", item |-> Announced(i)] \in Event
<1>1. todo[i] # <<>> /\ Head(todo[i]) = "tell" /\ Tidy(todo[i], Script, scenario)
  BY DEF AtStep, ServerOK
<1>2. ~Has(i, "apply")
  BY <1>1, StepsInOrder DEF Has
<1>3. Announced(i) \in Request
  BY <1>1, <1>2 DEF ServerOK, Announced
<1>4. QED
  BY <1>3 DEF Event

\* The event of a PublishRoom is one.
LEMMA RoomEvent ==
  ASSUME ServerOK, NEW i \in Request, AtStep(i, "publish")
  PROVE  /\ job[i].room \in Room /\ read[i] \in RoomState
         /\ [event |-> "room_update", room |-> job[i].room, state |-> read[i]] \in Event
<1>1. job[i].room \in Room /\ read[i] \in RoomState
  BY DEF AtStep, ServerOK
<1>2. QED
  BY <1>1 DEF Event

\* Every action keeps the streams in their types.
LEMMA WireTypes == ServerOK /\ WireOK /\ [Next]_vars => WireOK'
<1> SUFFICES ASSUME ServerOK, WireOK, [Next]_vars PROVE WireOK'
  OBVIOUS
<1>1. CASE UNCHANGED <<stream, channel, greeting>>
  BY <1>1 DEF WireOK, Subscribed
<1>2. ASSUME NEW i \in Request, Tell(i) PROVE WireOK'
  BY <1>2, TellEvent, PublishKeepsWire DEF Tell
<1>3. ASSUME NEW i \in Request, PublishRoom(i) PROVE WireOK'
  <2>1. /\ AtStep(i, "publish") /\ UNCHANGED <<stream, greeting>>
        /\ Publish([event |-> "room_update", room |-> job[i].room, state |-> read[i]])
    BY <1>3 DEF PublishRoom
  <2>2. QED
    BY <2>1, RoomEvent, PublishKeepsWire
<1>4. ASSUME NEW s \in Screen, EndRefresh(s), UNCHANGED <<channel, greeting>> PROVE WireOK'
  BY <1>4 DEF EndRefresh, WireOK, Subscribed
<1>5. ASSUME NEW s \in Screen, Subscribe(s) PROVE WireOK'
  BY <1>5 DEF Subscribe, WireOK, Subscribed
<1>6. ASSUME NEW s \in Screen, Greet(s) PROVE WireOK'
  <2>1. <<rooms>> \in Single([Room -> RoomState])
    BY DEF ServerOK, Single
  <2>2. /\ stream' \in [Screen -> {"none", "connecting", "subscribed", "live", "ended"}]
        /\ greeting' \in [Screen -> {<<>>} \cup Single([Room -> RoomState])]
    BY <1>6, <2>1 DEF Greet, WireOK
  <2>3. CASE scenario = "sse-drop-after-full-state"
    <3>1. /\ stream' = [stream EXCEPT ![s] = "ended"] /\ channel' = [channel EXCEPT ![s] = <<>>]
      BY <1>6, <2>3 DEF Greet
    <3>2. channel' \in [Screen -> Seq(Event)] /\ \A q \in Screen : channel'[q] \in {channel[q], <<>>}
      BY <3>1 DEF WireOK
    <3>3. ASSUME NEW q \in Screen
          PROVE  Len(channel'[q]) <= Capacity /\ (~Subscribed(q)' => channel'[q] = <<>>)
      BY <3>1, <3>2, ScreensAssumption DEF WireOK, Subscribed
    <3>4. QED
      BY <2>2, <3>2, <3>3 DEF WireOK
  <2>4. CASE scenario # "sse-drop-after-full-state"
    <3>1. stream' = [stream EXCEPT ![s] = "live"] /\ channel' = channel
      BY <1>6, <2>4 DEF Greet
    <3>2. QED
      BY <2>2, <3>1 DEF WireOK, Subscribed
  <2>5. QED
    BY <2>3, <2>4
<1>7. ASSUME NEW s \in Screen, TakeGreeting(s) PROVE WireOK'
  BY <1>7 DEF TakeGreeting, WireOK, Subscribed
<1>8. ASSUME NEW s \in Screen, TakeEvent(s) PROVE WireOK'
  <2>1. /\ channel[s] # <<>> /\ channel' = [channel EXCEPT ![s] = Tail(channel[s])]
        /\ UNCHANGED <<stream, greeting>>
    BY <1>8 DEF TakeEvent, WireOK
  <2>2. /\ channel[s] \in Seq(Event) /\ Tail(channel[s]) \in Seq(Event)
        /\ Len(Tail(channel[s])) = Len(channel[s]) - 1 /\ Len(channel[s]) \in Nat
    BY <2>1, HeadTailProperties, LenProperties DEF WireOK
  <2>3. Len(Tail(channel[s])) <= Capacity
    BY <2>2, ScreensAssumption DEF WireOK
  <2>4. Subscribed(s)
    BY <2>1 DEF WireOK
  <2>5. QED
    BY <2>1, <2>2, <2>3, <2>4 DEF WireOK, Subscribed
<1>9. ASSUME NEW s \in Screen, Disconnect(s) PROVE WireOK'
  <2>1. /\ stream' = [stream EXCEPT ![s] = "ended"] /\ channel' = [channel EXCEPT ![s] = <<>>]
        /\ greeting' = [greeting EXCEPT ![s] = <<>>]
    BY <1>9 DEF Disconnect
  <2>2. channel' \in [Screen -> Seq(Event)] /\ \A q \in Screen : channel'[q] \in {channel[q], <<>>}
    BY <2>1 DEF WireOK
  <2>3. ASSUME NEW q \in Screen
        PROVE  Len(channel'[q]) <= Capacity /\ (~Subscribed(q)' => channel'[q] = <<>>)
    BY <2>1, <2>2, ScreensAssumption DEF WireOK, Subscribed
  <2>4. QED
    BY <2>1, <2>2, <2>3 DEF WireOK
<1>10. ASSUME NEW s \in Screen, LoadRooms(s) PROVE WireOK'
  <2>1. UNCHANGED stream \/ EndRefresh(s)
    BY <1>10 DEF LoadRooms
  <2>2. UNCHANGED <<channel, greeting>>
    BY <1>10 DEF LoadRooms
  <2>3. QED
    BY <1>1, <1>4, <2>1, <2>2
<1>11. ASSUME NEW s \in Screen, LoadAudit(s) \/ FetchFails(s) PROVE WireOK'
  BY <1>4, <1>11 DEF LoadAudit, FetchFails
<1>12. ASSUME NEW i \in Request,
              Refuse(i) \/ LoseAnswer(i) \/ Apply(i) \/ Log(i) \/ Read(i) \/ Answer(i)
       PROVE  UNCHANGED <<stream, channel, greeting>>
  BY <1>12 DEF wire, Refuse, LoseAnswer, Apply, Log, Read, Answer
<1>13. ASSUME NEW r \in Room, Foreign(r) \/ \E s \in Screen : Press(s, r) \/ TimeOut(s, r)
       PROVE  UNCHANGED <<stream, channel, greeting>>
  BY <1>13 DEF wire, Foreign, Press, TimeOut
<1>14. ASSUME NEW s \in Screen, Open(s) \/ Refresh(s) \/ Serve(s)
       PROVE  UNCHANGED <<stream, channel, greeting>>
  BY <1>14 DEF wire, Open, Refresh, Serve
<1>15. CASE UNCHANGED vars
  BY <1>1, <1>15 DEF vars, wire
<1>16. QED
  BY <1>1, <1>2, <1>3, <1>5, <1>6, <1>7, <1>8, <1>9, <1>10, <1>11, <1>12, <1>13, <1>14, <1>15
     DEF Next, Handle, Stream

\* Every action keeps the GETs and their answers in their types.
LEMMA FetchTypes == ServerOK /\ FetchOK /\ [Next]_vars => FetchOK'
<1> SUFFICES ASSUME ServerOK, FetchOK, [Next]_vars PROVE FetchOK'
  OBVIOUS
<1>1. CASE UNCHANGED fetch
  BY <1>1 DEF FetchOK, fetch
<1>2. ASSUME NEW s \in Screen, Open(s) \/ Refresh(s) PROVE FetchOK'
  <2>1. asked' = [asked EXCEPT ![s] = "rooms"] /\ got' = got /\ asked[s] = "nothing"
    BY <1>2 DEF Open, Refresh
  <2>2. got[s] = <<>>
    BY <2>1 DEF FetchOK
  <2>3. QED
    BY <2>1, <2>2 DEF FetchOK
<1>3. ASSUME NEW s \in Screen, Serve(s) PROVE FetchOK'
  <2>1. <<rooms>> \in Single([Room -> RoomState])
    BY DEF ServerOK, Single
  <2>2. Range(audit) \in SUBSET Request
    BY LenProperties, InRange DEF ServerOK
  <2>3. <<Range(audit)>> \in Single(SUBSET Request)
    BY <2>2 DEF Single
  <2>4. /\ asked' = asked /\ asked[s] \in {"rooms", "audit"}
        /\ got' = [got EXCEPT ![s] = IF asked[s] = "rooms" THEN <<rooms>> ELSE <<Range(audit)>>]
    BY <1>3 DEF Serve, FetchOK
  <2>5. CASE asked[s] = "rooms"
    BY <2>1, <2>4, <2>5 DEF FetchOK
  <2>6. CASE asked[s] = "audit"
    BY <2>3, <2>4, <2>6 DEF FetchOK
  <2>7. QED
    BY <2>4, <2>5, <2>6
<1>4. ASSUME NEW s \in Screen, LoadRooms(s) \/ LoadAudit(s) \/ FetchFails(s) PROVE FetchOK'
  <2>1. /\ got' = [got EXCEPT ![s] = <<>>]
        /\ \/ asked' = [asked EXCEPT ![s] = "audit"] \/ asked' = [asked EXCEPT ![s] = "nothing"]
    BY <1>4 DEF LoadRooms, LoadAudit, FetchFails, EndRefresh
  <2>2. QED
    BY <2>1 DEF FetchOK
<1>5. ASSUME NEW i \in Request, Refuse(i) \/ LoseAnswer(i) \/ Handle(i) PROVE UNCHANGED fetch
  BY <1>5 DEF Refuse, LoseAnswer, Handle, Apply, Log, Tell, Read, PublishRoom, Answer
<1>6. ASSUME NEW r \in Room, Foreign(r) \/ \E s \in Screen : Press(s, r) \/ TimeOut(s, r)
      PROVE  UNCHANGED fetch
  BY <1>6 DEF Foreign, Press, TimeOut
<1>7. ASSUME NEW s \in Screen, Subscribe(s) \/ Stream(s) \/ Disconnect(s) PROVE UNCHANGED fetch
  BY <1>7 DEF Subscribe, Stream, Greet, TakeGreeting, TakeEvent, Disconnect
<1>8. CASE UNCHANGED vars
  BY <1>1, <1>8 DEF vars
<1>9. QED
  BY <1>1, <1>2, <1>3, <1>4, <1>5, <1>6, <1>7, <1>8 DEF Next

\* A pending mark that is cleared takes its timer with it.
LEMMA ClearingKeepsApp ==
  ASSUME AppOK, NEW s \in Screen, NEW r \in Room, pending' = Cleared(s, r), delayed' = OnTime(s, r)
  PROVE  /\ pending' \in [Screen -> [Room -> Request \cup {0}]]
         /\ delayed' \in [Screen -> SUBSET Room]
         /\ \A q \in Screen : \A x \in delayed'[q] : pending'[q][x] # 0
<1>1. /\ pending' = [pending EXCEPT ![s][r] = 0] /\ delayed' = [delayed EXCEPT ![s] = @ \ {r}]
      /\ delayed \in [Screen -> SUBSET Room] /\ pending \in [Screen -> [Room -> Request \cup {0}]]
  BY DEF Cleared, OnTime, AppOK
<1>2. delayed' \in [Screen -> SUBSET Room]
  <2>1. delayed[s] \ {r} \in SUBSET Room
    BY <1>1
  <2>2. QED
    BY <1>1, <2>1
<1>3. pending' \in [Screen -> [Room -> Request \cup {0}]]
  BY <1>1
<1>4. ASSUME NEW q \in Screen, NEW x \in delayed'[q] PROVE pending'[q][x] # 0
  <2>1. x \in delayed[q] /\ x \in Room /\ ~(q = s /\ x = r)
    BY <1>1, <1>4
  <2>2. pending'[q][x] = pending[q][x]
    BY <1>1, <2>1
  <2>3. QED
    BY <2>1, <2>2 DEF AppOK
<1>5. QED
  BY <1>2, <1>3, <1>4

\* A room of a screen that takes an update is a room.
LEMMA PatchedType ==
  ASSUME NEW old \in RoomState \cup {Unknown}, NEW new \in RoomState
  PROVE  Patched(old, new) \in RoomState
<1>1. CASE old # Unknown /\ new.minutes = 0
  <2>1. Patched(old, new) = [new EXCEPT !.minutes = old.minutes]
    BY <1>1 DEF Patched
  <2>2. old \in RoomState
    BY <1>1
  <2>3. QED
    BY <2>1, <2>2 DEF RoomState
<1>2. CASE ~(old # Unknown /\ new.minutes = 0)
  BY <1>2 DEF Patched
<1>3. QED
  BY <1>1, <1>2

\* Every action keeps what the apps show in its types.
LEMMA AppTypes == ServerOK /\ WireOK /\ FetchOK /\ AppOK /\ [Next]_vars => AppOK'
<1> SUFFICES ASSUME ServerOK, WireOK, FetchOK, AppOK, [Next]_vars PROVE AppOK'
  OBVIOUS
<1>1. CASE UNCHANGED app
  BY <1>1 DEF AppOK, app
<1>2. ASSUME NEW s \in Screen, NEW r \in Room, Press(s, r) PROVE AppOK'
  <2>1. sent' \in Request /\ sent' # 0
    BY <1>2, ScreensAssumption DEF Press, Arrive
  <2>2. /\ pending' = [pending EXCEPT ![s][r] = sent'] /\ delayed' = [delayed EXCEPT ![s] = @ \ {r}]
        /\ shown' = shown /\ items' = items
    BY <1>2 DEF Press, OnTime
  <2>3. pending' \in [Screen -> [Room -> Request \cup {0}]] /\ delayed' \in [Screen -> SUBSET Room]
    BY <2>1, <2>2 DEF AppOK
  <2>4. ASSUME NEW q \in Screen, NEW x \in delayed'[q] PROVE pending'[q][x] # 0
    BY <2>1, <2>2, <2>4 DEF AppOK
  <2>5. QED
    BY <2>2, <2>3, <2>4 DEF AppOK
<1>3. ASSUME NEW s \in Screen, NEW r \in Room, TimeOut(s, r) PROVE AppOK'
  BY <1>3 DEF TimeOut, AppOK
<1>4. ASSUME NEW i \in Request, todo[i] # <<>>, ClearAfterError(i), UNCHANGED <<shown, items>>
      PROVE  AppOK'
  <2>1. job[i].room \in Room
    BY <1>4 DEF ServerOK
  <2>2. CASE job[i].from \in Screen
    <3>1. pending' = Cleared(job[i].from, job[i].room) /\ delayed' = OnTime(job[i].from, job[i].room)
      BY <1>4, <2>2 DEF ClearAfterError
    <3>2. QED
      BY <1>4, <2>1, <2>2, <3>1, ClearingKeepsApp DEF AppOK
  <2>3. CASE job[i].from \notin Screen
    BY <1>4, <2>3 DEF ClearAfterError, AppOK
  <2>4. QED
    BY <2>2, <2>3
<1>5. ASSUME NEW i \in Request, Refuse(i) PROVE AppOK'
  BY <1>4, <1>5 DEF Refuse, AtStep
<1>6. ASSUME NEW i \in Request, LoseAnswer(i) PROVE AppOK'
  <2>1. todo[i] # <<>>
    BY <1>6, InRange DEF LoseAnswer, Has
  <2>2. QED
    BY <1>4, <1>6, <2>1 DEF LoseAnswer
<1>7. ASSUME NEW s \in Screen, LoadRooms(s) PROVE AppOK'
  <2>1. got[s] \in Single([Room -> RoomState])
    BY <1>7 DEF LoadRooms, FetchOK
  <2>2. Head(got[s]) \in [Room -> RoomState \cup {Unknown}]
    BY <2>1 DEF Single
  <2>3. QED
    BY <1>7, <2>2 DEF LoadRooms, AppOK
<1>8. ASSUME NEW s \in Screen, LoadAudit(s) PROVE AppOK'
  <2>1. got[s] \in Single(SUBSET Request)
    BY <1>8 DEF LoadAudit, FetchOK
  <2>2. Head(got[s]) \in SUBSET Request
    BY <2>1 DEF Single
  <2>3. QED
    BY <1>8, <2>2 DEF LoadAudit, AppOK
<1>9. ASSUME NEW s \in Screen, TakeGreeting(s) PROVE AppOK'
  <2>1. greeting[s] \in Single([Room -> RoomState])
    BY <1>9 DEF TakeGreeting, WireOK
  <2>2. Head(greeting[s]) \in [Room -> RoomState \cup {Unknown}]
    BY <2>1 DEF Single
  <2>3. QED
    BY <1>9, <2>2 DEF TakeGreeting, AppOK
<1>10. ASSUME NEW s \in Screen, TakeEvent(s) PROVE AppOK'
  <2>1. PICK e \in Event : e = Head(channel[s])
    BY <1>10, HeadTailProperties DEF TakeEvent, WireOK
  <2>2. CASE e.event = "room_update"
    <3>1. e.room \in Room /\ e.state \in RoomState
      BY <2>2 DEF Event
    <3>2. Patched(shown[s][e.room], e.state) \in RoomState
      BY <3>1, PatchedType DEF AppOK
    <3>3. /\ shown' = [shown EXCEPT ![s][e.room] = Patched(@, e.state)]
          /\ pending' = Cleared(s, e.room) /\ delayed' = OnTime(s, e.room) /\ items' = items
      BY <1>10, <2>1, <2>2 DEF TakeEvent
    <3>4. shown' \in [Screen -> [Room -> RoomState \cup {Unknown}]]
      BY <3>1, <3>2, <3>3 DEF AppOK
    <3>5. QED
      BY <3>1, <3>3, <3>4, ClearingKeepsApp DEF AppOK
  <2>3. CASE e.event # "room_update"
    <3>1. e.item \in Request
      BY <2>3 DEF Event
    <3>2. /\ UNCHANGED <<shown, pending, delayed>>
          /\ items' = [items EXCEPT ![s] = @ \cup {e.item}] \/ items' = items
      BY <1>10, <2>1, <2>3 DEF TakeEvent
    <3>3. items' \in [Screen -> SUBSET Request]
      BY <3>1, <3>2 DEF AppOK
    <3>4. QED
      BY <3>2, <3>3 DEF AppOK
  <2>4. QED
    BY <2>2, <2>3
<1>11. ASSUME NEW i \in Request, Handle(i) PROVE UNCHANGED app
  BY <1>11 DEF Handle, Apply, Log, Tell, Read, PublishRoom, Answer
<1>12. ASSUME NEW r \in Room, Foreign(r) PROVE UNCHANGED app
  BY <1>12 DEF Foreign
<1>13. ASSUME NEW s \in Screen,
              \/ Open(s) \/ Refresh(s) \/ Serve(s) \/ FetchFails(s)
              \/ Subscribe(s) \/ Greet(s) \/ Disconnect(s)
       PROVE  UNCHANGED app
  BY <1>13 DEF Open, Refresh, Serve, FetchFails, Subscribe, Greet, Disconnect
<1>14. CASE UNCHANGED vars
  BY <1>1, <1>14 DEF vars
<1>15. QED
  BY <1>1, <1>2, <1>3, <1>5, <1>6, <1>7, <1>8, <1>9, <1>10, <1>11, <1>12, <1>13, <1>14
     DEF Next, Stream

\* Every action keeps the history in its types.
LEMMA HistoryTypes ==
  ServerOK /\ WireOK /\ FetchOK /\ AppOK /\ HistoryOK /\ [Next]_vars => HistoryOK'
<1> SUFFICES ASSUME ServerOK, WireOK, FetchOK, AppOK, HistoryOK, [Next]_vars PROVE HistoryOK'
  OBVIOUS
<1>1. CASE UNCHANGED history
  BY <1>1 DEF HistoryOK, history
<1>2. ASSUME NEW i \in Request, Apply(i) PROVE HistoryOK'
  BY <1>2 DEF Apply, HistoryOK
<1>3. ASSUME NEW i \in Request, Tell(i) PROVE HistoryOK'
  <2>1. Announced(i) \in Request
    BY <1>3, TellEvent DEF Tell
  <2>2. gap' \in [Screen -> SUBSET Request]
    BY <1>3, <2>1 DEF Tell, HistoryOK
  <2>3. QED
    BY <1>3, <2>2 DEF Tell, HistoryOK
<1>4. ASSUME NEW i \in Request, PublishRoom(i) PROVE HistoryOK'
  <2>1. job[i].room \in Room
    BY <1>4, RoomEvent DEF PublishRoom
  <2>2. doubt' \in [Screen -> SUBSET Room]
    BY <1>4, <2>1 DEF PublishRoom, HistoryOK
  <2>3. overtaken' \subseteq Request /\ missed' \subseteq Request /\ gap' = gap
    BY <1>4 DEF PublishRoom, HistoryOK
  <2>4. QED
    BY <2>2, <2>3 DEF HistoryOK
<1>5. ASSUME NEW s \in Screen, LoadRooms(s) PROVE HistoryOK'
  <2>1. PICK D \in SUBSET Room : doubt' = [doubt EXCEPT ![s] = D]
    BY <1>5 DEF LoadRooms
  <2>2. QED
    BY <1>5, <2>1 DEF LoadRooms, HistoryOK
<1>6. ASSUME NEW s \in Screen, LoadAudit(s) PROVE HistoryOK'
  <2>1. PICK G : G = IF stream[s] = "ended" THEN {} ELSE (gap[s] \cup items[s]) \ Head(got[s])
    OBVIOUS
  <2>2. G \in SUBSET Request
    BY <2>1 DEF HistoryOK, AppOK
  <2>3. gap' = [gap EXCEPT ![s] = G]
    BY <1>6, <2>1 DEF LoadAudit, HistoryOK
  <2>4. QED
    BY <1>6, <2>2, <2>3 DEF LoadAudit, HistoryOK
<1>7. ASSUME NEW s \in Screen, Subscribe(s) \/ Disconnect(s) PROVE HistoryOK'
  BY <1>7 DEF Subscribe, Disconnect, HistoryOK
<1>8. ASSUME NEW i \in Request, Refuse(i) \/ LoseAnswer(i) \/ Log(i) \/ Read(i) \/ Answer(i)
      PROVE  UNCHANGED history
  BY <1>8 DEF Refuse, LoseAnswer, Log, Read, Answer
<1>9. ASSUME NEW r \in Room, Foreign(r) \/ \E s \in Screen : Press(s, r) \/ TimeOut(s, r)
      PROVE  UNCHANGED history
  BY <1>9 DEF Foreign, Press, TimeOut
<1>10. ASSUME NEW s \in Screen, \/ Open(s) \/ Refresh(s) \/ Serve(s) \/ FetchFails(s) \/ Stream(s)
       PROVE  UNCHANGED history
  BY <1>10 DEF Open, Refresh, Serve, FetchFails, Stream, Greet, TakeGreeting, TakeEvent
<1>11. CASE UNCHANGED vars
  BY <1>1, <1>11 DEF vars
<1>12. QED
  BY <1>1, <1>2, <1>3, <1>4, <1>5, <1>6, <1>7, <1>8, <1>9, <1>10, <1>11 DEF Next, Handle

\* The types hold at the start.
LEMMA InitTypes == Init => TypeInv
<1> SUFFICES ASSUME Init PROVE TypeInv
  OBVIOUS
<1>1. FirstState \in RoomState /\ NoPayload \in RoomState
  BY DEF FirstState, RoomState, NoPayload
<1>2. NoJob \in [room: Room \cup {NoJob.room}, from: Screen \cup {Elsewhere}]
  BY DEF NoJob
<1>3. Tidy(<<>>, Script, scenario) /\ <<>> \in Seq(Step) /\ Len(<<>>) = 0
  BY DEF Tidy
<1>4. ServerOK
  BY <1>1, <1>2, <1>3 DEF Init, ServerOK
<1>5. WireOK
  BY <1>3, ScreensAssumption DEF Init, WireOK
<1>6. FetchOK /\ AppOK /\ HistoryOK
  BY DEF Init, FetchOK, AppOK, HistoryOK
<1>7. QED
  BY <1>4, <1>5, <1>6 DEF TypeInv

\* Every action keeps the types.
LEMMA StepTypes == TypeInv /\ [Next]_vars => TypeInv'
BY ServerTypes, WireTypes, FetchTypes, AppTypes, HistoryTypes DEF TypeInv

(***************************************************************************)
(* Rooms, channels, answers and marks are well-typed, and no channel holds *)
(* more than its capacity, for every number of apps and requests.          *)
(***************************************************************************)
THEOREM TypeCorrect == Spec => []TypeOK
<1>1. TypeInv => TypeOK
  <2> SUFFICES ASSUME TypeInv PROVE TypeOK
    OBVIOUS
  <2>1. ASSUME NEW s \in Screen, greeting[s] # <<>> PROVE greeting[s][1] \in [Room -> RoomState]
    BY <2>1 DEF TypeInv, WireOK, Single
  <2>2. QED
    BY <2>1 DEF TypeInv, TypeOK, ServerOK, WireOK, FetchOK, AppOK, HistoryOK
<1>2. QED
  BY <1>1, InitTypes, StepTypes, PTL DEF Spec
-----------------------------------------------------------------------------
\* The updates of r in a channel.
On(c, r) == {k \in DOMAIN c : c[k].event = "room_update" /\ c[k].room = r}

\* One more event comes after the others.
LEMMA OnAppend ==
  ASSUME NEW c \in Seq(Event), NEW e \in Event, NEW r
  PROVE  LET more == Append(c, e)
             mine == e.event = "room_update" /\ e.room = r
         IN  /\ \A k : k \in On(more, r) <=> (k \in On(c, r) \/ (k = Len(c) + 1 /\ mine))
             /\ \A k \in On(c, r) : k \in 1 .. Len(c) /\ more[k] = c[k]
             /\ more[Len(c) + 1] = e /\ Len(c) \in Nat
<1> DEFINE more == Append(c, e)
<1>1. /\ Len(c) \in Nat /\ DOMAIN c = 1 .. Len(c) /\ DOMAIN more = 1 .. Len(c) + 1
      /\ \A k \in 1 .. Len(c) : more[k] = c[k]
      /\ more[Len(c) + 1] = e
  BY AppendProperties, LenProperties
<1> HIDE DEF more
<1>2. \A k : k \in DOMAIN more <=> k \in DOMAIN c \/ k = Len(c) + 1
  BY <1>1
<1>3. QED
  BY <1>1, <1>2 DEF On, more

\* The first event goes, and the others move up.
LEMMA OnTail ==
  ASSUME NEW c \in Seq(Event), c # <<>>, NEW r
  PROVE  LET rest == Tail(c)
             mine == Head(c).event = "room_update" /\ Head(c).room = r
         IN  /\ \A k \in On(rest, r) : k \in Nat /\ k + 1 \in On(c, r) /\ rest[k] = c[k + 1]
             /\ \A k \in On(c, r) : k \in Nat \ {0} /\ (k # 1 => k - 1 \in On(rest, r))
             /\ 1 \in On(c, r) <=> mine
             /\ c[1] = Head(c) /\ Head(c) \in Event
<1> DEFINE rest == Tail(c)
<1>1. /\ Len(c) \in Nat \ {0} /\ DOMAIN c = 1 .. Len(c) /\ Head(c) = c[1] /\ Head(c) \in Event
      /\ DOMAIN rest = 1 .. Len(c) - 1
      /\ \A k \in DOMAIN rest : rest[k] = c[k + 1]
  BY HeadTailProperties, LenProperties, EmptySeq
<1> HIDE DEF rest
<1>2. /\ \A k \in DOMAIN rest : k \in Nat /\ k + 1 \in DOMAIN c
      /\ \A k \in DOMAIN c : k \in Nat \ {0} /\ (k # 1 => k - 1 \in DOMAIN rest /\ rest[k - 1] = c[k])
      /\ 1 \in DOMAIN c
  BY <1>1
<1>3. QED
  BY <1>1, <1>2 DEF On, rest

-----------------------------------------------------------------------------
\* A pending mark is of a request that was sent from this app for this room, and is owed.
MarkKnown(s, r) ==
  LET i == pending[s][r]
  IN  i # 0 => i <= sent /\ (todo[i] # <<>> => job[i] = [room |-> r, from |-> s])

OwedAt(s, r) ==
  (pending[s][r] # 0 /\ Updating /\ stream[s] # "ended" /\ pending[s][r] \notin missed)
    => Has(pending[s][r], "publish") \/ Updates(s, r) # {}

OwedInv == \A s \in Screen, r \in Room : MarkKnown(s, r) /\ OwedAt(s, r)

\* What has to stay, for a mark that stays, so that it is owed.
LEMMA OwedStands ==
  ASSUME TypeInv, UNCHANGED scenario, NEW s \in Screen, NEW r \in Room,
         MarkKnown(s, r), OwedAt(s, r),
         NEW i \in Request, pending[s][r] = i, pending'[s][r] = i,
         sent' \in Nat, sent <= sent',
         todo'[i] # <<>> => todo[i] # <<>> /\ job'[i] = job[i],
         Has(i, "publish") => "publish" \in Range(todo'[i]),
         stream[s] = "ended" => stream'[s] = "ended",
         missed \subseteq missed',
         stream'[s] # "ended" => (Updates(s, r) # {} => Updates(s, r)' # {})
  PROVE  MarkKnown(s, r)' /\ OwedAt(s, r)'
<1>1. i # 0 /\ i \in Nat /\ sent \in Nat
  BY ScreensAssumption DEF TypeInv, ServerOK
<1>2. MarkKnown(s, r)'
  BY <1>1 DEF MarkKnown
<1>3. Updating' <=> Updating
  BY DEF Updating, Script
<1>4. OwedAt(s, r)'
  BY <1>1, <1>3 DEF OwedAt, Has
<1>5. QED
  BY <1>2, <1>4

\* A mark that was cleared is not owed.
LEMMA NotOwed ==
  ASSUME NEW s \in Screen, NEW r \in Room, pending'[s][r] = 0
  PROVE  MarkKnown(s, r)' /\ OwedAt(s, r)'
BY DEF MarkKnown, OwedAt

\* What Publish does to the updates of a channel: none goes, and the event may be one more.
LEMMA PublishKeepsUpdates ==
  ASSUME WireOK, NEW e \in Event, Publish(e), NEW s \in Screen, NEW r \in Room
  PROVE  /\ Updates(s, r) # {} => Updates(s, r)' # {}
         /\ (Subscribed(s) /\ ~Full(s) /\ e.event = "room_update" /\ e.room = r)
              => Updates(s, r)' # {}
<1>1. Updates(s, r) = On(channel[s], r) /\ Updates(s, r)' = On(channel'[s], r)
  BY DEF Updates, On
<1>2. channel[s] \in Seq(Event)
  BY DEF WireOK
<1>3. channel'[s] = IF Subscribed(s) /\ ~Full(s) THEN Append(channel[s], e) ELSE channel[s]
  BY PublishIs
<1>4. \A k : k \in On(Append(channel[s], e), r) <=>
               (k \in On(channel[s], r)
                 \/ (k = Len(channel[s]) + 1 /\ e.event = "room_update" /\ e.room = r))
  BY <1>2, OnAppend
<1>5. QED
  BY <1>1, <1>3, <1>4

\* A step of a handler other than its publication leaves every mark owed.
LEMMA OwedAfterStep ==
  ASSUME TypeInv, OwedInv, UNCHANGED <<scenario, sent, stream, pending, missed>>,
         NEW i \in Request, NEW st, st # "publish", AtStep(i, st), Advance(i),
         \A s \in Screen, r \in Room : Updates(s, r) # {} => Updates(s, r)' # {}
  PROVE  OwedInv'
<1> SUFFICES ASSUME NEW s \in Screen, NEW r \in Room PROVE MarkKnown(s, r)' /\ OwedAt(s, r)'
  BY DEF OwedInv
<1>1. Did(i, st)
  BY Advances DEF TypeInv
<1>2. CASE pending[s][r] = 0
  BY <1>2, NotOwed
<1>3. CASE pending[s][r] # 0
  <2>1. PICK k \in Request : pending[s][r] = k
    BY <1>3 DEF TypeInv, AppOK
  <2>2. Has(k, "publish") => "publish" \in Range(todo'[k])
    BY <1>1 DEF Did, Step
  <2>3. todo'[k] # <<>> => todo[k] # <<>> /\ job'[k] = job[k]
    BY <1>1 DEF Did
  <2>4. sent' \in Nat /\ sent <= sent' /\ pending'[s][r] = k
    BY <2>1 DEF TypeInv, ServerOK
  <2>5. MarkKnown(s, r) /\ OwedAt(s, r)
    BY DEF OwedInv
  <2>6. QED
    BY <2>1, <2>2, <2>3, <2>4, <2>5, OwedStands
<1>4. QED
  BY <1>2, <1>3

\* The publication of a room leaves every mark owed: that of its own request has its
\* update on the way, or it is missed.
LEMMA OwedAfterPublish ==
  ASSUME TypeInv, OwedInv, NEW i \in Request, PublishRoom(i) PROVE OwedInv'
<1> SUFFICES ASSUME NEW s \in Screen, NEW r \in Room PROVE MarkKnown(s, r)' /\ OwedAt(s, r)'
  BY DEF OwedInv
<1> DEFINE e == [event |-> "room_update", room |-> job[i].room, state |-> read[i]]
<1>1. /\ UNCHANGED <<scenario, sent, stream, pending>> /\ AtStep(i, "publish") /\ Advance(i)
      /\ Publish(e)
      /\ missed' = IF job[i].from \in Screen /\ (~Subscribed(job[i].from) \/ Full(job[i].from))
                     THEN missed \cup {i} ELSE missed
  BY DEF PublishRoom, app
<1>2. Did(i, "publish")
  BY <1>1, Advances DEF TypeInv
<1>3. e \in Event /\ e.event = "room_update" /\ e.room = job[i].room
  BY <1>1, RoomEvent DEF TypeInv
<1> HIDE DEF e
<1>4. /\ Updates(s, r) # {} => Updates(s, r)' # {}
      /\ (Subscribed(s) /\ ~Full(s) /\ job[i].room = r) => Updates(s, r)' # {}
  BY <1>1, <1>3, PublishKeepsUpdates DEF TypeInv
<1>5. MarkKnown(s, r) /\ OwedAt(s, r)
  BY DEF OwedInv
<1>6. CASE pending[s][r] = 0
  BY <1>1, <1>6, NotOwed
<1>7. CASE pending[s][r] # 0
  <2>1. PICK k \in Request : pending[s][r] = k
    BY <1>7 DEF TypeInv, AppOK
  <2>2. todo'[k] # <<>> => todo[k] # <<>> /\ job'[k] = job[k]
    BY <1>2 DEF Did
  <2>3. sent' \in Nat /\ sent <= sent' /\ pending'[s][r] = k
    BY <1>1, <2>1 DEF TypeInv, ServerOK
  <2>4. CASE k # i
    <3>1. Has(k, "publish") => "publish" \in Range(todo'[k])
      BY <1>2, <2>4 DEF Did, Step
    <3>2. missed \subseteq missed' /\ UNCHANGED <<scenario, stream>>
      BY <1>1
    <3>3. QED
      BY <1>4, <1>5, <2>1, <2>2, <2>3, <3>1, <3>2, OwedStands
  <2>5. CASE k = i
    <3>1. job[i] = [room |-> r, from |-> s]
      BY <1>1, <1>5, <1>7, <2>1, <2>5 DEF MarkKnown, AtStep
    <3>2. job[i].room = r /\ job[i].from = s
      BY <3>1
    <3>3. Updates(s, r)' # {} \/ k \in missed'
      BY <1>1, <1>4, <2>5, <3>2
    <3>4. OwedAt(s, r)'
      BY <2>3, <3>3 DEF OwedAt
    <3>5. MarkKnown(s, r)'
      BY <1>1, <1>5, <1>7, <2>1, <2>2, <2>3 DEF MarkKnown
    <3>6. QED
      BY <3>4, <3>5
  <2>6. QED
    BY <2>4, <2>5
<1>8. QED
  BY <1>6, <1>7

\* An error takes away the mark of its request; the other marks are owed as before.
LEMMA OwedAfterError ==
  ASSUME TypeInv, OwedInv, UNCHANGED <<scenario, sent, stream, channel, missed>>,
         NEW i \in Request, todo[i] # <<>>, ClearAfterError(i),
         \A k \in Request \ {i} : todo'[k] = todo[k] /\ job'[k] = job[k]
  PROVE  OwedInv'
<1> SUFFICES ASSUME NEW s \in Screen, NEW r \in Room PROVE MarkKnown(s, r)' /\ OwedAt(s, r)'
  BY DEF OwedInv
<1>1. MarkKnown(s, r) /\ OwedAt(s, r)
  BY DEF OwedInv
<1>2. /\ pending'[s][r] \in {0, pending[s][r]}
      /\ (job[i].from = s /\ job[i].room = r) => pending'[s][r] = 0
  <2>1. pending \in [Screen -> [Room -> Request \cup {0}]]
    BY DEF TypeInv, AppOK
  <2>2. CASE job[i].from \in Screen
    <3>1. pending' = [pending EXCEPT ![job[i].from][job[i].room] = 0]
      BY <2>2 DEF ClearAfterError, Cleared
    <3>2. QED
      BY <2>1, <2>2, <3>1
  <2>3. CASE job[i].from \notin Screen
    BY <2>3 DEF ClearAfterError
  <2>4. QED
    BY <2>2, <2>3
<1>3. CASE pending'[s][r] = 0
  BY <1>3, NotOwed
<1>4. CASE pending'[s][r] # 0
  <2>1. PICK k \in Request : pending[s][r] = k /\ pending'[s][r] = k
    BY <1>2, <1>4 DEF TypeInv, AppOK
  <2>2. k # i
    BY <1>1, <1>2, <1>4, <2>1 DEF MarkKnown
  <2>3. todo'[k] = todo[k] /\ job'[k] = job[k]
    BY <2>2
  <2>4. sent' \in Nat /\ sent <= sent'
    BY DEF TypeInv, ServerOK
  <2>5. Updates(s, r)' = Updates(s, r)
    BY DEF Updates
  <2>6. Has(k, "publish") => "publish" \in Range(todo'[k])
    BY <2>3 DEF Has
  <2>7. QED
    BY <1>1, <2>1, <2>3, <2>4, <2>5, <2>6, OwedStands
<1>5. QED
  BY <1>3, <1>4

\* A new request leaves the other marks owed.
LEMMA OwedAfterArrival ==
  ASSUME TypeInv, OwedInv,
         UNCHANGED <<scenario, kind, rooms, audit, read, stream, channel, missed>>,
         NEW x \in Room, NEW q \in Screen \cup {Elsewhere}, Arrive(x, q),
         NEW s \in Screen, NEW r \in Room, pending'[s][r] = pending[s][r]
  PROVE  MarkKnown(s, r)' /\ OwedAt(s, r)'
<1>1. /\ sent' = sent + 1 /\ \A k \in Request \ {sent'} : todo'[k] = todo[k] /\ job'[k] = job[k]
  BY Arrives DEF TypeInv
<1>2. MarkKnown(s, r) /\ OwedAt(s, r) /\ sent \in Nat
  BY DEF OwedInv, TypeInv, ServerOK
<1>3. CASE pending[s][r] = 0
  BY <1>3, NotOwed
<1>4. CASE pending[s][r] # 0
  <2>1. PICK k \in Request : pending[s][r] = k
    BY <1>4 DEF TypeInv, AppOK
  <2>2. k <= sent
    BY <1>2, <1>4, <2>1 DEF MarkKnown
  <2>3. k # sent' /\ sent' \in Nat /\ sent <= sent'
    BY <1>1, <1>2, <2>2, ScreensAssumption
  <2>4. todo'[k] = todo[k] /\ job'[k] = job[k]
    BY <1>1, <2>3
  <2>5. Updates(s, r)' = Updates(s, r)
    BY DEF Updates
  <2>6. Has(k, "publish") => "publish" \in Range(todo'[k])
    BY <2>4 DEF Has
  <2>7. QED
    BY <1>2, <2>1, <2>3, <2>4, <2>5, <2>6, OwedStands
<1>5. QED
  BY <1>3, <1>4

\* A command that is pressed is owed from the start.
LEMMA OwedAfterPress ==
  ASSUME TypeInv, OwedInv, NEW q \in Screen, NEW x \in Room, Press(q, x) PROVE OwedInv'
<1> SUFFICES ASSUME NEW s \in Screen, NEW r \in Room PROVE MarkKnown(s, r)' /\ OwedAt(s, r)'
  BY DEF OwedInv
<1>1. /\ UNCHANGED <<scenario, kind, rooms, audit, read, stream, channel, missed>>
      /\ Arrive(x, q) /\ pending' = [pending EXCEPT ![q][x] = sent']
  BY DEF Press, wire, history
<1>2. CASE s = q /\ r = x
  <2>1. /\ sent' \in Request /\ todo'[sent'] = Script /\ job'[sent'] = [room |-> r, from |-> s]
        /\ sent' = sent + 1 /\ sent \in Nat
    BY <1>1, <1>2, Arrives DEF TypeInv, ServerOK
  <2>2. pending'[s][r] = sent'
    BY <1>1, <1>2 DEF TypeInv, AppOK
  <2>3. MarkKnown(s, r)'
    BY <2>1, <2>2 DEF MarkKnown
  <2>4. Updating' => "publish" \in Range(todo'[sent'])
    BY <1>1, <2>1 DEF Updating, Script
  <2>5. OwedAt(s, r)'
    BY <2>2, <2>4 DEF OwedAt, Has
  <2>6. QED
    BY <2>3, <2>5
<1>3. CASE ~(s = q /\ r = x)
  <2>1. pending'[s][r] = pending[s][r]
    BY <1>1, <1>3 DEF TypeInv, AppOK
  <2>2. QED
    BY <1>1, <2>1, OwedAfterArrival
<1>4. QED
  BY <1>2, <1>3

\* What happens to the streams leaves the marks owed: only an ended stream loses events.
LEMMA OwedAfterWire ==
  ASSUME TypeInv, OwedInv, UNCHANGED <<scenario, todo, job, sent, pending, missed>>,
         \A s \in Screen : /\ stream[s] = "ended" => stream'[s] = "ended"
                           /\ stream'[s] # "ended" => channel'[s] = channel[s]
  PROVE  OwedInv'
<1> SUFFICES ASSUME NEW s \in Screen, NEW r \in Room PROVE MarkKnown(s, r)' /\ OwedAt(s, r)'
  BY DEF OwedInv
<1>1. MarkKnown(s, r) /\ OwedAt(s, r)
  BY DEF OwedInv
<1>2. CASE pending[s][r] = 0
  BY <1>2, NotOwed
<1>3. CASE pending[s][r] # 0
  <2>1. PICK k \in Request : pending[s][r] = k /\ pending'[s][r] = k
    BY <1>3 DEF TypeInv, AppOK
  <2>2. sent' \in Nat /\ sent <= sent'
    BY DEF TypeInv, ServerOK
  <2>3. stream'[s] # "ended" => Updates(s, r)' = Updates(s, r)
    BY DEF Updates
  <2>4. Has(k, "publish") => "publish" \in Range(todo'[k])
    BY DEF Has
  <2>5. QED
    BY <1>1, <2>1, <2>2, <2>3, <2>4, OwedStands
<1>4. QED
  BY <1>2, <1>3

\* An event that is handled takes away the mark of its room, and no other update goes.
LEMMA OwedAfterEvent ==
  ASSUME TypeInv, OwedInv, NEW q \in Screen, TakeEvent(q) PROVE OwedInv'
<1> SUFFICES ASSUME NEW s \in Screen, NEW r \in Room PROVE MarkKnown(s, r)' /\ OwedAt(s, r)'
  BY DEF OwedInv
<1>1. /\ UNCHANGED <<scenario, todo, job, sent, missed, stream>>
      /\ channel[q] # <<>> /\ channel[q] \in Seq(Event)
      /\ channel' = [channel EXCEPT ![q] = Tail(channel[q])]
  BY DEF TakeEvent, server, history, TypeInv, WireOK
<1>2. MarkKnown(s, r) /\ OwedAt(s, r)
  BY DEF OwedInv
<1>3. /\ pending'[s][r] \in {0, pending[s][r]}
      /\ (s = q /\ Head(channel[q]).event = "room_update" /\ Head(channel[q]).room = r)
           => pending'[s][r] = 0
  BY DEF TakeEvent, Cleared, TypeInv, AppOK
<1>4. CASE pending'[s][r] = 0
  BY <1>4, NotOwed
<1>5. CASE pending'[s][r] # 0
  <2>1. PICK k \in Request : pending[s][r] = k /\ pending'[s][r] = k
    BY <1>3, <1>5 DEF TypeInv, AppOK
  <2>2. Updates(s, r) # {} => Updates(s, r)' # {}
    <3>1. Updates(s, r) = On(channel[s], r) /\ Updates(s, r)' = On(channel'[s], r)
      BY DEF Updates, On
    <3>2. CASE s # q
      BY <1>1, <3>1, <3>2 DEF TypeInv, WireOK
    <3>3. CASE s = q
      <4>1. channel'[s] = Tail(channel[s])
        BY <1>1, <3>3 DEF TypeInv, WireOK
      <4>2. 1 \notin On(channel[s], r)
        BY <1>1, <1>3, <1>5, <3>3, OnTail
      <4>3. \A j \in On(channel[s], r) : j # 1 => j - 1 \in On(Tail(channel[s]), r)
        BY <1>1, <3>3, OnTail
      <4>4. QED
        BY <3>1, <4>1, <4>2, <4>3
    <3>4. QED
      BY <3>2, <3>3
  <2>3. sent' \in Nat /\ sent <= sent'
    BY <1>1 DEF TypeInv, ServerOK
  <2>4. Has(k, "publish") => "publish" \in Range(todo'[k])
    BY <1>1 DEF Has
  <2>5. QED
    BY <1>1, <1>2, <2>1, <2>2, <2>3, <2>4, OwedStands
<1>6. QED
  BY <1>4, <1>5

\* Every action leaves the marks owed.
LEMMA StepOwed == TypeInv /\ OwedInv /\ [Next]_vars => OwedInv'
<1> SUFFICES ASSUME TypeInv, OwedInv, [Next]_vars PROVE OwedInv'
  OBVIOUS
<1>1. ASSUME NEW i \in Request, Apply(i) \/ Log(i) \/ Read(i) \/ Answer(i) PROVE OwedInv'
  <2>1. UNCHANGED <<scenario, sent, stream, channel, pending, missed>> /\ Advance(i)
    BY <1>1 DEF Apply, Log, Read, Answer, wire, app, history
  <2>2. AtStep(i, "apply") \/ AtStep(i, "log") \/ AtStep(i, "read") \/ AtStep(i, "answer")
    BY <1>1 DEF Apply, Log, Read, Answer
  <2>3. \A s \in Screen, r \in Room : Updates(s, r)' = Updates(s, r)
    BY <2>1 DEF Updates
  <2>4. QED
    BY <2>1, <2>2, <2>3, OwedAfterStep
<1>2. ASSUME NEW i \in Request, Tell(i) PROVE OwedInv'
  <2>1. /\ UNCHANGED <<scenario, sent, stream, pending, missed>> /\ Advance(i) /\ AtStep(i, "tell")
        /\ Publish([event |-> "audit_event", item |-> Announced(i)])
    BY <1>2 DEF Tell, app
  <2>2. \A s \in Screen, r \in Room : Updates(s, r) # {} => Updates(s, r)' # {}
    BY <2>1, TellEvent, PublishKeepsUpdates DEF TypeInv
  <2>3. QED
    BY <2>1, <2>2, OwedAfterStep
<1>3. ASSUME NEW i \in Request, PublishRoom(i) PROVE OwedInv'
  BY <1>3, OwedAfterPublish
<1>4. ASSUME NEW i \in Request, Refuse(i) PROVE OwedInv'
  BY <1>4, OwedAfterError DEF Refuse, Forget, AtStep, wire, history, TypeInv, ServerOK
<1>5. ASSUME NEW i \in Request, LoseAnswer(i) PROVE OwedInv'
  <2>1. todo[i] # <<>>
    BY <1>5, InRange DEF LoseAnswer, Has
  <2>2. QED
    BY <1>5, <2>1, OwedAfterError DEF LoseAnswer, wire, history, TypeInv, ServerOK
<1>6. ASSUME NEW r \in Room, Foreign(r) PROVE OwedInv'
  BY <1>6, OwedAfterArrival DEF Foreign, wire, history, app, OwedInv
<1>7. ASSUME NEW s \in Screen, NEW r \in Room, Press(s, r) PROVE OwedInv'
  BY <1>7, OwedAfterPress
<1>8. ASSUME NEW s \in Screen, TakeEvent(s) PROVE OwedInv'
  BY <1>8, OwedAfterEvent
<1>9. ASSUME NEW s \in Screen,
             \/ \E r \in Room : TimeOut(s, r)
             \/ Open(s) \/ Refresh(s) \/ Serve(s) \/ LoadRooms(s) \/ LoadAudit(s) \/ FetchFails(s)
             \/ Subscribe(s) \/ Greet(s) \/ TakeGreeting(s) \/ Disconnect(s)
      PROVE  OwedInv'
  <2>1. UNCHANGED <<scenario, todo, job, sent, pending, missed>>
    BY <1>9 DEF server, app, history, TimeOut, Open, Refresh, Serve, LoadRooms, LoadAudit,
                FetchFails, Subscribe, Greet, TakeGreeting, Disconnect
  <2>2. ASSUME NEW q \in Screen
        PROVE  /\ stream[q] = "ended" => stream'[q] = "ended"
               /\ stream'[q] # "ended" => channel'[q] = channel[q]
    <3>1. stream \in [Screen -> {"none", "connecting", "subscribed", "live", "ended"}]
      BY DEF TypeInv, WireOK
    <3>2. channel \in [Screen -> Seq(Event)]
      BY DEF TypeInv, WireOK
    <3>3. CASE Subscribe(s) \/ Greet(s) \/ Disconnect(s)
      BY <3>1, <3>2, <3>3 DEF Subscribe, Greet, Disconnect
    <3>4. CASE ~(Subscribe(s) \/ Greet(s) \/ Disconnect(s))
      BY <1>9, <3>1, <3>2, <3>4 DEF wire, TimeOut, Open, Refresh, Serve, LoadRooms, LoadAudit,
                                    FetchFails, EndRefresh, TakeGreeting
    <3>5. QED
      BY <3>3, <3>4
  <2>3. QED
    BY <2>1, <2>2, OwedAfterWire
<1>10. CASE UNCHANGED vars
  BY <1>10, OwedAfterWire DEF vars, server, wire, app, history
<1>11. QED
  BY <1>1, <1>2, <1>3, <1>4, <1>5, <1>6, <1>7, <1>8, <1>9, <1>10 DEF Next, Handle, Stream

(***************************************************************************)
(* A room marked "Sending..." or "Delayed" has its command still to fail   *)
(* or to be published, or an update of the room on its way, unless the     *)
(* update passed the app by; for every number of apps, rooms and requests, *)
(* and however the handlers, errors and events cross.                      *)
(***************************************************************************)
THEOREM PendingOwed == Spec => []PendingIsOwed
<1>1. Init => OwedInv
  BY DEF Init, OwedInv, MarkKnown, OwedAt
<1>2. OwedInv => PendingIsOwed
  BY DEF OwedInv, OwedAt, PendingIsOwed
<1>3. QED
  BY <1>1, <1>2, InitTypes, StepTypes, StepOwed, PTL DEF Spec
-----------------------------------------------------------------------------
\* The entry of request i is announced in a channel.
Announces(c, i) == \E k \in DOMAIN c : c[k].event = "audit_event" /\ c[k].item = i

\* An announcement stays when an event comes after it.
LEMMA AnnouncesAppend ==
  ASSUME NEW c \in Seq(Event), NEW e \in Event, NEW i
  PROVE  /\ Announces(c, i) => Announces(Append(c, e), i)
         /\ (e.event = "audit_event" /\ e.item = i) => Announces(Append(c, e), i)
<1> DEFINE more == Append(c, e)
<1>1. /\ Len(c) \in Nat /\ DOMAIN c = 1 .. Len(c) /\ DOMAIN more = 1 .. Len(c) + 1
      /\ \A k \in 1 .. Len(c) : more[k] = c[k]
      /\ more[Len(c) + 1] = e
  BY AppendProperties, LenProperties
<1> HIDE DEF more
<1>2. /\ \A k \in DOMAIN c : k \in DOMAIN more /\ more[k] = c[k]
      /\ Len(c) + 1 \in DOMAIN more
  BY <1>1
<1>3. QED
  BY <1>1, <1>2 DEF Announces, more

\* An announcement stays until it is the first event and goes.
LEMMA AnnouncesTail ==
  ASSUME NEW c \in Seq(Event), c # <<>>, NEW i, Announces(c, i)
  PROVE  \/ Head(c).event = "audit_event" /\ Head(c).item = i
         \/ Announces(Tail(c), i)
<1> DEFINE rest == Tail(c)
<1>1. /\ Len(c) \in Nat \ {0} /\ DOMAIN c = 1 .. Len(c) /\ Head(c) = c[1]
      /\ DOMAIN rest = 1 .. Len(c) - 1
      /\ \A k \in DOMAIN rest : rest[k] = c[k + 1]
  BY HeadTailProperties, LenProperties, EmptySeq
<1> HIDE DEF rest
<1>2. \A k \in DOMAIN c : k # 1 => k - 1 \in DOMAIN rest /\ rest[k - 1] = c[k]
  BY <1>1
<1>3. QED
  BY <1>1, <1>2 DEF Announces, rest

\* What Publish does to the announcements of a channel.
LEMMA PublishKeepsAnnounced ==
  ASSUME WireOK, NEW e \in Event, Publish(e), NEW s \in Screen, NEW i
  PROVE  /\ Announces(channel[s], i) => Announces(channel'[s], i)
         /\ (Subscribed(s) /\ ~Full(s) /\ e.event = "audit_event" /\ e.item = i)
              => Announces(channel'[s], i)
<1>1. channel[s] \in Seq(Event)
  BY DEF WireOK
<1>2. channel'[s] = IF Subscribed(s) /\ ~Full(s) THEN Append(channel[s], e) ELSE channel[s]
  BY PublishIs
<1>3. QED
  BY <1>1, <1>2, AnnouncesAppend

\* The dashboard s has the entry of request i, or has it coming, or it is in the gap.
ListedAt(s, i) ==
  (kind[s] = "dashboard" /\ stream[s] # "ended" /\ "tell" \in Range(Script)
     /\ i \in Range(audit) /\ i \notin gap[s])
    => Has(i, "tell") \/ i \in items[s] \/ Announces(channel[s], i)

\* Entries are those of requests that were sent and have changed their room.
EntriesKnown == \A i \in Range(audit) : i <= sent /\ ~Has(i, "apply")

ListInv == EntriesKnown /\ \A s \in Screen, i \in Request : ListedAt(s, i)

\* What has to stay so that an entry stays listed.
LEMMA ListedStands ==
  ASSUME UNCHANGED <<scenario, kind>>, NEW s \in Screen, NEW i \in Request, ListedAt(s, i),
         stream[s] = "ended" => stream'[s] = "ended",
         i \in Range(audit') => i \in Range(audit),
         Has(i, "tell") => Has(i, "tell")',
         (kind[s] = "dashboard" /\ stream'[s] # "ended")
           => /\ gap[s] \subseteq gap'[s] /\ items[s] \subseteq items'[s]
              /\ Announces(channel[s], i) => Announces(channel'[s], i)
  PROVE  ListedAt(s, i)'
<1>1. Script' = Script
  BY DEF Script
<1>2. QED
  BY <1>1 DEF ListedAt

\* A handler's step that is neither an entry nor its announcement leaves the entries listed.
LEMMA ListedAfterStep ==
  ASSUME TypeInv, ListInv, UNCHANGED <<scenario, kind, sent, audit, stream, items, gap>>,
         NEW i \in Request, NEW st, st # "tell", AtStep(i, st), Advance(i),
         \A s \in Screen, k \in Request : Announces(channel[s], k) => Announces(channel'[s], k)
  PROVE  ListInv'
<1>1. Did(i, st)
  BY Advances DEF TypeInv
<1>2. \A k \in Request : /\ Has(k, "tell") => Has(k, "tell")'
                         /\ Has(k, "apply")' => Has(k, "apply")
  BY <1>1 DEF Did, Has, Step
<1>3. EntriesKnown'
  <2>1. Range(audit) \subseteq Request
    BY LenProperties, InRange DEF TypeInv, ServerOK
  <2>2. QED
    BY <1>2, <2>1 DEF ListInv, EntriesKnown
<1>4. ASSUME NEW s \in Screen, NEW k \in Request PROVE ListedAt(s, k)'
  <2>1. ListedAt(s, k)
    BY DEF ListInv
  <2>2. QED
    BY <1>2, <2>1, ListedStands
<1>5. QED
  BY <1>3, <1>4 DEF ListInv

\* A new entry is that of the handler, which has yet to announce it where it is announced at all.
LEMMA ListedAfterEntry ==
  ASSUME TypeInv, ListInv, UNCHANGED <<scenario, kind, sent, stream, items, gap, channel>>,
         NEW i \in Request, NEW st \in {"apply", "log"}, AtStep(i, st), Advance(i),
         audit' = <<i>> \o audit
  PROVE  ListInv'
<1>1. Did(i, st) /\ i <= sent
  BY Advances DEF TypeInv
<1>2. /\ todo[i] # <<>> /\ Head(todo[i]) = st /\ Tidy(todo[i], Script, scenario)
      /\ audit \in Seq(Request)
  BY DEF AtStep, TypeInv, ServerOK
<1>3. Range(audit') = Range(audit) \cup {i} /\ Range(audit) \subseteq Request
  <2>1. \A y : y \in Range(audit) <=> \E k \in DOMAIN audit : audit[k] = y
    BY InRange
  <2>2. \A y : y \in Range(audit') <=> \E k \in DOMAIN audit' : audit'[k] = y
    BY InRange
  <2>3. /\ Len(audit) \in Nat /\ DOMAIN audit = 1 .. Len(audit) /\ DOMAIN audit' = 1 .. Len(audit) + 1
        /\ audit'[1] = i /\ \A k \in DOMAIN audit : audit'[k + 1] = audit[k]
        /\ \A k \in DOMAIN audit : audit[k] \in Request
    <3>1. <<i>> \in Seq(Request) /\ Len(<<i>>) = 1 /\ <<i>>[1] = i
      OBVIOUS
    <3>2. QED
      BY <1>2, <3>1, ConcatProperties, LenProperties
  <2>4. /\ 1 \in DOMAIN audit'
        /\ \A k \in DOMAIN audit : k + 1 \in DOMAIN audit'
        /\ \A k \in DOMAIN audit' : k # 1 => k - 1 \in DOMAIN audit /\ audit'[k] = audit[k - 1]
    BY <2>3
  <2>5. QED
    BY <2>1, <2>2, <2>3, <2>4
<1>4. "tell" \in Range(Script) => Has(i, "tell")
  <2>1. Has(i, st)
    BY <1>2, TailIsTidy DEF Has
  <2>2. CASE st = "apply"
    BY <1>2, <2>1, <2>2, StepsInOrder DEF Has
  <2>3. CASE st = "log"
    BY <1>2, <2>1, <2>3, StepsInOrder DEF Has
  <2>4. QED
    BY <2>2, <2>3
<1>5. /\ \A k \in Request : /\ Has(k, "tell") => Has(k, "tell")'
                            /\ Has(k, "apply")' => Has(k, "apply")
      /\ ~Has(i, "apply")'
  <2>1. Has(i, "apply") <=> st = "apply"
    BY <1>2, StepsInOrder DEF Has
  <2>2. QED
    BY <1>1, <2>1 DEF Did, Has, Step
<1>6. EntriesKnown'
  BY <1>1, <1>3, <1>5 DEF ListInv, EntriesKnown
<1>7. ASSUME NEW s \in Screen, NEW k \in Request PROVE ListedAt(s, k)'
  <2>1. ListedAt(s, k)
    BY DEF ListInv
  <2>2. CASE k = i
    <3>1. Script' = Script
      BY DEF Script
    <3>2. QED
      BY <1>4, <1>5, <2>2, <3>1 DEF ListedAt
  <2>3. CASE k # i
    BY <1>3, <1>5, <2>1, <2>3, ListedStands
  <2>4. QED
    BY <2>2, <2>3
<1>8. QED
  BY <1>6, <1>7 DEF ListInv

\* An announcement reaches a dashboard, or the entry is in its gap from then on.
LEMMA ListedAfterTell ==
  ASSUME TypeInv, ListInv, NEW i \in Request, Tell(i) PROVE ListInv'
<1> DEFINE e == [event |-> "audit_event", item |-> Announced(i)]
<1>1. /\ UNCHANGED <<scenario, kind, sent, audit, stream, items>> /\ AtStep(i, "tell") /\ Advance(i)
      /\ Publish(e)
  BY DEF Tell, app
<1>2. e \in Event /\ e.event = "audit_event" /\ e.item = Announced(i)
  BY <1>1, TellEvent DEF TypeInv
<1> HIDE DEF e
<1>3. Did(i, "tell")
  BY <1>1, Advances DEF TypeInv
<1>4. \A k \in Request : /\ k # i => (Has(k, "tell") => Has(k, "tell")')
                         /\ Has(k, "apply")' => Has(k, "apply")
  BY <1>3 DEF Did, Has, Step
<1>5. ASSUME NEW s \in Screen, kind[s] = "dashboard", stream[s] # "ended"
      PROVE  /\ gap[s] \subseteq gap'[s]
             /\ ~(Subscribed(s) /\ ~Full(s)) => i \in gap'[s]
             /\ (Subscribed(s) /\ ~Full(s)) => i \in gap'[s] \/ i = Announced(i)
  <2>1. gap'[s] = gap[s] \cup (IF Subscribed(s) /\ ~Full(s)
                                 THEN IF scenario = "backend" THEN {} ELSE {i} \ {Announced(i)}
                                 ELSE {i})
    BY <1>5 DEF Tell
  <2>2. scenario = "backend" => Announced(i) = i
    BY DEF Announced
  <2>3. QED
    BY <2>1, <2>2
<1>6. EntriesKnown'
  <2>1. Range(audit) \subseteq Request
    BY LenProperties, InRange DEF TypeInv, ServerOK
  <2>2. QED
    BY <1>1, <1>4, <2>1 DEF ListInv, EntriesKnown
<1>7. ASSUME NEW s \in Screen, NEW k \in Request PROVE ListedAt(s, k)'
  <2>1. ListedAt(s, k)
    BY DEF ListInv
  <2>2. /\ Announces(channel[s], k) => Announces(channel'[s], k)
        /\ (Subscribed(s) /\ ~Full(s) /\ k = Announced(i)) => Announces(channel'[s], k)
    BY <1>1, <1>2, PublishKeepsAnnounced DEF TypeInv
  <2>3. CASE k = i
    BY <1>1, <1>5, <2>2, <2>3 DEF ListedAt
  <2>4. CASE k # i
    BY <1>1, <1>4, <1>5, <2>1, <2>2, <2>4, ListedStands
  <2>5. QED
    BY <2>3, <2>4
<1>8. QED
  BY <1>6, <1>7 DEF ListInv

\* A request that fails has no entry.
LEMMA ListedAfterRefusal ==
  ASSUME TypeInv, ListInv, NEW i \in Request, Refuse(i) PROVE ListInv'
<1>1. /\ UNCHANGED <<scenario, kind, sent, audit, stream, channel, items, gap>>
      /\ todo' = [todo EXCEPT ![i] = <<>>] /\ AtStep(i, "apply")
  BY DEF Refuse, wire, history
<1>2. todo'[i] = <<>> /\ \A k \in Request \ {i} : todo'[k] = todo[k]
  BY <1>1 DEF TypeInv, ServerOK
<1>3. i \notin Range(audit)
  <2>1. todo[i] # <<>> /\ Head(todo[i]) = "apply" /\ Tidy(todo[i], Script, scenario)
    BY <1>1 DEF AtStep, TypeInv, ServerOK
  <2>2. Has(i, "apply")
    BY <2>1, StepsInOrder DEF Has
  <2>3. QED
    BY <2>2 DEF ListInv, EntriesKnown
<1>4. EntriesKnown'
  <2>1. Range(audit) \subseteq Request
    BY LenProperties, InRange DEF TypeInv, ServerOK
  <2>2. QED
    BY <1>1, <1>2, <1>3, <2>1 DEF ListInv, EntriesKnown, Has
<1>5. ASSUME NEW s \in Screen, NEW k \in Request PROVE ListedAt(s, k)'
  <2>1. CASE k = i
    BY <1>1, <1>3, <2>1 DEF ListedAt
  <2>2. CASE k # i
    <3>1. ListedAt(s, k) /\ (Has(k, "tell") => Has(k, "tell")')
      BY <1>2, <2>2 DEF ListInv, Has
    <3>2. QED
      BY <1>1, <3>1, ListedStands
  <2>3. QED
    BY <2>1, <2>2
<1>6. QED
  BY <1>4, <1>5 DEF ListInv

\* A new request has no entry.
LEMMA ListedAfterArrival ==
  ASSUME TypeInv, ListInv,
         UNCHANGED <<scenario, kind, rooms, audit, read, stream, channel, items, gap>>,
         NEW x \in Room, NEW q \in Screen \cup {Elsewhere}, Arrive(x, q)
  PROVE  ListInv'
<1>1. /\ sent' = sent + 1 /\ \A k \in Request \ {sent'} : todo'[k] = todo[k]
  BY Arrives DEF TypeInv
<1>2. sent \in Nat /\ Range(audit) \subseteq Request
  BY LenProperties, InRange DEF TypeInv, ServerOK
<1>3. \A k \in Range(audit) : k \in Nat /\ k <= sent' /\ k # sent'
  <2> SUFFICES ASSUME NEW k \in Range(audit) PROVE k \in Nat /\ k <= sent' /\ k # sent'
    OBVIOUS
  <2>1. k \in Nat
    BY <1>2, ScreensAssumption
  <2>2. k <= sent
    BY DEF ListInv, EntriesKnown
  <2>3. QED
    BY <1>1, <1>2, <2>1, <2>2
<1>4. \A k \in Range(audit) : Has(k, "tell")' = Has(k, "tell") /\ Has(k, "apply")' = Has(k, "apply")
  BY <1>1, <1>2, <1>3 DEF Has
<1>5. EntriesKnown'
  BY <1>3, <1>4 DEF ListInv, EntriesKnown
<1>6. ASSUME NEW s \in Screen, NEW k \in Request PROVE ListedAt(s, k)'
  <2>1. ListedAt(s, k) /\ Script' = Script
    BY DEF ListInv, Script
  <2>2. QED
    BY <1>4, <2>1 DEF ListedAt
<1>7. QED
  BY <1>5, <1>6 DEF ListInv

\* What happens to the streams and the apps leaves the entries listed, where the list keeps them.
LEMMA ListedAfterWire ==
  ASSUME TypeInv, ListInv, UNCHANGED <<scenario, kind, audit, todo, sent>>,
         \A s \in Screen : /\ stream[s] = "ended" => stream'[s] = "ended"
                           /\ stream'[s] # "ended" => UNCHANGED <<channel[s], items[s], gap[s]>>
  PROVE  ListInv'
<1>1. EntriesKnown'
  BY DEF ListInv, EntriesKnown, Has
<1>2. ASSUME NEW s \in Screen, NEW k \in Request PROVE ListedAt(s, k)'
  <2>1. ListedAt(s, k) /\ Has(k, "tell")' = Has(k, "tell")
    BY DEF ListInv, Has
  <2>2. QED
    BY <2>1, ListedStands
<1>3. QED
  BY <1>1, <1>2 DEF ListInv

\* An answer of the audit list is the list from then on; what it has not goes into the gap.
LEMMA ListedAfterLoad ==
  ASSUME TypeInv, ListInv, NEW q \in Screen, LoadAudit(q) PROVE ListInv'
<1>1. /\ UNCHANGED <<scenario, kind, audit, todo, sent, channel>>
      /\ items' = [items EXCEPT ![q] = Head(got[q])]
      /\ gap' = [gap EXCEPT ![q] = IF stream[q] = "ended" THEN {}
                                   ELSE (gap[q] \cup items[q]) \ Head(got[q])]
      /\ EndRefresh(q)
  BY DEF LoadAudit, server, TypeInv, HistoryOK
<1>2. \A s \in Screen : stream[s] = "ended" <=> stream'[s] = "ended"
  BY <1>1 DEF EndRefresh, TypeInv, WireOK
<1>3. EntriesKnown'
  BY <1>1 DEF ListInv, EntriesKnown, Has
<1>4. ASSUME NEW s \in Screen, NEW k \in Request PROVE ListedAt(s, k)'
  <2>1. ListedAt(s, k) /\ Has(k, "tell")' = Has(k, "tell") /\ Script' = Script
    BY <1>1 DEF ListInv, Has, Script
  <2>2. CASE s # q
    <3>1. UNCHANGED <<items[s], gap[s], channel[s]>>
      BY <1>1, <2>2 DEF TypeInv, AppOK, HistoryOK
    <3>2. QED
      BY <1>1, <1>2, <2>1, <3>1, ListedStands
  <2>3. CASE s = q
    <3>1. /\ items'[s] = Head(got[s])
          /\ stream[s] # "ended" => gap'[s] = (gap[s] \cup items[s]) \ Head(got[s])
      BY <1>1, <2>3 DEF TypeInv, AppOK, HistoryOK
    <3>2. QED
      BY <1>1, <1>2, <2>1, <3>1 DEF ListedAt
  <2>4. QED
    BY <2>2, <2>3
<1>5. QED
  BY <1>3, <1>4 DEF ListInv

\* An announcement that is handled is in the list.
LEMMA ListedAfterEvent ==
  ASSUME TypeInv, ListInv, NEW q \in Screen, TakeEvent(q) PROVE ListInv'
<1>1. /\ UNCHANGED <<scenario, kind, audit, todo, sent, stream, gap>>
      /\ channel[q] # <<>> /\ channel[q] \in Seq(Event)
      /\ channel' = [channel EXCEPT ![q] = Tail(channel[q])]
  BY DEF TakeEvent, server, history, TypeInv, WireOK
<1>2. EntriesKnown'
  BY <1>1 DEF ListInv, EntriesKnown, Has
<1>3. Head(channel[q]) \in Event
  BY <1>1, HeadTailProperties
<1>4. \A s \in Screen : items[s] \subseteq items'[s]
  BY DEF TakeEvent, TypeInv, AppOK
<1>5. (kind[q] = "dashboard" /\ Head(channel[q]).event = "audit_event")
        => Head(channel[q]).item \in items'[q]
  BY DEF TakeEvent, TypeInv, AppOK
<1>6. ASSUME NEW s \in Screen, NEW k \in Request PROVE ListedAt(s, k)'
  <2>1. ListedAt(s, k) /\ Has(k, "tell")' = Has(k, "tell") /\ Script' = Script
    BY <1>1 DEF ListInv, Has, Script
  <2>2. CASE s # q
    <3>1. channel'[s] = channel[s]
      BY <1>1, <2>2 DEF TypeInv, WireOK
    <3>2. QED
      BY <1>1, <1>4, <2>1, <3>1, ListedStands
  <2>3. CASE s = q
    <3>1. channel'[s] = Tail(channel[s])
      BY <1>1, <2>3 DEF TypeInv, WireOK
    <3>2. Announces(channel[s], k) =>
            \/ Head(channel[s]).event = "audit_event" /\ Head(channel[s]).item = k
            \/ Announces(channel'[s], k)
      BY <1>1, <2>3, <3>1, AnnouncesTail
    <3>3. QED
      BY <1>1, <1>4, <1>5, <2>1, <2>3, <3>2 DEF ListedAt
  <2>4. QED
    BY <2>2, <2>3
<1>7. QED
  BY <1>2, <1>6 DEF ListInv

\* Every action leaves the entries listed.
LEMMA StepListed == TypeInv /\ ListInv /\ [Next]_vars => ListInv'
<1> SUFFICES ASSUME TypeInv, ListInv, [Next]_vars PROVE ListInv'
  OBVIOUS
<1>1. ASSUME NEW i \in Request, Read(i) \/ Answer(i) \/ (Apply(i) /\ scenario = "backend")
      PROVE  ListInv'
  <2>1. /\ UNCHANGED <<scenario, kind, sent, audit, stream, channel, items, gap>> /\ Advance(i)
        /\ AtStep(i, "apply") \/ AtStep(i, "read") \/ AtStep(i, "answer")
    BY <1>1 DEF Apply, Read, Answer, wire, app, history
  <2>2. QED
    BY <2>1, ListedAfterStep
<1>2. ASSUME NEW i \in Request, Log(i) \/ (Apply(i) /\ scenario # "backend") PROVE ListInv'
  <2>1. /\ UNCHANGED <<scenario, kind, sent, stream, channel, items, gap>> /\ Advance(i)
        /\ AtStep(i, "apply") \/ AtStep(i, "log")
        /\ audit' = <<i>> \o audit
    BY <1>2 DEF Apply, Log, wire, app, history
  <2>2. QED
    BY <2>1, ListedAfterEntry
<1>3. ASSUME NEW i \in Request, Tell(i) PROVE ListInv'
  BY <1>3, ListedAfterTell
<1>4. ASSUME NEW i \in Request, PublishRoom(i) PROVE ListInv'
  <2>1. /\ UNCHANGED <<scenario, kind, sent, audit, stream, items, gap>> /\ Advance(i)
        /\ AtStep(i, "publish")
        /\ Publish([event |-> "room_update", room |-> job[i].room, state |-> read[i]])
    BY <1>4 DEF PublishRoom, app
  <2>2. \A s \in Screen, k \in Request : Announces(channel[s], k) => Announces(channel'[s], k)
    BY <2>1, RoomEvent, PublishKeepsAnnounced DEF TypeInv
  <2>3. QED
    BY <2>1, <2>2, ListedAfterStep
<1>5. ASSUME NEW i \in Request, Refuse(i) PROVE ListInv'
  BY <1>5, ListedAfterRefusal
<1>6. ASSUME NEW r \in Room, Foreign(r) PROVE ListInv'
  BY <1>6, ListedAfterArrival DEF Foreign, wire, history, app
<1>7. ASSUME NEW s \in Screen, NEW r \in Room, Press(s, r) PROVE ListInv'
  BY <1>7, ListedAfterArrival DEF Press, wire, history
<1>8. ASSUME NEW s \in Screen, TakeEvent(s) PROVE ListInv'
  BY <1>8, ListedAfterEvent
<1>9. ASSUME NEW s \in Screen, LoadAudit(s) PROVE ListInv'
  BY <1>9, ListedAfterLoad
<1>10. ASSUME NEW s \in Screen,
             \/ \E r \in Room : TimeOut(s, r)
             \/ Open(s) \/ Refresh(s) \/ Serve(s) \/ LoadRooms(s) \/ FetchFails(s)
             \/ Subscribe(s) \/ Greet(s) \/ TakeGreeting(s) \/ Disconnect(s)
      PROVE  ListInv'
  <2>1. UNCHANGED <<scenario, kind, audit, todo, sent, items>>
    BY <1>10 DEF server, app, history, TimeOut, Open, Refresh, Serve, LoadRooms,
                FetchFails, Subscribe, Greet, TakeGreeting, Disconnect
  <2>2. ASSUME NEW q \in Screen
        PROVE  /\ stream[q] = "ended" => stream'[q] = "ended"
               /\ stream'[q] # "ended" => channel'[q] = channel[q] /\ gap'[q] = gap[q]
    <3>1. /\ stream \in [Screen -> {"none", "connecting", "subscribed", "live", "ended"}]
          /\ channel \in [Screen -> Seq(Event)] /\ gap \in [Screen -> SUBSET Request]
      BY DEF TypeInv, WireOK, HistoryOK
    <3>2. CASE Subscribe(s) \/ Greet(s) \/ Disconnect(s)
      BY <3>1, <3>2 DEF Subscribe, Greet, Disconnect, history
    <3>3. CASE ~(Subscribe(s) \/ Greet(s) \/ Disconnect(s))
      BY <1>10, <3>1, <3>3 DEF wire, history, TimeOut, Open, Refresh, Serve, LoadRooms,
                               FetchFails, EndRefresh, TakeGreeting
    <3>4. QED
      BY <3>2, <3>3
  <2>3. QED
    BY <2>1, <2>2, ListedAfterWire
<1>11. ASSUME NEW i \in Request, LoseAnswer(i) PROVE ListInv'
  BY <1>11, ListedAfterWire DEF LoseAnswer, wire, history
<1>12. CASE UNCHANGED vars
  BY <1>12, ListedAfterWire DEF vars, server, wire, app, history
<1>13. QED
  BY <1>1, <1>2, <1>3, <1>4, <1>5, <1>6, <1>7, <1>8, <1>9, <1>10, <1>11, <1>12
     DEF Next, Handle, Stream

(***************************************************************************)
(* A dashboard with an open stream has every announced entry in its audit  *)
(* list or coming, unless it was announced while the app was not           *)
(* subscribed or its channel was full, under another one's name (the mock's*)
(* latestAudit), or went with the answer of an older GET.                  *)
(***************************************************************************)
THEOREM AuditListed == Spec => []AuditListFollows
<1>1. Init => ListInv
  <2> SUFFICES ASSUME Init PROVE ListInv
    OBVIOUS
  <2>1. Range(audit) = {}
    BY InRange DEF Init
  <2>2. QED
    BY <2>1 DEF ListInv, EntriesKnown, ListedAt
<1>2. TypeInv /\ ListInv => AuditListFollows
  <2> SUFFICES ASSUME TypeInv, ListInv, NEW s \in Screen, kind[s] = "dashboard", Subscribed(s),
                      "tell" \in Range(Script), NEW i \in Range(audit) \ gap[s]
               PROVE  Has(i, "tell") \/ i \in items[s] \/ Announces(channel[s], i)
    BY DEF AuditListFollows, Announces
  <2>1. i \in Request
    BY LenProperties, InRange DEF TypeInv, ServerOK
  <2>2. QED
    BY <2>1 DEF ListInv, ListedAt, Subscribed
<1>3. QED
  BY <1>1, <1>2, InitTypes, StepTypes, StepListed, PTL DEF Spec
-----------------------------------------------------------------------------
\* A payload that was not overtaken is the room as it is.
ReadInv ==
  \A i \in Request : (Has(i, "publish") /\ ~Has(i, "read") /\ i \notin overtaken)
                       => read[i] = rooms[job[i].room]

\* A step that is left is a step of a request that is not done.
LEMMA LeftIsNotDone ==
  ASSUME NEW q, NEW x \in Range(q), NEW S, q \in Seq(S) PROVE q # <<>>
BY InRange

\* A handler's step keeps the payloads that were read, unless it changes the room or reads.
LEMMA ReadAfterStep ==
  ASSUME TypeInv, ReadInv, UNCHANGED <<scenario, rooms>>,
         NEW i \in Request, NEW st, st # "read", AtStep(i, st), Advance(i),
         \A k \in Request : (k # i \/ st # "publish")
                              => read'[k] = read[k] /\ (k \in overtaken => k \in overtaken')
  PROVE  ReadInv'
<1>1. Did(i, st) /\ todo' \in [Request -> Seq(Step)]
  BY Advances DEF TypeInv
<1>2. ASSUME NEW k \in Request, Has(k, "publish")', ~Has(k, "read")', k \notin overtaken'
      PROVE  read'[k] = rooms'[job'[k].room]
  <2>1. Has(k, "publish") /\ ~(k = i /\ st = "publish") /\ ~Has(k, "read")
    BY <1>1, <1>2 DEF Did, Has, Step
  <2>2. job'[k] = job[k]
    BY <1>1, <1>2, LeftIsNotDone DEF Did, Has
  <2>3. QED
    BY <1>2, <2>1, <2>2 DEF ReadInv
<1>3. QED
  BY <1>2 DEF ReadInv

\* A change of a room overtakes the payloads of the room that are not published yet.
LEMMA ReadAfterApply ==
  ASSUME TypeInv, ReadInv, NEW i \in Request, Apply(i) PROVE ReadInv'
<1>1. /\ UNCHANGED <<scenario, read>> /\ AtStep(i, "apply") /\ Advance(i)
      /\ overtaken' = overtaken \cup {k \in Request \ {i} :
                         Has(k, "publish") /\ ~Has(k, "read") /\ job[k].room = job[i].room}
  BY DEF Apply
<1>2. Did(i, "apply") /\ todo' \in [Request -> Seq(Step)]
  BY <1>1, Advances DEF TypeInv
<1>3. \A r \in Room \cup {NoJob.room} : r # job[i].room => rooms'[r] = rooms[r]
  BY DEF Apply, TypeInv, ServerOK
<1>4. Has(i, "publish") => Has(i, "read")
  <2>1. todo[i] # <<>> /\ Head(todo[i]) = "apply" /\ Tidy(todo[i], Script, scenario)
    BY <1>1 DEF AtStep, TypeInv, ServerOK
  <2>2. Range(todo[i]) = Range(Script)
    BY <2>1, StepsInOrder
  <2>3. QED
    BY <2>2, ScriptIsTidy DEF Has, TypeInv, ServerOK
<1>5. ASSUME NEW k \in Request, Has(k, "publish")', ~Has(k, "read")', k \notin overtaken'
      PROVE  read'[k] = rooms'[job'[k].room]
  <2>1. Has(k, "publish") /\ ~Has(k, "read")
    BY <1>2, <1>5 DEF Did, Has, Step
  <2>2. k # i /\ k \notin overtaken /\ job[k].room # job[i].room
    BY <1>1, <1>4, <1>5, <2>1
  <2>3. job'[k] = job[k]
    BY <1>2, <1>5, LeftIsNotDone DEF Did, Has
  <2>4. job[k].room \in Room \cup {NoJob.room}
    BY DEF TypeInv, ServerOK
  <2>5. read[k] = rooms[job[k].room]
    BY <2>1, <2>2 DEF ReadInv
  <2>6. QED
    BY <1>1, <1>3, <2>2, <2>3, <2>4, <2>5
<1>6. QED
  BY <1>5 DEF ReadInv

\* A payload is read as the room is.
LEMMA ReadAfterRead ==
  ASSUME TypeInv, ReadInv, NEW i \in Request, Read(i) PROVE ReadInv'
<1>1. /\ UNCHANGED <<scenario, rooms, overtaken>> /\ AtStep(i, "read") /\ Advance(i)
      /\ read' = [read EXCEPT ![i] = rooms[job[i].room]]
  BY DEF Read, history
<1>2. Did(i, "read") /\ todo' \in [Request -> Seq(Step)]
  BY <1>1, Advances DEF TypeInv
<1>3. ASSUME NEW k \in Request, Has(k, "publish")', ~Has(k, "read")', k \notin overtaken'
      PROVE  read'[k] = rooms'[job'[k].room]
  <2>1. job'[k] = job[k]
    BY <1>2, <1>3, LeftIsNotDone DEF Did, Has
  <2>2. CASE k = i
    BY <1>1, <2>1, <2>2 DEF TypeInv, ServerOK
  <2>3. CASE k # i
    <3>1. Has(k, "publish") /\ ~Has(k, "read")
      BY <1>2, <1>3, <2>3 DEF Did, Has, Step
    <3>2. read'[k] = read[k]
      BY <1>1, <2>3 DEF TypeInv, ServerOK
    <3>3. QED
      BY <1>1, <1>3, <2>1, <3>1, <3>2 DEF ReadInv
  <2>4. QED
    BY <2>2, <2>3
<1>4. QED
  BY <1>3 DEF ReadInv

\* A new request has read nothing yet.
LEMMA ReadAfterArrival ==
  ASSUME TypeInv, ReadInv, UNCHANGED <<scenario, kind, rooms, audit, read, overtaken>>,
         NEW x \in Room, NEW q \in Screen \cup {Elsewhere}, Arrive(x, q)
  PROVE  ReadInv'
<1>1. /\ sent' \in Request /\ todo'[sent'] = Script
      /\ \A k \in Request \ {sent'} : todo'[k] = todo[k] /\ job'[k] = job[k]
  BY Arrives DEF TypeInv
<1>2. "publish" \in Range(Script) => "read" \in Range(Script)
  BY ScriptIsTidy DEF TypeInv, ServerOK
<1>3. QED
  BY <1>1, <1>2 DEF ReadInv, Has

\* Every action keeps ReadInv.
LEMMA StepRead == TypeInv /\ ReadInv /\ [Next]_vars => ReadInv'
<1> SUFFICES ASSUME TypeInv, ReadInv, [Next]_vars PROVE ReadInv'
  OBVIOUS
<1>1. ASSUME NEW i \in Request, Log(i) \/ Tell(i) \/ Answer(i) PROVE ReadInv'
  <2>1. /\ UNCHANGED <<scenario, rooms, read, overtaken>> /\ Advance(i)
        /\ AtStep(i, "log") \/ AtStep(i, "tell") \/ AtStep(i, "answer")
    BY <1>1 DEF Log, Tell, Answer, history
  <2>2. QED
    BY <2>1, ReadAfterStep
<1>2. ASSUME NEW i \in Request, PublishRoom(i) PROVE ReadInv'
  <2>1. /\ UNCHANGED <<scenario, rooms>> /\ Advance(i) /\ AtStep(i, "publish")
        /\ read' = [read EXCEPT ![i] = NoPayload] /\ overtaken' = overtaken \ {i}
    BY <1>2 DEF PublishRoom
  <2>2. \A k \in Request \ {i} : read'[k] = read[k] /\ (k \in overtaken => k \in overtaken')
    BY <2>1 DEF TypeInv, ServerOK
  <2>3. QED
    BY <2>1, <2>2, ReadAfterStep
<1>3. ASSUME NEW i \in Request, Apply(i) PROVE ReadInv'
  BY <1>3, ReadAfterApply
<1>4. ASSUME NEW i \in Request, Read(i) PROVE ReadInv'
  BY <1>4, ReadAfterRead
<1>5. ASSUME NEW r \in Room, Foreign(r) PROVE ReadInv'
  BY <1>5, ReadAfterArrival DEF Foreign, history
<1>6. ASSUME NEW s \in Screen, NEW r \in Room, Press(s, r) PROVE ReadInv'
  BY <1>6, ReadAfterArrival DEF Press, history
<1>7. ASSUME NEW i \in Request, Refuse(i) PROVE ReadInv'
  <2>1. /\ UNCHANGED <<rooms, read, overtaken>>
        /\ todo' = [todo EXCEPT ![i] = <<>>] /\ job' = [job EXCEPT ![i] = NoJob]
    BY <1>7 DEF Refuse, Forget, history
  <2>2. todo'[i] = <<>> /\ \A k \in Request \ {i} : todo'[k] = todo[k] /\ job'[k] = job[k]
    BY <2>1 DEF TypeInv, ServerOK
  <2>3. ~Has(i, "publish")'
    BY <2>2, InRange DEF Has
  <2>4. QED
    BY <2>1, <2>2, <2>3 DEF ReadInv, Has
<1>8. ASSUME NEW i \in Request, LoseAnswer(i) PROVE ReadInv'
  <2>1. /\ UNCHANGED <<rooms, read, overtaken, todo>> /\ job' = [job EXCEPT ![i].from = Elsewhere]
    BY <1>8 DEF LoseAnswer, history
  <2>2. \A k \in Request : job'[k].room = job[k].room
    BY <2>1 DEF TypeInv, ServerOK
  <2>3. QED
    BY <2>1, <2>2 DEF ReadInv, Has
<1>9. ASSUME NEW s \in Screen,
             \/ \E r \in Room : TimeOut(s, r)
             \/ Open(s) \/ Refresh(s) \/ Serve(s) \/ LoadRooms(s) \/ LoadAudit(s) \/ FetchFails(s)
             \/ Subscribe(s) \/ Stream(s) \/ Disconnect(s)
      PROVE  UNCHANGED <<todo, overtaken, read, rooms, job>>
  BY <1>9 DEF server, history, TimeOut, Open, Refresh, Serve, LoadRooms, LoadAudit, FetchFails,
              Subscribe, Stream, Greet, TakeGreeting, TakeEvent, Disconnect
<1>10. UNCHANGED <<todo, overtaken, read, rooms, job>> => ReadInv'
  BY DEF ReadInv, Has
<1>11. CASE UNCHANGED vars
  BY <1>10, <1>11 DEF vars, server, history
<1>12. QED
  BY <1>1, <1>2, <1>3, <1>4, <1>5, <1>6, <1>7, <1>8, <1>9, <1>10, <1>11 DEF Next, Handle
-----------------------------------------------------------------------------
\* A set of numbers up to n that is not empty has a greatest one.
LEMMA GreatestExists ==
  ASSUME NEW n \in Nat, NEW K \in SUBSET (1 .. n), K # {}
  PROVE  \E k \in K : \A j \in K : j <= k
<1> DEFINE Less == OpToRel(<, Nat)
           Depth == {n - k : k \in K}
<1>1. IsWellFoundedOn(Less, Nat)
  BY NatLessThanWellFounded, Zenon
<1>2. \A l, k \in Nat : l < k => <<l, k>> \in Less
  BY DEF OpToRel
<1>3. Depth \in SUBSET Nat /\ Depth # {}
  <2>1. \A k \in K : n - k \in Nat
    OBVIOUS
  <2>2. QED
    BY <2>1
<1>4. \A k \in K : n - k \in Depth
  OBVIOUS
<1>5. \A d \in Depth : \E k \in K : d = n - k
  OBVIOUS
<1> HIDE DEF Less, Depth
<1>6. PICK d \in Depth : \A l \in Depth : <<l, d>> \notin Less
  BY <1>1, <1>3, WFMin
<1>7. PICK k \in K : d = n - k
  BY <1>5
<1>8. ASSUME NEW j \in K PROVE j <= k
  <2>1. n - j \in Nat /\ n - k \in Nat /\ j \in Nat /\ k \in Nat
    OBVIOUS
  <2>2. ~(n - j < n - k)
    BY <1>2, <1>4, <1>6, <1>7, <2>1
  <2>3. QED
    BY <2>1, <2>2
<1>9. QED
  BY <1>8

\* An update of r.
IsUpdate(e, r) == e.event = "room_update" /\ e.room = r

\* The last update of r in a channel.
LastOn(c, r, k) == k \in On(c, r) /\ \A j \in On(c, r) : j <= k

\* Where there is an update there is a last one, and only one.
LEMMA LastExists ==
  ASSUME NEW c \in Seq(Event), NEW r, On(c, r) # {}
  PROVE  /\ \E k : LastOn(c, r, k)
         /\ \A j, k : LastOn(c, r, j) /\ LastOn(c, r, k) => j = k
<1>1. Len(c) \in Nat /\ On(c, r) \in SUBSET (1 .. Len(c))
  BY LenProperties DEF On
<1>2. PICK k \in On(c, r) : \A j \in On(c, r) : j <= k
  BY <1>1, GreatestExists
<1>3. QED
  BY <1>1, <1>2 DEF LastOn

\* The last update after one more event.
LEMMA LastAppend ==
  ASSUME NEW c \in Seq(Event), NEW e \in Event, NEW r
  PROVE  /\ On(Append(c, e), r) = {} => On(c, r) = {} /\ ~IsUpdate(e, r)
         /\ IsUpdate(e, r) => \A k : LastOn(Append(c, e), r, k) => Append(c, e)[k] = e
         /\ ~IsUpdate(e, r) =>
              \A k : LastOn(Append(c, e), r, k) => LastOn(c, r, k) /\ Append(c, e)[k] = c[k]
<1> DEFINE more == Append(c, e)
           mine == IsUpdate(e, r)
<1>1. /\ \A k : k \in On(more, r) <=> (k \in On(c, r) \/ (k = Len(c) + 1 /\ mine))
      /\ \A k \in On(c, r) : k \in 1 .. Len(c) /\ more[k] = c[k]
      /\ more[Len(c) + 1] = e /\ Len(c) \in Nat
  BY OnAppend DEF IsUpdate
<1> HIDE DEF more, mine
<1>2. ASSUME NEW k, LastOn(more, r, k), mine PROVE more[k] = e
  <2>1. k \in On(more, r) /\ Len(c) + 1 <= k
    BY <1>1, <1>2 DEF LastOn
  <2>2. k = Len(c) + 1
    BY <1>1, <2>1
  <2>3. QED
    BY <1>1, <2>2
<1>3. ASSUME NEW k, LastOn(more, r, k), ~mine PROVE LastOn(c, r, k) /\ more[k] = c[k]
  BY <1>1, <1>3 DEF LastOn
<1>4. QED
  BY <1>1, <1>2, <1>3 DEF more, mine

\* The last update after the first event has gone.
LEMMA LastTail ==
  ASSUME NEW c \in Seq(Event), c # <<>>, NEW r
  PROVE  /\ \A k : LastOn(Tail(c), r, k) => LastOn(c, r, k + 1) /\ Tail(c)[k] = c[k + 1]
         /\ (On(Tail(c), r) = {} /\ IsUpdate(Head(c), r)) => LastOn(c, r, 1)
         /\ (On(Tail(c), r) = {} /\ ~IsUpdate(Head(c), r)) => On(c, r) = {}
<1> DEFINE rest == Tail(c)
           mine == IsUpdate(Head(c), r)
<1>1. /\ \A k \in On(rest, r) : k \in Nat /\ k + 1 \in On(c, r) /\ rest[k] = c[k + 1]
      /\ \A k \in On(c, r) : k \in Nat \ {0} /\ (k # 1 => k - 1 \in On(rest, r))
      /\ 1 \in On(c, r) <=> mine
  BY OnTail DEF IsUpdate
<1> HIDE DEF rest, mine
<1>2. ASSUME NEW k, LastOn(rest, r, k) PROVE LastOn(c, r, k + 1) /\ rest[k] = c[k + 1]
  <2>1. k \in On(rest, r) /\ k \in Nat /\ k + 1 \in On(c, r) /\ rest[k] = c[k + 1]
    BY <1>1, <1>2 DEF LastOn
  <2>2. ASSUME NEW j \in On(c, r) PROVE j <= k + 1
    <3>1. j \in Nat \ {0} /\ (j # 1 => j - 1 \in On(rest, r))
      BY <1>1
    <3>2. j # 1 => j - 1 <= k
      BY <1>2, <3>1 DEF LastOn
    <3>3. QED
      BY <2>1, <3>1, <3>2
  <2>3. QED
    BY <2>1, <2>2 DEF LastOn
<1>3. ASSUME On(rest, r) = {} PROVE IF mine THEN LastOn(c, r, 1) ELSE On(c, r) = {}
  <2>1. \A k \in On(c, r) : k = 1
    BY <1>1, <1>3
  <2>2. QED
    BY <1>1, <2>1 DEF LastOn
<1>4. QED
  BY <1>2, <1>3 DEF rest, mine
-----------------------------------------------------------------------------
\* No handler has changed r and is still to publish it.
Calm(r) == \A i \in Request : Owes(i) => job[i].room # r

\* What the app shows of r before the updates in the channel.
Greeted(s, r) == IF greeting[s] # <<>> THEN greeting[s][1][r] ELSE shown[s][r]

\* The last word on its way to a subscribed app is the room as it is; once the stream is
\* live, what it was told last before is, if no word is on its way.
AgreesAt(s, r) ==
  (Subscribed(s) /\ Updating /\ r \notin doubt[s] /\ Calm(r))
    => /\ \A k : LastOn(channel[s], r, k) => Agree(channel[s][k].state, rooms[r])
       /\ (stream[s] = "live" /\ On(channel[s], r) = {}) => Agree(Greeted(s, r), rooms[r])

ShowInv == \A s \in Screen, r \in Room : AgreesAt(s, r)

\* What has to stay so that an app agrees.
LEMMA AgreesStands ==
  ASSUME UNCHANGED scenario, NEW s \in Screen, NEW r \in Room, AgreesAt(s, r),
         Calm(r)' => Calm(r), rooms'[r] = rooms[r],
         r \in doubt[s] => r \in doubt'[s],
         Subscribed(s)' => UNCHANGED <<stream[s], channel[s], greeting[s], shown[s]>>
  PROVE  AgreesAt(s, r)'
<1>1. Updating' = Updating
  BY DEF Updating, Script
<1>2. CASE ~Subscribed(s)'
  BY <1>2 DEF AgreesAt
<1>3. CASE Subscribed(s)'
  BY <1>1, <1>3 DEF AgreesAt, Greeted, Subscribed
<1>4. QED
  BY <1>2, <1>3

\* A handler's step other than the publication leaves no room calm that was not.
LEMMA CalmAfterStep ==
  ASSUME TypeInv, UNCHANGED scenario,
         NEW i \in Request, NEW st, st # "publish", AtStep(i, st), Advance(i), NEW r
  PROVE  Calm(r)' => Calm(r)
<1>1. Did(i, st) /\ todo' \in [Request -> Seq(Step)]
  BY Advances DEF TypeInv
<1>2. ASSUME NEW k \in Request, Owes(k) PROVE Owes(k)' /\ job'[k] = job[k]
  <2>1. Has(k, "publish")' /\ ~Has(k, "apply")'
    BY <1>1, <1>2 DEF Did, Owes, Has, Step
  <2>2. job'[k] = job[k]
    BY <1>1, <2>1, LeftIsNotDone DEF Did, Has
  <2>3. QED
    BY <2>1, <2>2 DEF Owes
<1>3. QED
  BY <1>2 DEF Calm

\* A handler that does not publish leaves what is on its way to the apps, but for announcements.
LEMMA AgreesAfterStep ==
  ASSUME TypeInv, ShowInv, UNCHANGED <<scenario, rooms, doubt, stream, channel, greeting, shown>>,
         NEW i \in Request, NEW st, st # "publish", AtStep(i, st), Advance(i)
  PROVE  ShowInv'
<1> SUFFICES ASSUME NEW s \in Screen, NEW r \in Room PROVE AgreesAt(s, r)'
  BY DEF ShowInv
<1>1. Calm(r)' => Calm(r)
  BY CalmAfterStep
<1>2. AgreesAt(s, r)
  BY DEF ShowInv
<1>3. QED
  BY <1>1, <1>2, AgreesStands

\* A changed room is not calm until it is published.
LEMMA AgreesAfterApply ==
  ASSUME TypeInv, ShowInv, NEW i \in Request, Apply(i) PROVE ShowInv'
<1> SUFFICES ASSUME NEW s \in Screen, NEW r \in Room PROVE AgreesAt(s, r)'
  BY DEF ShowInv
<1>1. /\ UNCHANGED <<scenario, doubt, stream, channel, greeting, shown>>
      /\ AtStep(i, "apply") /\ Advance(i)
  BY DEF Apply, wire, app
<1>2. Did(i, "apply") /\ todo' \in [Request -> Seq(Step)] /\ Has(i, "apply")
  BY <1>1, Advances DEF TypeInv
<1>3. Script' = Script
  BY <1>1 DEF Script
<1>4. CASE r # job[i].room
  <2>1. rooms'[r] = rooms[r]
    BY <1>4 DEF Apply, TypeInv, ServerOK
  <2>2. Calm(r)' => Calm(r)
    BY <1>1, CalmAfterStep
  <2>3. AgreesAt(s, r)
    BY DEF ShowInv
  <2>4. QED
    BY <1>1, <2>1, <2>2, <2>3, AgreesStands
<1>5. CASE r = job[i].room
  <2>1. todo[i] # <<>> /\ Tidy(todo[i], Script, scenario)
    BY <1>1 DEF AtStep, TypeInv, ServerOK
  <2>2. Range(todo[i]) = Range(Script)
    BY <1>2, <2>1, StepsInOrder DEF Has
  <2>3. Updating' => Has(i, "publish")' /\ ~Has(i, "apply")'
    BY <1>2, <1>3, <2>2 DEF Updating, Did, Has, Step
  <2>4. Updating' => job'[i].room = r
    BY <1>2, <1>5, <2>3, LeftIsNotDone DEF Did, Has
  <2>5. Updating' => ~Calm(r)'
    BY <2>3, <2>4 DEF Calm, Owes
  <2>6. QED
    BY <2>5 DEF AgreesAt
<1>6. QED
  BY <1>4, <1>5

\* The event of a Tell is no update, and leaves the updates where they are.
LEMMA AgreesAfterTell ==
  ASSUME TypeInv, ShowInv, NEW i \in Request, Tell(i) PROVE ShowInv'
<1> DEFINE e == [event |-> "audit_event", item |-> Announced(i)]
<1> SUFFICES ASSUME NEW s \in Screen, NEW r \in Room PROVE AgreesAt(s, r)'
  BY DEF ShowInv
<1>1. /\ UNCHANGED <<scenario, rooms, doubt, stream, greeting, shown>>
      /\ AtStep(i, "tell") /\ Advance(i) /\ Publish(e)
  BY DEF Tell, app
<1>2. e \in Event /\ ~IsUpdate(e, r)
  BY <1>1, TellEvent DEF TypeInv, IsUpdate
<1> HIDE DEF e
<1>3. Calm(r)' => Calm(r)
  BY <1>1, CalmAfterStep
<1>4. channel[s] \in Seq(Event)
  BY DEF TypeInv, WireOK
<1>5. channel'[s] = IF Subscribed(s) /\ ~Full(s) THEN Append(channel[s], e) ELSE channel[s]
  BY <1>1, <1>2, PublishIs DEF TypeInv
<1>6. /\ On(channel'[s], r) = {} => On(channel[s], r) = {}
      /\ \A k : LastOn(channel'[s], r, k) => LastOn(channel[s], r, k) /\ channel'[s][k] = channel[s][k]
  <2>1. /\ On(Append(channel[s], e), r) = {} => On(channel[s], r) = {}
        /\ \A k : LastOn(Append(channel[s], e), r, k)
                   => LastOn(channel[s], r, k) /\ Append(channel[s], e)[k] = channel[s][k]
    BY <1>2, <1>4, LastAppend
  <2>2. CASE channel'[s] = Append(channel[s], e)
    BY <2>1, <2>2
  <2>3. CASE channel'[s] = channel[s]
    BY <2>3
  <2>4. QED
    BY <1>5, <2>2, <2>3
<1>7. /\ Updating' <=> Updating
      /\ Subscribed(s)' <=> Subscribed(s)
      /\ Greeted(s, r)' = Greeted(s, r)
  BY <1>1 DEF Updating, Script, Subscribed, Greeted
<1>8. AgreesAt(s, r)
  BY DEF ShowInv
<1>9. SUFFICES ASSUME Subscribed(s), Updating, r \notin doubt[s], Calm(r)
               PROVE  /\ \A k : LastOn(channel'[s], r, k) => Agree(channel'[s][k].state, rooms[r])
                      /\ (stream[s] = "live" /\ On(channel'[s], r) = {})
                           => Agree(Greeted(s, r), rooms[r])
  BY <1>1, <1>3, <1>7 DEF AgreesAt
<1>10. QED
  BY <1>6, <1>8, <1>9 DEF AgreesAt

\* A room agrees with itself.
LEMMA AgreesWithItself == ASSUME NEW room PROVE Agree(room, room)
BY DEF Agree

\* The payload of a publication is the room as it is, or every app that hears of it is in doubt.
LEMMA AgreesAfterPublish ==
  ASSUME TypeInv, ReadInv, ShowInv, NEW i \in Request, PublishRoom(i) PROVE ShowInv'
<1> DEFINE x == job[i].room
           e == [event |-> "room_update", room |-> x, state |-> read[i]]
           fresh == i \in overtaken => read[i] = rooms[x]
<1> SUFFICES ASSUME NEW s \in Screen, NEW r \in Room PROVE AgreesAt(s, r)'
  BY DEF ShowInv
<1>1. /\ UNCHANGED <<scenario, rooms, stream, greeting, shown>>
      /\ AtStep(i, "publish") /\ Advance(i) /\ Publish(e)
      /\ doubt'[s] = IF ~Subscribed(s) THEN doubt[s]
                     ELSE IF fresh /\ ~Full(s) THEN doubt[s] \ {x} ELSE doubt[s] \cup {x}
  BY DEF PublishRoom, app
<1>2. e \in Event /\ e.event = "room_update" /\ e.room = x /\ e.state = read[i]
  BY <1>1, RoomEvent DEF TypeInv
<1>3. Did(i, "publish") /\ todo' \in [Request -> Seq(Step)]
  BY <1>1, Advances DEF TypeInv
<1>4. channel[s] \in Seq(Event)
  BY DEF TypeInv, WireOK
<1>5. fresh => read[i] = rooms[x]
  <2>1. todo[i] # <<>> /\ Head(todo[i]) = "publish" /\ Tidy(todo[i], Script, scenario)
    BY <1>1 DEF AtStep, TypeInv, ServerOK
  <2>2. Has(i, "publish") /\ ~Has(i, "read")
    BY <2>1, StepsInOrder, TailIsTidy DEF Has
  <2>3. QED
    BY <2>2 DEF ReadInv
<1> HIDE DEF e, fresh, x
<1>6. channel'[s] = IF Subscribed(s) /\ ~Full(s) THEN Append(channel[s], e) ELSE channel[s]
  BY <1>1, <1>2, PublishIs DEF TypeInv
<1>7. /\ Updating' <=> Updating
      /\ Subscribed(s)' <=> Subscribed(s)
      /\ Greeted(s, r)' = Greeted(s, r)
  BY <1>1 DEF Updating, Script, Subscribed, Greeted
<1>8. CASE r # x
  <2>1. ~IsUpdate(e, r)
    BY <1>2, <1>8 DEF IsUpdate
  <2>2. ASSUME NEW k \in Request, Owes(k), job[k].room = r PROVE Owes(k)' /\ job'[k].room = r
    <3>1. Has(k, "publish")' /\ ~Has(k, "apply")'
      BY <1>3, <1>8, <2>2 DEF Did, Owes, Has, Step, x
    <3>2. job'[k] = job[k]
      BY <1>3, <3>1, LeftIsNotDone DEF Did, Has
    <3>3. QED
      BY <2>2, <3>1, <3>2 DEF Owes
  <2>3. Calm(r)' => Calm(r)
    BY <2>2 DEF Calm
  <2>4. r \in doubt[s] => r \in doubt'[s]
    BY <1>1, <1>8
  <2>5. /\ On(channel'[s], r) = {} => On(channel[s], r) = {}
        /\ \A k : LastOn(channel'[s], r, k)
                   => LastOn(channel[s], r, k) /\ channel'[s][k] = channel[s][k]
    <3>1. /\ On(Append(channel[s], e), r) = {} => On(channel[s], r) = {}
          /\ \A k : LastOn(Append(channel[s], e), r, k)
                     => LastOn(channel[s], r, k) /\ Append(channel[s], e)[k] = channel[s][k]
      BY <1>2, <1>4, <2>1, LastAppend
    <3>2. CASE channel'[s] = Append(channel[s], e)
      BY <3>1, <3>2
    <3>3. CASE channel'[s] = channel[s]
      BY <3>3
    <3>4. QED
      BY <1>6, <3>2, <3>3
  <2>6. SUFFICES ASSUME Subscribed(s), Updating, r \notin doubt[s], Calm(r)
                 PROVE  /\ \A k : LastOn(channel'[s], r, k) => Agree(channel'[s][k].state, rooms[r])
                        /\ (stream[s] = "live" /\ On(channel'[s], r) = {})
                             => Agree(Greeted(s, r), rooms[r])
    BY <1>1, <1>7, <2>3, <2>4 DEF AgreesAt
  <2>7. AgreesAt(s, r)
    BY DEF ShowInv
  <2>8. QED
    BY <2>5, <2>6, <2>7 DEF AgreesAt
<1>9. CASE r = x
  <2>1. CASE Subscribed(s) /\ ~Full(s) /\ fresh
    <3>1. channel'[s] = Append(channel[s], e) /\ read[i] = rooms[r]
      BY <1>5, <1>6, <1>9, <2>1
    <3>2. On(channel'[s], r) # {} /\ \A k : LastOn(channel'[s], r, k) => channel'[s][k] = e
      <4>1. IsUpdate(e, r)
        BY <1>2, <1>9 DEF IsUpdate
      <4>2. /\ On(Append(channel[s], e), r) # {}
            /\ \A k : LastOn(Append(channel[s], e), r, k) => Append(channel[s], e)[k] = e
        BY <1>2, <1>4, <4>1, LastAppend
      <4>3. QED
        BY <3>1, <4>2
    <3>3. \A k : LastOn(channel'[s], r, k) => Agree(channel'[s][k].state, rooms'[r])
      BY <1>1, <1>2, <3>1, <3>2, AgreesWithItself
    <3>4. QED
      BY <3>2, <3>3 DEF AgreesAt
  <2>2. CASE Subscribed(s) /\ ~(~Full(s) /\ fresh)
    BY <1>1, <1>9, <2>2 DEF AgreesAt
  <2>3. CASE ~Subscribed(s)
    BY <1>7, <2>3 DEF AgreesAt
  <2>4. QED
    BY <2>1, <2>2, <2>3
<1>10. QED
  BY <1>8, <1>9

\* A full_state that is handled is what the app shows; before the updates it is the same.
LEMMA AgreesAfterGreeting ==
  ASSUME TypeInv, ShowInv, NEW q \in Screen, TakeGreeting(q) PROVE ShowInv'
<1> SUFFICES ASSUME NEW s \in Screen, NEW r \in Room PROVE AgreesAt(s, r)'
  BY DEF ShowInv
<1>1. /\ UNCHANGED <<scenario, rooms, todo, job, stream, channel, doubt>>
      /\ greeting[q] # <<>> /\ greeting' = [greeting EXCEPT ![q] = <<>>]
      /\ shown' = [shown EXCEPT ![q] = Head(greeting[q])]
  BY DEF TakeGreeting, server, history
<1>2. Greeted(s, r)' = Greeted(s, r)
  <2>1. /\ greeting \in [Screen -> {<<>>} \cup Single([Room -> RoomState])]
        /\ shown \in [Screen -> [Room -> RoomState \cup {Unknown}]]
    BY DEF TypeInv, WireOK, AppOK
  <2>2. CASE s = q
    <3>1. greeting'[s] = <<>> /\ shown'[s] = Head(greeting[s]) /\ greeting[s] # <<>>
      BY <1>1, <2>1, <2>2
    <3>2. Head(greeting[s]) = greeting[s][1]
      BY <2>1, <3>1 DEF Single
    <3>3. QED
      BY <3>1, <3>2 DEF Greeted
  <2>3. CASE s # q
    BY <1>1, <2>1, <2>3 DEF Greeted
  <2>4. QED
    BY <2>2, <2>3
<1>3. /\ Updating' <=> Updating
      /\ Subscribed(s)' <=> Subscribed(s)
      /\ Calm(r)' <=> Calm(r)
  BY <1>1 DEF Updating, Script, Subscribed, Calm, Owes, Has
<1>4. AgreesAt(s, r)
  BY DEF ShowInv
<1>5. QED
  BY <1>1, <1>2, <1>3, <1>4 DEF AgreesAt

\* What the screen makes of the room as it is agrees with it.
LEMMA PatchedAgrees ==
  ASSUME NEW old \in RoomState \cup {Unknown}, NEW new \in RoomState, NEW room, Agree(new, room)
  PROVE  Agree(Patched(old, new), room)
<1>1. CASE old # Unknown /\ new.minutes = 0
  <2>1. Patched(old, new) = [new EXCEPT !.minutes = old.minutes]
    BY <1>1 DEF Patched
  <2>2. Patched(old, new).status = new.status /\ room.minutes = 0
    BY <1>1, <2>1 DEF RoomState, Agree
  <2>3. QED
    BY <2>2 DEF Agree
<1>2. CASE ~(old # Unknown /\ new.minutes = 0)
  BY <1>2 DEF Patched
<1>3. QED
  BY <1>1, <1>2

\* An update that is handled is what the app shows, until the next one is.
LEMMA AgreesAfterEvent ==
  ASSUME TypeInv, ShowInv, NEW q \in Screen, TakeEvent(q) PROVE ShowInv'
<1> SUFFICES ASSUME NEW s \in Screen, NEW r \in Room PROVE AgreesAt(s, r)'
  BY DEF ShowInv
<1>1. /\ UNCHANGED <<scenario, rooms, todo, job, stream, greeting, doubt>>
      /\ greeting[q] = <<>> /\ channel[q] # <<>> /\ stream[q] = "live"
      /\ channel' = [channel EXCEPT ![q] = Tail(channel[q])]
  BY DEF TakeEvent, server, history, TypeInv, WireOK
<1>2. /\ channel \in [Screen -> Seq(Event)]
      /\ shown \in [Screen -> [Room -> RoomState \cup {Unknown}]]
      /\ channel[q] \in Seq(Event)
  BY DEF TypeInv, WireOK, AppOK
<1>3. AgreesAt(s, r)
  BY DEF ShowInv
<1>4. /\ Updating' <=> Updating
      /\ Subscribed(s)' <=> Subscribed(s)
      /\ Calm(r)' <=> Calm(r)
  BY <1>1 DEF Updating, Script, Subscribed, Calm, Owes, Has
<1>5. PICK e \in Event : e = Head(channel[q])
  BY <1>1, <1>2, HeadTailProperties
<1>6. IF e.event = "room_update" THEN shown' = [shown EXCEPT ![q][e.room] = Patched(@, e.state)]
                                 ELSE shown' = shown
  BY <1>5 DEF TakeEvent
<1>7. CASE s # q
  <2>1. channel'[s] = channel[s] /\ shown'[s] = shown[s]
    BY <1>1, <1>2, <1>6, <1>7
  <2>2. QED
    BY <1>1, <1>3, <1>4, <2>1, AgreesStands
<1>8. CASE s = q
  <2>1. channel'[s] = Tail(channel[s]) /\ channel[s] # <<>> /\ channel[s] \in Seq(Event)
    BY <1>1, <1>2, <1>8
  <2>2. /\ \A k : LastOn(channel'[s], r, k) =>
                    LastOn(channel[s], r, k + 1) /\ channel'[s][k] = channel[s][k + 1]
        /\ (On(channel'[s], r) = {} /\ IsUpdate(Head(channel[s]), r)) => LastOn(channel[s], r, 1)
        /\ (On(channel'[s], r) = {} /\ ~IsUpdate(Head(channel[s]), r)) => On(channel[s], r) = {}
    BY <2>1, LastTail
  <2>3. channel[s][1] = e /\ Head(channel[s]) = e
    BY <1>5, <1>8, <2>1, HeadTailProperties
  <2>4. Greeted(s, r) = shown[s][r] /\ Greeted(s, r)' = shown'[s][r]
    BY <1>1, <1>8 DEF Greeted
  <2>5. SUFFICES ASSUME Subscribed(s), Updating, r \notin doubt[s], Calm(r)
                 PROVE  /\ \A k : LastOn(channel'[s], r, k) => Agree(channel'[s][k].state, rooms[r])
                        /\ On(channel'[s], r) = {} => Agree(shown'[s][r], rooms[r])
    BY <1>1, <1>4, <2>4 DEF AgreesAt
  <2>6. \A k : LastOn(channel[s], r, k) => Agree(channel[s][k].state, rooms[r])
    BY <1>3, <2>5 DEF AgreesAt
  <2>7. ASSUME On(channel'[s], r) = {} PROVE Agree(shown'[s][r], rooms[r])
    <3>1. CASE IsUpdate(e, r)
      <4>1. Agree(e.state, rooms[r])
        BY <2>2, <2>3, <2>6, <2>7, <3>1
      <4>2. e.state \in RoomState /\ shown[s][r] \in RoomState \cup {Unknown}
        BY <1>2, <3>1 DEF Event, IsUpdate
      <4>3. shown'[s][r] = Patched(shown[s][r], e.state)
        BY <1>2, <1>6, <1>8, <3>1 DEF IsUpdate
      <4>4. QED
        BY <4>1, <4>2, <4>3, PatchedAgrees
    <3>2. CASE ~IsUpdate(e, r)
      <4>1. shown'[s][r] = shown[s][r]
        <5>1. CASE e.event = "room_update"
          <6>1. e.room # r /\ shown' = [shown EXCEPT ![q][e.room] = Patched(@, e.state)]
            BY <1>6, <3>2, <5>1 DEF IsUpdate
          <6>2. QED
            BY <1>2, <1>8, <6>1
        <5>2. CASE e.event # "room_update"
          BY <1>6, <5>2
        <5>3. QED
          BY <5>1, <5>2
      <4>2. On(channel[s], r) = {} /\ stream[s] = "live"
        BY <1>1, <1>8, <2>2, <2>3, <2>7, <3>2
      <4>3. QED
        BY <1>3, <2>4, <2>5, <4>1, <4>2 DEF AgreesAt
    <3>3. QED
      BY <3>1, <3>2
  <2>8. QED
    BY <2>2, <2>6, <2>7
<1>9. QED
  BY <1>7, <1>8

\* The answer of a GET is the room as it is, or the app is in doubt, unless a word comes after it.
LEMMA AgreesAfterLoad ==
  ASSUME TypeInv, ShowInv, NEW q \in Screen, LoadRooms(q) PROVE ShowInv'
<1> SUFFICES ASSUME NEW s \in Screen, NEW r \in Room PROVE AgreesAt(s, r)'
  BY DEF ShowInv
<1> DEFINE last == greeting[q] = <<>> /\ Updates(q, r) = {}
<1>1. /\ UNCHANGED <<scenario, rooms, todo, job, channel, greeting>>
      /\ shown' = [shown EXCEPT ![q] = Head(got[q])]
      /\ UNCHANGED stream \/ EndRefresh(q)
  BY DEF LoadRooms, server
<1>2. /\ stream \in [Screen -> {"none", "connecting", "subscribed", "live", "ended"}]
      /\ shown \in [Screen -> [Room -> RoomState \cup {Unknown}]]
      /\ doubt \in [Screen -> SUBSET Room]
  BY DEF TypeInv, WireOK, AppOK, HistoryOK
<1>3. AgreesAt(s, r)
  BY DEF ShowInv
<1>4. Subscribed(s)' => stream'[s] = stream[s]
  BY <1>1, <1>2 DEF EndRefresh, Subscribed
<1>5. /\ Updating' <=> Updating
      /\ Calm(r)' <=> Calm(r)
  BY <1>1 DEF Updating, Script, Calm, Owes, Has
<1>6. Updates(q, r) = On(channel[q], r)
  BY DEF Updates, On
<1>7. r \in doubt'[q] <=> IF last THEN Subscribed(q) /\ Head(got[q])[r] # rooms[r]
                                  ELSE r \in doubt[q]
  BY <1>2 DEF LoadRooms
<1> HIDE DEF last
<1>8. CASE s # q
  <2>1. shown'[s] = shown[s] /\ doubt'[s] = doubt[s]
    BY <1>1, <1>2, <1>8 DEF LoadRooms
  <2>2. QED
    BY <1>1, <1>3, <1>4, <1>5, <2>1, AgreesStands
<1>9. CASE s = q
  <2>1. shown'[s][r] = Head(got[q])[r]
    BY <1>1, <1>2, <1>9
  <2>2. SUFFICES ASSUME Subscribed(s)', Updating, r \notin doubt'[s], Calm(r)
                 PROVE  /\ \A k : LastOn(channel[s], r, k) => Agree(channel[s][k].state, rooms[r])
                        /\ (stream[s] = "live" /\ On(channel[s], r) = {})
                             => Agree(Greeted(s, r)', rooms[r])
    BY <1>1, <1>4, <1>5 DEF AgreesAt
  <2>3. Subscribed(s)
    BY <1>4, <2>2 DEF Subscribed
  <2>4. CASE last
    <3>1. greeting'[s] = <<>> /\ On(channel[s], r) = {}
      BY <1>1, <1>6, <1>9, <2>4 DEF last
    <3>2. Greeted(s, r)' = rooms[r]
      BY <1>7, <1>9, <2>1, <2>2, <2>3, <2>4, <3>1 DEF Greeted
    <3>3. QED
      BY <3>1, <3>2, AgreesWithItself DEF LastOn
  <2>5. CASE ~last
    <3>1. r \notin doubt[s]
      BY <1>7, <1>9, <2>2, <2>5
    <3>2. On(channel[s], r) = {} => Greeted(s, r)' = Greeted(s, r)
      BY <1>1, <1>6, <1>9, <2>5 DEF last, Greeted
    <3>3. QED
      BY <1>3, <2>2, <2>3, <3>1, <3>2 DEF AgreesAt
  <2>6. QED
    BY <2>4, <2>5
<1>10. QED
  BY <1>8, <1>9

\* A new subscriber has nothing in its channel; the full_state is the rooms as they are.
LEMMA AgreesAfterOpening ==
  ASSUME TypeInv, ShowInv, NEW q \in Screen, Subscribe(q) \/ Greet(q) \/ Disconnect(q)
  PROVE  ShowInv'
<1> SUFFICES ASSUME NEW s \in Screen, NEW r \in Room PROVE AgreesAt(s, r)'
  BY DEF ShowInv
<1>1. UNCHANGED <<scenario, rooms, todo, job, shown>>
  BY DEF Subscribe, Greet, Disconnect, server, app
<1>2. /\ stream \in [Screen -> {"none", "connecting", "subscribed", "live", "ended"}]
      /\ channel \in [Screen -> Seq(Event)] /\ doubt \in [Screen -> SUBSET Room]
      /\ greeting \in [Screen -> {<<>>} \cup Single([Room -> RoomState])]
  BY DEF TypeInv, WireOK, HistoryOK
<1>3. AgreesAt(s, r)
  BY DEF ShowInv
<1>4. /\ Updating' <=> Updating
      /\ Calm(r)' <=> Calm(r)
  BY <1>1 DEF Updating, Script, Calm, Owes, Has
<1>5. CASE s # q
  <2>1. /\ stream'[s] = stream[s] /\ channel'[s] = channel[s] /\ greeting'[s] = greeting[s]
        /\ doubt'[s] = doubt[s]
    BY <1>2, <1>5 DEF Subscribe, Greet, Disconnect, history
  <2>2. QED
    BY <1>1, <1>3, <1>4, <2>1, AgreesStands
<1>6. CASE s = q /\ Subscribe(q)
  <2>1. stream'[s] = "subscribed" /\ channel'[s] = channel[s] /\ stream[s] = "connecting"
    BY <1>2, <1>6 DEF Subscribe
  <2>2. channel[s] = <<>>
    BY <2>1 DEF TypeInv, WireOK, Subscribed
  <2>3. \A k : ~LastOn(channel'[s], r, k)
    BY <2>1, <2>2 DEF LastOn, On
  <2>4. QED
    BY <2>1, <2>3 DEF AgreesAt
<1>7. CASE s = q /\ Greet(q)
  <2>1. CASE stream'[s] = "ended"
    BY <2>1 DEF AgreesAt, Subscribed
  <2>2. CASE stream'[s] # "ended"
    <3>1. /\ stream[s] = "subscribed" /\ channel'[s] = channel[s] /\ doubt' = doubt
          /\ greeting'[s] = <<rooms>>
      BY <1>2, <1>7, <2>2 DEF Greet, history
    <3>2. Greeted(s, r)' = rooms[r]
      BY <3>1 DEF Greeted
    <3>3. Subscribed(s)
      BY <3>1 DEF Subscribed
    <3>4. SUFFICES ASSUME Updating, r \notin doubt[s], Calm(r)
                   PROVE  /\ \A k : LastOn(channel[s], r, k) => Agree(channel[s][k].state, rooms[r])
                          /\ Agree(Greeted(s, r)', rooms[r])
      BY <1>1, <1>4, <3>1 DEF AgreesAt
    <3>5. QED
      BY <1>3, <3>2, <3>3, <3>4, AgreesWithItself DEF AgreesAt
  <2>3. QED
    BY <2>1, <2>2
<1>8. CASE s = q /\ Disconnect(q)
  <2>1. stream'[s] = "ended"
    BY <1>2, <1>8 DEF Disconnect
  <2>2. QED
    BY <2>1 DEF AgreesAt, Subscribed
<1>9. QED
  BY <1>5, <1>6, <1>7, <1>8

\* A request that is new, or that fails, changes no room.
LEMMA AgreesAfterRequest ==
  ASSUME TypeInv, ShowInv, UNCHANGED <<scenario, rooms, stream, channel, greeting, shown, doubt>>,
         \A k \in Request : Owes(k) => todo'[k] = todo[k] /\ job'[k].room = job[k].room
  PROVE  ShowInv'
<1> SUFFICES ASSUME NEW s \in Screen, NEW r \in Room PROVE AgreesAt(s, r)'
  BY DEF ShowInv
<1>1. Calm(r)' => Calm(r)
  BY DEF Calm, Owes, Has
<1>2. AgreesAt(s, r)
  BY DEF ShowInv
<1>3. QED
  BY <1>1, <1>2, AgreesStands

\* Every action keeps ShowInv.
LEMMA StepShow == TypeInv /\ ReadInv /\ ShowInv /\ [Next]_vars => ShowInv'
<1> SUFFICES ASSUME TypeInv, ReadInv, ShowInv, [Next]_vars PROVE ShowInv'
  OBVIOUS
<1>1. ASSUME NEW i \in Request, Log(i) \/ Read(i) \/ Answer(i) PROVE ShowInv'
  <2>1. /\ UNCHANGED <<scenario, rooms, doubt, stream, channel, greeting, shown>> /\ Advance(i)
        /\ AtStep(i, "log") \/ AtStep(i, "read") \/ AtStep(i, "answer")
    BY <1>1 DEF Log, Read, Answer, wire, app, history
  <2>2. QED
    BY <2>1, AgreesAfterStep
<1>2. ASSUME NEW i \in Request, Apply(i) \/ Tell(i) \/ PublishRoom(i) PROVE ShowInv'
  BY <1>2, AgreesAfterApply, AgreesAfterTell, AgreesAfterPublish
<1>3. ASSUME NEW i \in Request, Refuse(i) PROVE ShowInv'
  <2>1. /\ UNCHANGED <<scenario, rooms, stream, channel, greeting, shown, doubt>>
        /\ todo' = [todo EXCEPT ![i] = <<>>] /\ job' = [job EXCEPT ![i] = NoJob]
        /\ AtStep(i, "apply")
    BY <1>3 DEF Refuse, Forget, wire, history
  <2>2. todo[i] # <<>> /\ Head(todo[i]) = "apply" /\ Tidy(todo[i], Script, scenario)
    BY <2>1 DEF AtStep, TypeInv, ServerOK
  <2>3. ~Owes(i)
    BY <2>2, StepsInOrder DEF Owes, Has
  <2>4. \A k \in Request \ {i} : todo'[k] = todo[k] /\ job'[k] = job[k]
    BY <2>1 DEF TypeInv, ServerOK
  <2>5. QED
    BY <2>1, <2>3, <2>4, AgreesAfterRequest
<1>4. ASSUME NEW i \in Request, LoseAnswer(i) PROVE ShowInv'
  <2>1. /\ UNCHANGED <<scenario, rooms, stream, channel, greeting, shown, doubt, todo>>
        /\ job' = [job EXCEPT ![i].from = Elsewhere]
    BY <1>4 DEF LoseAnswer, wire, history
  <2>2. \A k \in Request : job'[k].room = job[k].room
    BY <2>1 DEF TypeInv, ServerOK
  <2>3. QED
    BY <2>1, <2>2, AgreesAfterRequest
<1>5. ASSUME NEW r \in Room, NEW s \in Screen \cup {Elsewhere}, Arrive(r, s),
             UNCHANGED <<scenario, kind, rooms, audit, read>>,
             UNCHANGED <<stream, channel, greeting, shown, doubt>>
      PROVE  ShowInv'
  <2>1. /\ todo[sent'] = <<>>
        /\ \A k \in Request \ {sent'} : todo'[k] = todo[k] /\ job'[k] = job[k]
    BY <1>5, Arrives DEF TypeInv
  <2>2. ~Owes(sent')
    BY <2>1, InRange DEF Owes, Has
  <2>3. QED
    BY <1>5, <2>1, <2>2, AgreesAfterRequest
<1>6. ASSUME NEW r \in Room, Foreign(r) PROVE ShowInv'
  BY <1>5, <1>6 DEF Foreign, wire, app, history
<1>7. ASSUME NEW s \in Screen, NEW r \in Room, Press(s, r) PROVE ShowInv'
  BY <1>5, <1>7 DEF Press, wire, history
<1>8. ASSUME NEW s \in Screen, TakeGreeting(s) \/ TakeEvent(s) \/ LoadRooms(s) PROVE ShowInv'
  BY <1>8, AgreesAfterGreeting, AgreesAfterEvent, AgreesAfterLoad
<1>9. ASSUME NEW s \in Screen, Subscribe(s) \/ Greet(s) \/ Disconnect(s) PROVE ShowInv'
  BY <1>9, AgreesAfterOpening
<1>10. ASSUME NEW s \in Screen, EndRefresh(s),
              UNCHANGED <<scenario, server, channel, greeting, shown, doubt>>
       PROVE  ShowInv'
  <2> SUFFICES ASSUME NEW q \in Screen, NEW r \in Room PROVE AgreesAt(q, r)'
    BY DEF ShowInv
  <2>1. Subscribed(q)' => stream'[q] = stream[q]
    BY <1>10 DEF EndRefresh, Subscribed, TypeInv, WireOK
  <2>2. Calm(r)' <=> Calm(r)
    BY <1>10 DEF Calm, Owes, Has, server
  <2>3. AgreesAt(q, r)
    BY DEF ShowInv
  <2>4. QED
    BY <1>10, <2>1, <2>2, <2>3, AgreesStands DEF server
<1>11. ASSUME NEW s \in Screen, LoadAudit(s) \/ FetchFails(s) PROVE ShowInv'
  BY <1>10, <1>11 DEF LoadAudit, FetchFails, app, history
<1>12. UNCHANGED <<scenario, server, wire, shown, doubt>> => ShowInv'
  BY AgreesAfterRequest DEF server, wire
<1>13. ASSUME NEW s \in Screen, Open(s) \/ Refresh(s) \/ Serve(s) \/ \E r \in Room : TimeOut(s, r)
       PROVE  ShowInv'
  BY <1>12, <1>13 DEF Open, Refresh, Serve, TimeOut, app, history
<1>14. CASE UNCHANGED vars
  BY <1>12, <1>14 DEF vars, app, history
<1>15. QED
  BY <1>1, <1>2, <1>3, <1>4, <1>6, <1>7, <1>8, <1>9, <1>11, <1>13, <1>14 DEF Next, Handle, Stream

\* What the app will show in the end is the last word on its way.
LEMMA ComingIs ==
  ASSUME TypeInv, NEW s \in Screen, NEW r \in Room
  PROVE  IF On(channel[s], r) # {}
           THEN \E k : LastOn(channel[s], r, k) /\ Coming(s, r) = channel[s][k].state
           ELSE Coming(s, r) = Greeted(s, r)
<1>1. Updates(s, r) = On(channel[s], r) /\ channel[s] \in Seq(Event)
  BY DEF Updates, On, TypeInv, WireOK
<1>2. CASE On(channel[s], r) = {}
  BY <1>1, <1>2 DEF Coming, Greeted
<1>3. CASE On(channel[s], r) # {}
  <2>1. PICK k : LastOn(channel[s], r, k)
    BY <1>1, <1>3, LastExists
  <2> DEFINE last == CHOOSE l \in Updates(s, r) : \A j \in Updates(s, r) : j <= l
  <2>2. last \in Updates(s, r) /\ \A j \in Updates(s, r) : j <= last
    BY <1>1, <2>1 DEF LastOn
  <2>3. LastOn(channel[s], r, last)
    BY <1>1, <2>2 DEF LastOn
  <2>4. Coming(s, r) = channel[s][last].state
    BY <1>1, <1>3 DEF Coming
  <2>5. QED
    BY <1>3, <2>3, <2>4
<1>4. QED
  BY <1>2, <1>3

(***************************************************************************)
(* From the full_state on a screen with an open stream comes to show the   *)
(* room as the server has it, whatever changes, drops and refreshes cross  *)
(* the events: unless a handler has yet to publish it, or the last word    *)
(* the app got was dropped, overtaken, or the answer of an old GET.        *)
(***************************************************************************)
THEOREM ScreensAgree == Spec => []LiveScreenAgrees
<1>1. Init => ReadInv /\ ShowInv
  <2> SUFFICES ASSUME Init PROVE ReadInv /\ ShowInv
    OBVIOUS
  <2>1. \A i \in Request : ~Has(i, "publish")
    BY InRange DEF Init, Has
  <2>2. \A s \in Screen : ~Subscribed(s)
    BY DEF Init, Subscribed
  <2>3. QED
    BY <2>1, <2>2 DEF ReadInv, ShowInv, AgreesAt
<1>2. TypeInv /\ ShowInv => LiveScreenAgrees
  <2> SUFFICES ASSUME TypeInv, ShowInv, NEW s \in Screen, NEW r \in Room,
                      stream[s] = "live", Updating, r \notin doubt[s],
                      \A i \in Request : Owes(i) => job[i].room # r
               PROVE  Agree(Coming(s, r), rooms[r])
    BY DEF LiveScreenAgrees
  <2>1. /\ \A k : LastOn(channel[s], r, k) => Agree(channel[s][k].state, rooms[r])
        /\ On(channel[s], r) = {} => Agree(Greeted(s, r), rooms[r])
    BY DEF ShowInv, AgreesAt, Subscribed, Calm
  <2>2. QED
    BY <2>1, ComingIs
<1>3. QED
  BY <1>1, <1>2, InitTypes, StepTypes, StepRead, StepShow, PTL DEF Spec
=============================================================================
