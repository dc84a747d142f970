------------------------ MODULE LiveProgressProofs ------------------------
(***************************************************************************)
(* Theorems about live progress: the workers, the cache and the reader     *)
(* (LiveProgress), and the page that polls the reader (Console), for every *)
(* number of workers, executions, requests and entries of a trace.         *)
(***************************************************************************)
EXTENDS LiveProgress, Console, TLAPS

LEMMA ConstantsType ==
  /\ NumWorkers \in Nat \ {0} /\ Retries \in Nat
  /\ ReadBound \in Nat /\ ReadBound >= NumWorkers
  /\ MaxWindows \in [Workers -> Nat]
BY FleetAssumption, RetryAssumption, ReaderAssumption, WorkerAssumption

(* The keys have different names.                                          *)
LEMMA KeysDistinct ==
  /\ Exec # Trace
  /\ \A i : Live(i) # Exec /\ Live(i) # Trace /\ Live(i)[2] = i
  /\ \A i, j : Live(i) = Live(j) => i = j
<1>1. Exec[1] = "exec" /\ Trace[1] = "trace"
  BY DEF Exec, Trace
<1>2. \A i : Live(i)[1] = "live" /\ Live(i)[2] = i
  BY DEF Live
<1>3. Exec # Trace /\ \A i : Live(i) # Exec /\ Live(i) # Trace
  <2>1. "exec" # "trace" /\ "live" # "exec" /\ "live" # "trace"
    OBVIOUS
  <2> QED BY <1>1, <1>2, <2>1
<1> QED BY <1>2, <1>3

LEMMA KeysOfLive == \A i : Live(i) \in Keys <=> i \in Workers
BY KeysDistinct DEF Keys

LEMMA KeyOfType ==
  ASSUME NEW w \in Workers
  PROVE  /\ KeyOf(w) \in Keys
         /\ at[w] = "exec" <=> KeyOf(w) = Exec
         /\ at[w] = "live" <=> KeyOf(w) = Live(w)
         /\ \A v \in Workers : KeyOf(w) = Live(v) => v = w
BY KeysDistinct DEF KeyOf, Keys

(* What a command of a write does to the cache: it touches its own key,    *)
(* and never empties it.                                                   *)
LEMMA CommandEffect ==
  ASSUME TypeOK, NEW w \in Workers, at[w] \in Writes, Command(w)
  PROVE  /\ DOMAIN value' = Keys
         /\ \A k \in Keys : k # KeyOf(w) =>
              value'[k] = value[k] /\ (k \in expiring' <=> k \in expiring)
         /\ value'[KeyOf(w)] \subseteq Items(KeyOf(w))
         /\ KeyOf(w) = Trace => value[Trace] \subseteq value'[Trace]
         /\ w \in stored => value' = value /\ (Held(KeyOf(w)) => KeyOf(w) \in expiring')
         /\ w \notin stored => value'[KeyOf(w)] # {}
         /\ w \notin stored /\ KeyOf(w) = Trace => <<w, at[w]>> \in value'[Trace]
         /\ expiring' \subseteq {k \in Keys : value'[k] # {}}
<1> DEFINE k == KeyOf(w)
<1>1. k \in Keys /\ (at[w] = "exec" <=> k = Exec) /\ (at[w] = "live" <=> k = Live(w))
  BY KeyOfType
<1>2. /\ DOMAIN value = Keys /\ \A x \in Keys : value[x] \subseteq Items(x)
      /\ expiring \subseteq {x \in Keys : value[x] # {}}
      /\ flushed[w] \in Nat
  BY DEF TypeOK, Held
<1>3. CASE w \in stored
  <2>1. value' = value /\ expiring' = IF value[k] # {} THEN expiring \cup {k} ELSE expiring
    BY <1>3 DEF Command, Refresh, Expire, Held
  <2> HIDE DEF k
  <2>2. /\ \A x \in Keys : x # k => (x \in expiring' <=> x \in expiring)
        /\ expiring' \subseteq {x \in Keys : value[x] # {}}
        /\ value[k] # {} => k \in expiring'
    BY <1>1, <1>2, <2>1
  <2> QED BY <1>1, <1>2, <1>3, <2>1, <2>2 DEF k, Held
<1>4. CASE w \notin stored
  <2>1. Store(w) BY <1>4 DEF Command
  <2>2. \E v : /\ v # {} /\ v \subseteq Items(k)
               /\ value' = [value EXCEPT ![k] = v]
               /\ expiring' = expiring \ {k} \/ expiring' = expiring
               /\ k = Trace => value[Trace] \subseteq v /\ <<w, at[w]>> \in v
    <3>1. CASE at[w] = "exec"
      <4>1. value' = [value EXCEPT ![Exec] = {NumWorkers}] /\ expiring' = expiring \ {Exec}
        BY <2>1, <3>1 DEF Store, Set
      <4> QED BY <4>1, <3>1, <1>1, KeysDistinct DEF Items
    <3>2. CASE at[w] = "live"
      <4>1. /\ value' = [value EXCEPT ![Live(w)] = {<<w, flushed[w]>>}]
            /\ expiring' = expiring \ {Live(w)}
        BY <2>1, <3>2 DEF Store, Set
      <4>2. Items(Live(w)) = {w} \X Nat
        BY KeysDistinct DEF Items
      <4>3. {<<w, flushed[w]>>} \subseteq Items(Live(w))
        BY <4>2, <1>2
      <4> DEFINE v == {<<w, flushed[w]>>}
      <4>4. /\ k = Live(w) /\ k # Trace /\ v # {} /\ v \subseteq Items(k)
            /\ value' = [value EXCEPT ![k] = v] /\ expiring' = expiring \ {k}
        BY <4>1, <4>3, <3>2, <1>1, KeysDistinct
      <4> HIDE DEF v, k
      <4> QED BY <4>4
    <3>3. CASE at[w] \notin {"exec", "live"}
      <4>1. k = Trace /\ at[w] \in TraceTags
        BY <3>3 DEF KeyOf, Writes
      <4>2. /\ value' = [value EXCEPT ![Trace] = value[Trace] \cup {<<w, at[w]>>}]
            /\ expiring' = expiring
        BY <2>1, <3>3, <1>1, <1>2, <4>1 DEF Store, Push
      <4>3. Items(Trace) = Workers \X TraceTags
        BY KeysDistinct DEF Items
      <4>4. value[Trace] \cup {<<w, at[w]>>} \subseteq Items(Trace)
        BY <4>3, <4>1, <1>1, <1>2
      <4> QED BY <4>1, <4>2, <4>4
    <3> QED BY <3>1, <3>2, <3>3
  <2>3. PICK v : /\ v # {} /\ v \subseteq Items(k)
                 /\ value' = [value EXCEPT ![k] = v]
                 /\ expiring' = expiring \ {k} \/ expiring' = expiring
                 /\ k = Trace => value[Trace] \subseteq v /\ <<w, at[w]>> \in v
    BY <2>2
  <2> HIDE DEF k
  <2>4. value'[k] = v /\ DOMAIN value' = Keys /\ \A x \in Keys : x # k => value'[x] = value[x]
    BY <1>1, <1>2, <2>3
  <2>5. expiring' \subseteq {x \in Keys : value'[x] # {}}
    BY <1>2, <2>3, <2>4
  <2> QED BY <1>1, <1>4, <2>3, <2>4, <2>5 DEF k
<1> QED BY <1>3, <1>4

-----------------------------------------------------------------------------
(* TypeOK in two parts, that of the writers and that of the reader.        *)
WritersTypeOK ==
  /\ DOMAIN value = Keys
  /\ \A k \in Keys : value[k] \subseteq Items(k)
  /\ expiring \subseteq {k \in Keys : Held(k)}
  /\ at \in [Workers -> Writes \cup {"connect", "load", "ended"}]
  /\ stored \subseteq {w \in Workers : at[w] \in Writes}
  /\ flushed \in [Workers -> Nat]
  /\ failed \subseteq Workers \X Writes

LEMMA AfterType ==
  ASSUME NEW w \in Workers
  PROVE  After(w) \in Writes \cup {"load", "ended"}
BY DEF After, Writes, TraceTags

LEMMA WorkerTypeStep ==
  ASSUME TypeOK, NEW w \in Workers, WorkerStep(w)
  PROVE  WritersTypeOK'
<1> USE DEF TypeOK
<1>1. ASSUME UNCHANGED cacheVars
      PROVE  /\ DOMAIN value' = Keys
             /\ \A k \in Keys : value'[k] \subseteq Items(k)
             /\ expiring' \subseteq {k \in Keys : Held(k)'}
  BY <1>1 DEF cacheVars, Held
<1>2. ASSUME at[w] \in Writes, Command(w)
      PROVE  /\ DOMAIN value' = Keys
             /\ \A k \in Keys : value'[k] \subseteq Items(k)
             /\ expiring' \subseteq {k \in Keys : Held(k)'}
  BY <1>2, CommandEffect, KeyOfType DEF Held
<1>3. ASSUME NEW next \in Writes \cup {"connect", "load", "ended"},
             at' = [at EXCEPT ![w] = next], stored' = stored \ {w}
      PROVE  /\ at' \in [Workers -> Writes \cup {"connect", "load", "ended"}]
             /\ stored' \subseteq {v \in Workers : at'[v] \in Writes}
  BY <1>3
<1>4. CASE CreateClients(w)
  <2>1. PICK next \in {"exec", "ended"} : at' = [at EXCEPT ![w] = next]
    BY <1>4 DEF CreateClients
  <2>2. stored' = stored \ {w}
    BY <1>4 DEF CreateClients, Writes, TraceTags
  <2> QED BY <1>1, <1>3, <1>4, <2>1, <2>2 DEF CreateClients, WritersTypeOK, Writes
<1>5. CASE Stored(w)
  BY <1>2, <1>5 DEF Stored, WritersTypeOK
<1>6. CASE Refreshed(w)
  BY <1>2, <1>3, <1>6, AfterType DEF Refreshed, WritersTypeOK
<1>7. CASE WriteFails(w)
  <2>1. at[w] \in Writes /\ (Command(w) \/ UNCHANGED cacheVars)
    BY <1>7 DEF WriteFails
  <2>2. PICK next \in {After(w), "ended"} : at' = [at EXCEPT ![w] = next]
    BY <1>7 DEF WriteFails
  <2>3. next \in Writes \cup {"connect", "load", "ended"}
    BY AfterType
  <2>4. failed' \subseteq Workers \X Writes
    BY <1>7, <2>1 DEF WriteFails
  <2>5. stored' = stored \ {w} /\ flushed' = flushed
    BY <1>7 DEF WriteFails
  <2>6. /\ DOMAIN value' = Keys
        /\ \A k \in Keys : value'[k] \subseteq Items(k)
        /\ expiring' \subseteq {k \in Keys : Held(k)'}
    BY <1>1, <1>2, <2>1
  <2>7. /\ at' \in [Workers -> Writes \cup {"connect", "load", "ended"}]
        /\ stored' \subseteq {v \in Workers : at'[v] \in Writes}
    BY <1>3, <2>2, <2>3, <2>5
  <2> QED BY <2>4, <2>5, <2>6, <2>7 DEF WritersTypeOK
<1>8. CASE Flush(w)
  <2>1. flushed' \in [Workers -> Nat]
    BY <1>8 DEF Flush
  <2>2. stored' = stored \ {w} /\ at' = [at EXCEPT ![w] = "live"] /\ UNCHANGED cacheVars /\ failed' = failed
    BY <1>8 DEF Flush, Writes, TraceTags
  <2> QED BY <1>1, <1>3, <2>1, <2>2 DEF WritersTypeOK, Writes
<1>9. CASE LoadOver(w)
  <2>1. PICK next \in {"completed", "ended"} : at' = [at EXCEPT ![w] = next]
    BY <1>9 DEF LoadOver
  <2>2. stored' = stored \ {w} /\ flushed' = flushed /\ failed' = failed /\ UNCHANGED cacheVars
    BY <1>9 DEF LoadOver, Writes, TraceTags
  <2> QED BY <1>1, <1>3, <2>1, <2>2 DEF WritersTypeOK, Writes, TraceTags
<1> QED BY <1>4, <1>5, <1>6, <1>7, <1>8, <1>9 DEF WorkerStep

LEMMA LapseTypeStep ==
  ASSUME TypeOK, Lapse, UNCHANGED workerVars
  PROVE  WritersTypeOK'
<1>1. PICK k \in Keys : Vanish(k)
  BY DEF Lapse, LiveKeyLapses, ExecutionKeyLapses, Keys
<1>2. /\ value' = [value EXCEPT ![k] = {}] /\ expiring' = expiring \ {k}
      /\ at' = at /\ stored' = stored /\ flushed' = flushed /\ failed' = failed
  BY <1>1 DEF Vanish, workerVars
<1>3. DOMAIN value' = Keys /\ value'[k] = {} /\ \A x \in Keys : x # k => value'[x] = value[x]
  BY <1>2 DEF TypeOK
<1>4. expiring' \subseteq {x \in Keys : value'[x] # {}}
  BY <1>2, <1>3 DEF TypeOK, Held
<1> QED BY <1>2, <1>3, <1>4 DEF TypeOK, WritersTypeOK, Held

ReaderTypeOK ==
  /\ sock \in {"none", "open", "reset"}
  /\ stage \in {"idle", "acquire", "await", "retry", "raised"}
  /\ failures \in 0..Retries
  /\ reading \in Sections
  /\ index \in Indices
  /\ lambdaCount \in {0, NumWorkers}
  /\ DOMAIN snapshots = Indices

LEMMA TypeParts == TypeOK <=> WritersTypeOK /\ ReaderTypeOK
BY DEF TypeOK, WritersTypeOK, ReaderTypeOK

LEMMA Zeros == 0 \in 0..Retries /\ 0 \in Indices
BY ConstantsType DEF Indices

LEMMA ReaderTypeStep ==
  ASSUME TypeOK, ReaderStep
  PROVE  ReaderTypeOK'
<1> USE DEF TypeOK
<1>1. CASE ClientStep /\ UNCHANGED readerVars
  <2>1. reading' = reading /\ index' = index /\ lambdaCount' = lambdaCount /\ snapshots' = snapshots
    BY <1>1 DEF readerVars
  <2>2. CASE Send
    BY <2>1, <2>2 DEF Send, SendOn, ReaderTypeOK
  <2>3. CASE GetConnectionFails
    BY <2>1, <2>3 DEF GetConnectionFails, Disconnect, ReaderTypeOK
  <2>4. CASE Resend
    BY <2>1, <2>4 DEF Resend, SendOn, ReaderTypeOK
  <2>5. CASE CommandFails
    <3>1. failures' \in 0..Retries
      BY <2>5, ConstantsType DEF CommandFails
    <3> QED BY <2>1, <2>5, <3>1 DEF CommandFails, Disconnect, ReaderTypeOK
  <2> QED BY <1>1, <2>2, <2>3, <2>4, <2>5 DEF ClientStep
<1>2. CASE ServerStep /\ UNCHANGED readerVars
  BY <1>2 DEF ServerStep, ServerAnswers, ServerCloses, readerVars, ReaderTypeOK
<1>3. ASSUME Forget, Done \/ Execute(Exec) \/ UNCHANGED clientVars,
             sock' \in {"none", sock}, reading' \in Sections
      PROVE  ReaderTypeOK'
  <2>1. stage' \in {"idle", "acquire", stage} /\ failures' \in {0, failures}
    BY <1>3 DEF Done, Execute, clientVars
  <2>2. index' = 0 /\ lambdaCount' = 0 /\ DOMAIN snapshots' = Indices
    BY <1>3 DEF Forget, NoSnapshots
  <2> QED BY <1>3, <2>1, <2>2, Zeros DEF ReaderTypeOK
<1>4. CASE Invoke
  BY <1>3, <1>4 DEF Invoke, socketVars, Sections
<1>5. CASE Return
  BY <1>3, <1>5 DEF Return, clientVars, socketVars, Sections
<1>6. CASE Raise
  BY <1>3, <1>6 DEF Raise, socketVars, Sections
<1>7. CASE Killed
  BY <1>3, <1>7 DEF Killed, Disconnect, Sections
<1>8. CASE ReadExec
  BY <1>8, Zeros DEF ReadExec, TakeReply, Execute, ReaderTypeOK, Sections
<1>9. CASE ReadLive
  <2>1. stage' = "acquire" /\ failures' = 0 /\ sock' = sock /\ lambdaCount' = lambdaCount
    BY <1>9 DEF ReadLive, TakeReply, Execute
  <2>2. DOMAIN snapshots' = Indices
    BY <1>9 DEF ReadLive
  <2>3. reading' \in {"live", "trace"} /\ index' \in Indices
    <3>1. CASE Breaks(ValueRead) \/ LastIndex
      BY <3>1, <1>9 DEF ReadLive
    <3>2. CASE ~(Breaks(ValueRead) \/ LastIndex)
      <4>1. index' = index + 1 /\ reading' = "live" /\ index # ReadBound - 1
        BY <3>2, <1>9 DEF ReadLive, LastIndex
      <4> QED BY <4>1, ConstantsType DEF Indices
    <3> QED BY <3>1, <3>2
  <2> QED BY <2>1, <2>2, <2>3, Zeros DEF ReaderTypeOK, Sections
<1>10. CASE ReadTrace
  BY <1>10, Zeros DEF ReadTrace, TakeReply, Done, ReaderTypeOK, Sections
<1> QED BY <1>1, <1>2, <1>4, <1>5, <1>6, <1>7, <1>8, <1>9, <1>10 DEF ReaderStep, HandlerStep

LEMMA TypeInit == Init => TypeOK
BY ConstantsType, Zeros
DEF Init, InitCache, InitWorkers, InitClient, InitReader, TypeOK, NoSnapshots, Sections, Held

LEMMA TypeStep == TypeOK /\ [Next]_vars => TypeOK'
<1> SUFFICES ASSUME TypeOK, [Next]_vars PROVE TypeOK'
  OBVIOUS
<1>1. CASE CacheStep
  <2>1. ReaderTypeOK'
    BY <1>1, TypeParts DEF CacheStep, clientVars, socketVars, readerVars, ReaderTypeOK
  <2>2. WritersTypeOK'
    BY <1>1, WorkerTypeStep, LapseTypeStep DEF CacheStep
  <2> QED BY <2>1, <2>2 DEF TypeOK, WritersTypeOK, ReaderTypeOK
<1>2. CASE CallStep
  <2>1. ReaderTypeOK'
    BY <1>2, ReaderTypeStep DEF CallStep
  <2>2. WritersTypeOK'
    BY <1>2, TypeParts DEF CallStep, cacheVars, workerVars, WritersTypeOK, Held
  <2> QED BY <2>1, <2>2 DEF TypeOK, WritersTypeOK, ReaderTypeOK
<1>3. CASE UNCHANGED vars
  BY <1>3 DEF vars, cacheVars, workerVars, clientVars, socketVars, readerVars, TypeOK, Held
<1> QED BY <1>1, <1>2, <1>3 DEF Next

(* Every reachable state of workers, cache and reader is well typed.       *)
THEOREM TypeCorrect == Spec => []TypeOK
BY TypeInit, TypeStep, PTL DEF Spec

-----------------------------------------------------------------------------
(* What the reply to a command on key k may be.                            *)
Expected(k, v) ==
  \A i \in Indices : k = Live(i) =>
    /\ \A s \in v : s \in seen /\ s[1] = i
    /\ i \in throughout => v # {}

(* There is at most one command or reply on the connection, that of the    *)
(* command that is awaited, and nothing when none is.                      *)
ReplyExpected ==
  IF stage = "await"
    THEN \/ unanswered \in {<<>>, <<asked>>} /\ replies = <<>>
         \/ /\ unanswered = <<>>
            /\ \E v : replies = <<[key |-> asked, value |-> v]>> /\ Expected(asked, v)
    ELSE unanswered = <<>> /\ replies = <<>>

(* The command is the one that the handler waits for.                      *)
InSection ==
  /\ stage = "idle" <=> reading \in {"idle", "answered"}
  /\ reading = "exec" => asked = Exec /\ index = 0
  /\ reading = "live" => asked = Live(index)
  /\ reading = "trace" => asked = Trace

Observed ==
  /\ reading # "idle" => InCache \subseteq seen
  /\ throughout \subseteq Reporting
  /\ reading = "idle" => snapshots = NoSnapshots /\ throughout = {}

CountedSoFar ==
  \A w \in throughout :
    w < index \/ reading \in {"trace", "answered"} => snapshots[w] # {}

CallInv ==
  /\ TypeOK
  /\ ReplyExpected /\ InSection /\ Observed
  /\ AnswersAreFresh /\ CountedSoFar

LEMMA WorkersAreIndices == Workers \subseteq Indices
BY ConstantsType DEF Workers, Indices

(* A step that leaves the handler where it is.                             *)
LEMMA HandlerWaits ==
  ASSUME CallInv, Observe, UNCHANGED readerVars, asked' = asked,
         stage' = "idle" <=> stage = "idle"
  PROVE  /\ InSection' /\ Observed' /\ AnswersAreFresh' /\ CountedSoFar'
         /\ reading # "idle" => seen \subseteq seen'
         /\ throughout' \subseteq throughout
<1>1. reading' = reading /\ index' = index /\ snapshots' = snapshots
  BY DEF readerVars
<1>2. CASE reading = "idle"
  <2>1. seen' = {} /\ throughout' = {} /\ snapshots' = NoSnapshots
    BY <1>1, <1>2 DEF Observe, CallInv, Observed
  <2> QED
    BY <1>1, <1>2, <2>1
    DEF CallInv, InSection, Observed, AnswersAreFresh, CountedSoFar, NoSnapshots
<1>3. CASE reading # "idle"
  <2>1. seen' = seen \cup InCache' /\ throughout' = throughout \cap Reporting'
    BY <1>1, <1>3 DEF Observe
  <2> QED
    BY <1>1, <1>3, <2>1 DEF CallInv, InSection, Observed, AnswersAreFresh, CountedSoFar
<1> QED BY <1>2, <1>3

(* A reply that is there remains the expected one.                         *)
LEMMA ReplyKept ==
  ASSUME CallInv, UNCHANGED <<unanswered, replies, stage, asked>>,
         reading # "idle" => seen \subseteq seen', throughout' \subseteq throughout
  PROVE  ReplyExpected'
<1>1. CASE stage = "await"
  <2>1. reading # "idle"
    BY <1>1 DEF CallInv, InSection
  <2>2. CASE unanswered \in {<<>>, <<asked>>} /\ replies = <<>>
    BY <1>1, <2>2 DEF ReplyExpected
  <2>3. CASE unanswered = <<>> /\ \E v : replies = <<[key |-> asked, value |-> v]>> /\ Expected(asked, v)
    <3>1. PICK v : replies = <<[key |-> asked, value |-> v]>> /\ Expected(asked, v)
      BY <2>3
    <3>2. Expected(asked, v)'
      BY <2>1, <3>1 DEF Expected
    <3> QED BY <1>1, <2>3, <3>1, <3>2 DEF ReplyExpected
  <2> QED BY <1>1, <2>2, <2>3 DEF CallInv, ReplyExpected
<1>2. CASE stage # "await"
  BY <1>2 DEF CallInv, ReplyExpected
<1> QED BY <1>1, <1>2

LEMMA CacheStepKeeps ==
  ASSUME CallInv, TypeOK', CacheStep \/ UNCHANGED vars
  PROVE  CallInv'
<1>1. CASE CacheStep
  <2>1. UNCHANGED <<unanswered, replies, stage, asked>> /\ Observe /\ UNCHANGED readerVars
    BY <1>1 DEF CacheStep, clientVars, socketVars
  <2>2. /\ InSection' /\ Observed' /\ AnswersAreFresh' /\ CountedSoFar'
        /\ reading # "idle" => seen \subseteq seen'
        /\ throughout' \subseteq throughout
    BY <2>1, HandlerWaits
  <2>3. ReplyExpected'
    BY <2>1, <2>2, ReplyKept
  <2> QED BY <2>2, <2>3 DEF CallInv
<1>2. CASE UNCHANGED vars
  BY <1>2
  DEF vars, cacheVars, clientVars, socketVars, readerVars, CallInv, ReplyExpected, Expected, InSection,
      Observed, AnswersAreFresh, CountedSoFar, InCache, Reporting, Held
<1> QED BY <1>1, <1>2

LEMMA ClientStepKeeps ==
  ASSUME CallInv, TypeOK', ClientStep, UNCHANGED readerVars, Observe
  PROVE  CallInv'
<1>1. ASSUME stage # "idle", stage' # "idle", asked' = asked, ReplyExpected' PROVE CallInv'
  BY <1>1, HandlerWaits DEF CallInv
<1>2. CASE Send
  <2>1. unanswered = <<>> /\ replies = <<>>
    BY <1>2 DEF Send, CallInv, ReplyExpected
  <2>2. unanswered' = <<asked>> /\ replies' = <<>> /\ stage' = "await" /\ asked' = asked
    BY <1>2, <2>1 DEF Send, SendOn
  <2> QED BY <1>1, <1>2, <2>2 DEF ReplyExpected, Send
<1>3. CASE GetConnectionFails
  BY <1>1, <1>3 DEF GetConnectionFails, Disconnect, ReplyExpected
<1>4. CASE Resend
  <2>1. unanswered = <<>> /\ replies = <<>>
    BY <1>4 DEF Resend, CallInv, ReplyExpected
  <2>2. unanswered' = <<asked>> /\ replies' = <<>> /\ stage' = "await" /\ asked' = asked
    BY <1>4, <2>1 DEF Resend, SendOn
  <2> QED BY <1>1, <1>4, <2>2 DEF ReplyExpected, Resend
<1>5. CASE CommandFails
  BY <1>1, <1>5 DEF CommandFails, Disconnect, ReplyExpected
<1> QED BY <1>2, <1>3, <1>4, <1>5 DEF ClientStep

(* What the server answers is in the cache, and so has been seen.          *)
LEMMA ValueExpected ==
  ASSUME CallInv, reading' # "idle", UNCHANGED <<cacheVars, reading, asked>>, Observe
  PROVE  Expected(asked, ValueAt(asked))'
<1>1. seen' = seen \cup InCache /\ throughout' \subseteq throughout
  BY DEF Observe, InCache, cacheVars
<1>2. ASSUME NEW i \in Indices, asked = Live(i)
      PROVE  /\ \A s \in ValueAt(asked) : s \in seen' /\ s[1] = i
             /\ i \in throughout' => ValueAt(asked) # {}
  <2>1. CASE i \in Workers
    <3>1. Live(i) \in Keys /\ ValueAt(asked) = value[Live(i)]
      BY <1>2, <2>1, KeysOfLive DEF ValueAt
    <3>2. value[Live(i)] \subseteq {i} \X Nat
      BY <3>1, KeysDistinct DEF CallInv, TypeOK, Items
    <3>3. value[Live(i)] \subseteq InCache
      BY <2>1 DEF InCache
    <3>4. i \in throughout' => value[Live(i)] # {}
      BY <1>1 DEF CallInv, Observed, Reporting, Held
    <3> QED BY <1>1, <3>1, <3>2, <3>3, <3>4
  <2>2. CASE i \notin Workers
    BY <1>1, <1>2, <2>2, KeysOfLive DEF ValueAt, CallInv, Observed, Reporting
  <2> QED BY <2>1, <2>2
<1>3. ValueAt(asked)' = ValueAt(asked)
  BY DEF ValueAt, cacheVars
<1> QED BY <1>2, <1>3 DEF Expected

LEMMA ServerStepKeeps ==
  ASSUME CallInv, TypeOK', ServerStep, UNCHANGED <<cacheVars, readerVars>>, Observe
  PROVE  CallInv'
<1>1. stage' = stage /\ asked' = asked /\ reading' = reading
  BY DEF ServerStep, ServerAnswers, ServerCloses, readerVars
<1>2. /\ InSection' /\ Observed' /\ AnswersAreFresh' /\ CountedSoFar'
      /\ reading # "idle" => seen \subseteq seen'
      /\ throughout' \subseteq throughout
  BY <1>1, HandlerWaits
<1>3. CASE ServerAnswers
  <2>1. stage = "await" /\ unanswered = <<asked>> /\ replies = <<>>
    BY <1>3 DEF ServerAnswers, CallInv, ReplyExpected
  <2>2. reading # "idle"
    BY <2>1 DEF CallInv, InSection
  <2>3. unanswered' = <<>> /\ replies' = <<[key |-> asked, value |-> ValueAt(asked)]>>
    BY <1>3, <2>1 DEF ServerAnswers, Reply
  <2>4. Expected(asked, ValueAt(asked))'
    BY <1>1, <2>2, ValueExpected
  <2>5. ValueAt(asked)' = ValueAt(asked)
    BY <1>1 DEF ValueAt, cacheVars
  <2>6. ReplyExpected'
    BY <1>1, <2>1, <2>3, <2>4, <2>5 DEF ReplyExpected
  <2> QED BY <1>2, <2>6 DEF CallInv
<1>4. CASE ServerCloses
  <2>1. unanswered' = <<>> /\ replies' = replies
    BY <1>4 DEF ServerCloses
  <2>2. ReplyExpected'
    <3>1. CASE stage = "await"
      <4>1. reading # "idle"
        BY <3>1 DEF CallInv, InSection
      <4>2. CASE replies = <<>>
        BY <1>1, <2>1, <3>1, <4>2 DEF ReplyExpected
      <4>3. CASE replies # <<>>
        <5>1. PICK v : replies = <<[key |-> asked, value |-> v]>> /\ Expected(asked, v)
          BY <3>1, <4>3 DEF CallInv, ReplyExpected
        <5>2. Expected(asked, v)'
          BY <1>1, <1>2, <4>1, <5>1 DEF Expected
        <5> QED BY <1>1, <2>1, <3>1, <5>1, <5>2 DEF ReplyExpected
      <4> QED BY <4>2, <4>3
    <3>2. CASE stage # "await"
      BY <1>1, <2>1, <3>2 DEF CallInv, ReplyExpected
    <3> QED BY <3>1, <3>2
  <2> QED BY <1>2, <2>2 DEF CallInv
<1> QED BY <1>3, <1>4 DEF ServerStep

LEMMA CallOver ==
  ASSUME TypeOK', reading' = "idle", snapshots' = NoSnapshots, stage' = "idle",
         unanswered' = <<>>, replies' = <<>>, Observe
  PROVE  CallInv'
<1>1. seen' = {} /\ throughout' = {}
  BY DEF Observe
<1> QED
  BY <1>1
  DEF CallInv, ReplyExpected, InSection, Observed, AnswersAreFresh, CountedSoFar, NoSnapshots

(* The reply that a section of the handler takes.                          *)
LEMMA ReplyTaken ==
  ASSUME CallInv, Answered
  PROVE  /\ unanswered = <<>> /\ Tail(replies) = <<>>
         /\ Expected(asked, ValueRead)
<1>1. PICK v : replies = <<[key |-> asked, value |-> v]>> /\ Expected(asked, v)
  BY DEF CallInv, ReplyExpected, Answered
<1>2. unanswered = <<>>
  BY DEF CallInv, ReplyExpected, Answered
<1>3. ValueRead = v /\ Tail(replies) = <<>>
  BY <1>1 DEF ValueRead
<1> QED BY <1>1, <1>2, <1>3

LEMMA InvokeKeeps ==
  ASSUME CallInv, TypeOK', Invoke, UNCHANGED cacheVars, Observe
  PROVE  CallInv'
<1>1. /\ reading' = "exec" /\ stage' = "acquire" /\ asked' = Exec /\ index' = 0
      /\ unanswered' = <<>> /\ replies' = <<>> /\ snapshots' = NoSnapshots
  BY DEF Invoke, Forget, Execute, socketVars, CallInv, InSection, ReplyExpected
<1>2. seen' = seen \cup InCache' /\ throughout' = Reporting'
  BY <1>1 DEF Observe, Invoke
<1>3. \A w \in Workers : ~(w < 0)
  BY ConstantsType DEF Workers
<1>4. CountedSoFar'
  BY <1>1, <1>2, <1>3 DEF CountedSoFar, Reporting
<1>5. ReplyExpected' /\ InSection' /\ Observed'
  BY <1>1, <1>2 DEF ReplyExpected, InSection, Observed
<1>6. AnswersAreFresh'
  BY <1>1 DEF AnswersAreFresh, NoSnapshots
<1> QED BY <1>4, <1>5, <1>6 DEF CallInv

LEMMA ReadExecKeeps ==
  ASSUME CallInv, TypeOK', ReadExec, Observe
  PROVE  CallInv'
<1>1. unanswered' = <<>> /\ replies' = <<>>
  BY ReplyTaken DEF ReadExec, TakeReply
<1>2. /\ reading = "exec" /\ reading' = "live" /\ stage' = "acquire" /\ asked' = Live(0)
      /\ index' = 0 /\ snapshots' = snapshots
  BY DEF ReadExec, Execute, CallInv, InSection
<1>3. seen' = seen \cup InCache' /\ throughout' = throughout \cap Reporting'
  BY <1>2 DEF Observe
<1>4. \A w \in Workers : ~(w < 0)
  BY ConstantsType DEF Workers
<1>5. CountedSoFar'
  BY <1>2, <1>3, <1>4 DEF CountedSoFar, Reporting
<1>6. ReplyExpected' /\ InSection' /\ Observed'
  BY <1>1, <1>2, <1>3 DEF ReplyExpected, InSection, Observed
<1>7. AnswersAreFresh'
  BY <1>2, <1>3 DEF AnswersAreFresh, CallInv
<1> QED BY <1>5, <1>6, <1>7 DEF CallInv

LEMMA ReadLiveKeeps ==
  ASSUME CallInv, TypeOK', ReadLive, Observe
  PROVE  CallInv'
<1>1. unanswered' = <<>> /\ replies' = <<>> /\ Expected(asked, ValueRead)
  BY ReplyTaken DEF ReadLive, TakeReply
<1>2. /\ reading = "live" /\ reading' \in {"live", "trace"} /\ stage' = "acquire"
      /\ index \in Indices /\ asked = Live(index) /\ DOMAIN snapshots = Indices
      /\ snapshots' = [snapshots EXCEPT ![index] = ValueRead]
  BY DEF ReadLive, Execute, CallInv, InSection, TypeOK
<1>3. seen' = seen \cup InCache' /\ throughout' = throughout \cap Reporting'
  BY <1>2 DEF Observe
<1>4. /\ \A s \in ValueRead : s \in seen /\ s[1] = index
      /\ index \in throughout => ValueRead # {}
  BY <1>1, <1>2 DEF Expected
<1>5. snapshots'[index] = ValueRead /\ \A i \in Indices : i # index => snapshots'[i] = snapshots[i]
  BY <1>2
<1>6. AnswersAreFresh'
  BY <1>3, <1>4, <1>5 DEF AnswersAreFresh, CallInv
<1>7. throughout \subseteq Workers /\ Workers \subseteq Indices
  BY WorkersAreIndices DEF CallInv, Observed, Reporting
<1>8. \A w \in throughout' : w <= index => snapshots'[w] # {}
  <2> SUFFICES ASSUME NEW w \in throughout', w <= index PROVE snapshots'[w] # {}
    OBVIOUS
  <2>1. w \in throughout /\ w \in Indices /\ w \in Int /\ index \in Int
    BY <1>2, <1>3, <1>7 DEF Indices
  <2>2. CASE w = index BY <1>4, <1>5, <2>1, <2>2
  <2>3. CASE w < index BY <1>2, <1>5, <2>1, <2>3 DEF CallInv, CountedSoFar
  <2> QED BY <2>1, <2>2, <2>3
<1>9. CountedSoFar' /\ InSection'
  <2>1. CASE Breaks(ValueRead) \/ LastIndex
    <3>1. reading' = "trace" /\ asked' = Trace /\ index' = index
      BY <2>1 DEF ReadLive, Execute
    <3>2. \A w \in throughout' : w <= index
      <4> SUFFICES ASSUME NEW w \in throughout' PROVE w <= index
        OBVIOUS
      <4>1. w \in Workers
        BY <1>3, <1>7
      <4>2. CASE Breaks(ValueRead)
        <5>1. index >= NumWorkers
          BY <4>2, ConstantsType DEF Breaks, CallInv, TypeOK
        <5> QED BY <4>1, <5>1, <1>2, ConstantsType DEF Workers, Indices
      <4>3. CASE LastIndex
        BY <4>1, <4>3, ConstantsType DEF LastIndex, Workers
      <4> QED BY <2>1, <4>2, <4>3
    <3>3. CountedSoFar'
      BY <1>8, <3>2 DEF CountedSoFar
    <3> QED BY <1>2, <3>1, <3>3 DEF InSection
  <2>2. CASE ~(Breaks(ValueRead) \/ LastIndex)
    <3>1. reading' = "live" /\ asked' = Live(index + 1) /\ index' = index + 1
      BY <2>2, <1>2 DEF ReadLive, Execute
    <3>2. \A w \in throughout' : w < index + 1 => w <= index
      BY <1>2, <1>3, <1>7 DEF Workers, Indices
    <3>3. CountedSoFar'
      BY <1>8, <3>1, <3>2 DEF CountedSoFar
    <3> QED BY <1>2, <3>1, <3>3 DEF InSection
  <2> QED BY <2>1, <2>2
<1>10. ReplyExpected' /\ Observed'
  BY <1>1, <1>2, <1>3 DEF ReplyExpected, Observed
<1> QED BY <1>6, <1>9, <1>10 DEF CallInv

LEMMA ReadTraceKeeps ==
  ASSUME CallInv, TypeOK', ReadTrace, Observe
  PROVE  CallInv'
<1>1. unanswered' = <<>> /\ replies' = <<>>
  BY ReplyTaken DEF ReadTrace, TakeReply
<1>2. /\ reading = "trace" /\ reading' = "answered" /\ stage' = "idle"
      /\ index' = index /\ snapshots' = snapshots
  BY DEF ReadTrace, Done
<1>3. seen' = seen \cup InCache' /\ throughout' = throughout \cap Reporting'
  BY <1>2 DEF Observe
<1>4. CountedSoFar' /\ AnswersAreFresh'
  BY <1>2, <1>3 DEF CountedSoFar, AnswersAreFresh, CallInv
<1>5. ReplyExpected' /\ InSection' /\ Observed'
  BY <1>1, <1>2, <1>3 DEF ReplyExpected, InSection, Observed
<1> QED BY <1>4, <1>5 DEF CallInv

LEMMA CallInit == Init => CallInv
BY TypeInit
DEF Init, InitClient, InitReader, CallInv, ReplyExpected, InSection, Observed, AnswersAreFresh,
    CountedSoFar, NoSnapshots

LEMMA CallStepKeeps == CallInv /\ [Next]_vars => CallInv'
<1> SUFFICES ASSUME CallInv, [Next]_vars PROVE CallInv'
  OBVIOUS
<1>1. TypeOK'
  BY TypeStep DEF CallInv
<1>2. CASE CacheStep \/ UNCHANGED vars
  BY <1>1, <1>2, CacheStepKeeps
<1>3. CASE CallStep
  <2>1. ReaderStep /\ UNCHANGED cacheVars /\ Observe
    BY <1>3 DEF CallStep
  <2>2. CASE ClientStep /\ UNCHANGED readerVars
    BY <1>1, <2>1, <2>2, ClientStepKeeps
  <2>3. CASE ServerStep /\ UNCHANGED readerVars
    BY <1>1, <2>1, <2>3, ServerStepKeeps
  <2>4. CASE Invoke
    BY <1>1, <2>1, <2>4, InvokeKeeps
  <2>5. CASE ReadExec
    BY <1>1, <2>1, <2>5, ReadExecKeeps
  <2>6. CASE ReadLive
    BY <1>1, <2>1, <2>6, ReadLiveKeeps
  <2>7. CASE ReadTrace
    BY <1>1, <2>1, <2>7, ReadTraceKeeps
  <2>8. CASE Return
    BY <1>1, <2>1, <2>8, CallOver
    DEF Return, Forget, clientVars, socketVars, CallInv, InSection, ReplyExpected
  <2>9. CASE Raise
    BY <1>1, <2>1, <2>9, CallOver DEF Raise, Done, Forget, socketVars, CallInv, ReplyExpected
  <2>10. CASE Killed
    BY <1>1, <2>1, <2>10, CallOver DEF Killed, Done, Forget, Disconnect
  <2> QED
    BY <2>1, <2>2, <2>3, <2>4, <2>5, <2>6, <2>7, <2>8, <2>9, <2>10 DEF ReaderStep, HandlerStep
<1> QED BY <1>2, <1>3 DEF Next

LEMMA CallInvariant == Spec => []CallInv
BY CallInit, CallStepKeeps, PTL DEF Spec

(* What an answer counts for a worker was its snapshot during the call:    *)
(* for any number of workers, retries and calls no reply is taken for that *)
(* of another command.                                                     *)
THEOREM RepliesAreFresh == Spec => []AnswersAreFresh
<1>1. CallInv => AnswersAreFresh BY DEF CallInv
<1> QED BY <1>1, CallInvariant, PTL

(* An answer counts every worker that reported all through the call.       *)
THEOREM FleetIsCounted == Spec => []WholeFleetIsCounted
<1>1. CallInv => WholeFleetIsCounted
  BY DEF CallInv, CountedSoFar, WholeFleetIsCounted
<1> QED BY <1>1, CallInvariant, PTL

-----------------------------------------------------------------------------
(* What NoKeyForever says of one key.                                      *)
SetAside(k) == (\E w \in Workers : Writer(w, k)) \/ FailedOn(k)
Kept(k) == Held(k) /\ k \notin expiring => SetAside(k)

LEMMA NoKeyParts == NoKeyForever <=> \A k \in Keys : Kept(k)
BY DEF NoKeyForever, Kept, SetAside

(* A key that a worker's step leaves alone.                                *)
LEMMA OtherKeyKept ==
  ASSUME NEW w \in Workers, failed \subseteq failed',
         \A v \in Workers : v # w => at'[v] = at[v] /\ (v \in stored <=> v \in stored'),
         NEW k \in Keys, Kept(k), ~Writer(w, k),
         value'[k] = value[k], k \in expiring' <=> k \in expiring
  PROVE  Kept(k)'
<1> SUFFICES ASSUME Held(k)', k \notin expiring' PROVE SetAside(k)'
  BY DEF Kept
<1>1. SetAside(k)
  BY DEF Kept, Held
<1>2. CASE FailedOn(k)
  BY <1>2 DEF FailedOn, SetAside
<1>3. CASE \E v \in Workers : Writer(v, k)
  <2>1. PICK v \in Workers : Writer(v, k)
    BY <1>3
  <2>2. v # w /\ at'[v] = at[v] /\ v \in stored'
    BY <2>1 DEF Writer
  <2>3. Writer(v, k)'
    BY <2>1, <2>2 DEF Writer, KeyOf
  <2> QED BY <2>3 DEF SetAside
<1> QED BY <1>1, <1>2, <1>3 DEF SetAside

LEMMA WorkerKeepsNoKey ==
  ASSUME TypeOK, NoKeyForever, NEW w \in Workers, WorkerStep(w)
  PROVE  \A k \in Keys : Kept(k)'
<1>1. /\ failed \subseteq failed'
      /\ \A v \in Workers : v # w => at'[v] = at[v] /\ (v \in stored <=> v \in stored')
  BY DEF TypeOK, WorkerStep, CreateClients, Stored, Refreshed, WriteFails, Flush, LoadOver
<1>2. CASE CreateClients(w) \/ Flush(w) \/ LoadOver(w)
  <2>1. UNCHANGED cacheVars /\ w \notin stored
    BY <1>2 DEF TypeOK, CreateClients, Flush, LoadOver, Writes, TraceTags
  <2>2. \A k \in Keys : value'[k] = value[k] /\ (k \in expiring' <=> k \in expiring)
    BY <2>1 DEF cacheVars
  <2>3. \A k \in Keys : ~Writer(w, k) /\ Kept(k)
    BY <2>1, NoKeyParts DEF Writer
  <2> QED BY <1>1, <2>2, <2>3, OtherKeyKept
<1>3. ASSUME at[w] \in Writes, Command(w) \/ UNCHANGED cacheVars
      PROVE  \A k \in Keys : k # KeyOf(w) => Kept(k)'
  <2>1. \A k \in Keys : k # KeyOf(w) => value'[k] = value[k] /\ (k \in expiring' <=> k \in expiring)
    BY <1>3, CommandEffect DEF cacheVars
  <2>2. \A k \in Keys : Kept(k) /\ (k # KeyOf(w) => ~Writer(w, k))
    BY NoKeyParts DEF Writer
  <2> QED BY <1>1, <2>1, <2>2, OtherKeyKept
<1>4. CASE Stored(w)
  <2>1. /\ at[w] \in Writes /\ Command(w)
        /\ at'[w] = at[w] /\ w \in stored'
    BY <1>4 DEF Stored
  <2>2. ASSUME NEW k \in Keys, k = KeyOf(w) PROVE Kept(k)'
    <3>1. Writer(w, k)'
      BY <2>1, <2>2 DEF Writer, KeyOf
    <3> QED BY <3>1 DEF Kept, SetAside
  <2> QED BY <1>3, <2>1, <2>2
<1>5. CASE Refreshed(w)
  <2>1. at[w] \in Writes /\ Command(w) /\ w \in stored
    BY <1>5 DEF Refreshed
  <2>2. ASSUME NEW k \in Keys, k = KeyOf(w) PROVE Kept(k)'
    <3>1. value' = value /\ (Held(k) => k \in expiring')
      BY <2>1, <2>2, CommandEffect
    <3> QED BY <3>1 DEF Kept, Held
  <2> QED BY <1>3, <2>1, <2>2
<1>6. CASE WriteFails(w)
  <2>1. /\ at[w] \in Writes /\ (Command(w) \/ UNCHANGED cacheVars)
        /\ <<w, at[w]>> \in failed'
    BY <1>6 DEF WriteFails
  <2>2. ASSUME NEW k \in Keys, k = KeyOf(w) PROVE Kept(k)'
    <3>1. CASE at[w] = "exec"
      BY <2>1, <2>2, <3>1, KeyOfType DEF Kept, SetAside, FailedOn
    <3>2. CASE at[w] = "live"
      BY <2>1, <2>2, <3>2, KeyOfType, KeysDistinct DEF Kept, SetAside, FailedOn
    <3>3. CASE at[w] \in TraceTags
      <4>1. k = Trace
        BY <2>2, <3>3 DEF KeyOf, TraceTags
      <4> QED BY <2>1, <3>3, <4>1, KeysDistinct DEF Kept, SetAside, FailedOn
    <3> QED BY <2>1, <3>1, <3>2, <3>3 DEF Writes
  <2> QED BY <1>3, <2>1, <2>2
<1> QED BY <1>2, <1>4, <1>5, <1>6 DEF WorkerStep

LEMMA NoKeyStep == TypeOK /\ NoKeyForever /\ [Next]_vars => NoKeyForever'
<1> SUFFICES ASSUME TypeOK, NoKeyForever, [Next]_vars PROVE \A k \in Keys : Kept(k)'
  BY DEF NoKeyForever, Kept, SetAside
<1>1. ASSUME NEW w \in Workers, WorkerStep(w) PROVE \A k \in Keys : Kept(k)'
  BY <1>1, WorkerKeepsNoKey
<1>2. CASE Lapse /\ UNCHANGED workerVars
  <2>1. PICK x \in Keys : Vanish(x)
    BY <1>2 DEF Lapse, LiveKeyLapses, ExecutionKeyLapses, Keys
  <2>2. /\ value'[x] = {}
        /\ \A k \in Keys : k # x => value'[k] = value[k] /\ (k \in expiring' <=> k \in expiring)
    BY <2>1 DEF Vanish, TypeOK
  <2>3. \A k \in Keys : Kept(k) /\ SetAside(k)' = SetAside(k)
    BY <1>2, NoKeyParts DEF workerVars, SetAside, Writer, FailedOn, KeyOf
  <2> QED BY <2>2, <2>3 DEF Kept, Held
<1>3. CASE UNCHANGED <<cacheVars, workerVars>>
  BY <1>3, NoKeyParts DEF cacheVars, workerVars, Kept, Held, SetAside, Writer, FailedOn, KeyOf
<1> QED BY <1>1, <1>2, <1>3 DEF Next, CacheStep, CallStep, vars

(* No key of an execution stays in the cache for ever, but for a write     *)
(* that failed between its two commands.                                   *)
THEOREM KeysExpire == Spec => []NoKeyForever
<1>1. Init => NoKeyForever
  BY DEF Init, InitCache, NoKeyForever, Held
<1> QED BY <1>1, TypeInit, TypeStep, NoKeyStep, PTL DEF Spec

-----------------------------------------------------------------------------
(* A worker that is past its first trace entry, or whose snapshot is or    *)
(* was there, has told that it is connected, if no write of its failed.    *)
Excused(w) == <<w, "connected">> \in failed \/ <<w, "live">> \in failed
Told(w) == <<w, "connected">> \in value[Trace]
BeganLoad(w) ==
  \/ at[w] \in {"starting", "load", "live", "completed"}
  \/ at[w] = "connected" /\ w \in stored
Showed(w) == Held(Live(w)) \/ \E s \in seen : s[1] = w
ToldFirst(w) == BeganLoad(w) \/ Showed(w) => Told(w) \/ Excused(w)
AllToldFirst == \A w \in Workers : ToldFirst(w)

(* The trace tells of every worker that is counted.                        *)
Tells(entries) ==
  \A w \in Workers : snapshots[w] # {} => <<w, "connected">> \in entries \/ Excused(w)
TraceTells ==
  /\ reading = "trace" /\ Answered => Tells(ValueRead)
  /\ reading = "answered" => Tells(traceRead)

TraceInv == CallInv /\ NoKeyForever /\ AllToldFirst /\ TraceTells

LEMMA SeenStep ==
  ASSUME TypeOK', Observe
  PROVE  \A s \in seen' : s \in seen \/ \E w \in Workers : Held(Live(w))' /\ s[1] = w
<1> SUFFICES ASSUME NEW s \in InCache'
             PROVE  \E w \in Workers : Held(Live(w))' /\ s[1] = w
  BY DEF Observe
<1>1. PICK w \in Workers : s \in value'[Live(w)]
  BY DEF InCache
<1>2. value'[Live(w)] \subseteq {w} \X Nat
  BY KeysDistinct, KeysOfLive DEF TypeOK, Items
<1> QED BY <1>1, <1>2 DEF Held

(* What a worker's step does to what it tells and shows.                   *)
LEMMA WorkerTells ==
  ASSUME TypeOK, NEW v \in Workers, WorkerStep(v)
  PROVE  /\ failed \subseteq failed'
         /\ value[Trace] \subseteq value'[Trace]
         /\ \A w \in Workers : BeganLoad(w)' => BeganLoad(w) \/ Told(w)' \/ Excused(w)'
         /\ \A w \in Workers : Held(Live(w))' => Held(Live(w)) \/ BeganLoad(w)
<1> USE DEF TypeOK
<1>1. /\ failed \subseteq failed'
      /\ \A w \in Workers : w # v => at'[w] = at[w] /\ (w \in stored <=> w \in stored')
  BY DEF WorkerStep, CreateClients, Stored, Refreshed, WriteFails, Flush, LoadOver
<1>2. \A w \in Workers : w # v => (BeganLoad(w)' => BeganLoad(w))
  BY <1>1 DEF BeganLoad
<1>3. ASSUME UNCHANGED cacheVars, BeganLoad(v)' => BeganLoad(v) \/ Excused(v)'
      PROVE  /\ value[Trace] \subseteq value'[Trace]
             /\ BeganLoad(v)' => BeganLoad(v) \/ Told(v)' \/ Excused(v)'
             /\ \A w \in Workers : Held(Live(w))' => Held(Live(w)) \/ BeganLoad(w)
  BY <1>3 DEF cacheVars, Held
<1>4. ASSUME at[v] \in Writes, Command(v)
      PROVE  /\ value[Trace] \subseteq value'[Trace]
             /\ at[v] = "connected" /\ v \notin stored => Told(v)'
             /\ \A w \in Workers : Held(Live(w))' => Held(Live(w)) \/ BeganLoad(w)
  <2>1. KeyOf(v) # Trace => value'[Trace] = value[Trace]
    BY <1>4, CommandEffect DEF Keys
  <2>2. value[Trace] \subseteq value'[Trace]
    BY <1>4, <2>1, CommandEffect
  <2>3. at[v] = "connected" => KeyOf(v) = Trace
    BY DEF KeyOf
  <2>4. at[v] = "connected" /\ v \notin stored => Told(v)'
    BY <1>4, <2>3, CommandEffect DEF Told
  <2>5. ASSUME NEW w \in Workers, Held(Live(w))', ~Held(Live(w)) PROVE BeganLoad(w)
    <3>1. KeyOf(v) = Live(w)
      BY <1>4, <2>5, CommandEffect, KeysOfLive DEF Held
    <3> QED BY <3>1, KeyOfType DEF BeganLoad
  <2> QED BY <2>2, <2>4, <2>5
<1>5. CASE CreateClients(v)
  BY <1>1, <1>2, <1>3, <1>5 DEF CreateClients, BeganLoad, Writes, TraceTags
<1>6. CASE Flush(v)
  BY <1>1, <1>2, <1>3, <1>6 DEF Flush, BeganLoad
<1>7. CASE LoadOver(v)
  BY <1>1, <1>2, <1>3, <1>7 DEF LoadOver, BeganLoad
<1>8. CASE Stored(v)
  <2>1. at[v] \in Writes /\ Command(v) /\ v \notin stored /\ at'[v] = at[v]
    BY <1>8 DEF Stored
  <2>2. BeganLoad(v)' => BeganLoad(v) \/ Told(v)'
    BY <1>4, <2>1 DEF BeganLoad
  <2> QED BY <1>1, <1>2, <1>4, <2>1, <2>2
<1>9. CASE Refreshed(v)
  <2>1. at[v] \in Writes /\ Command(v) /\ v \in stored /\ at'[v] = After(v) /\ v \notin stored'
    BY <1>9 DEF Refreshed
  <2>2. BeganLoad(v)' => BeganLoad(v)
    BY <2>1 DEF BeganLoad, After, Writes, TraceTags
  <2> QED BY <1>1, <1>2, <1>4, <2>1, <2>2
<1>10. CASE WriteFails(v)
  <2>1. /\ at[v] \in Writes
        /\ at'[v] \in {After(v), "ended"} /\ v \notin stored'
        /\ <<v, at[v]>> \in failed'
    BY <1>10 DEF WriteFails
  <2>2. BeganLoad(v)' => BeganLoad(v) \/ Excused(v)'
    BY <2>1 DEF BeganLoad, After, Writes, TraceTags, Excused
  <2>3. CASE UNCHANGED cacheVars
    BY <1>1, <1>2, <1>3, <2>2, <2>3
  <2>4. CASE Command(v)
    BY <1>1, <1>2, <1>4, <2>1, <2>2, <2>4
  <2> QED BY <1>10, <2>3, <2>4 DEF WriteFails
<1> QED BY <1>5, <1>6, <1>7, <1>8, <1>9, <1>10 DEF WorkerStep

(* The trace outlives what tells of its workers.                           *)
LEMMA LapseTells ==
  ASSUME TypeOK, NoKeyForever, Lapse, UNCHANGED workerVars
  PROVE  /\ \A w \in Workers : Held(Live(w))' => Held(Live(w))
         /\ \A w \in Workers : BeganLoad(w)' => BeganLoad(w)
         /\ \/ value'[Trace] = value[Trace]
            \/ \A w \in Workers : BeganLoad(w) \/ Showed(w) => Excused(w)
<1>1. PICK k \in Keys : Vanish(k) /\ (k = Trace => Outlasted)
  BY KeysDistinct DEF Lapse, LiveKeyLapses, ExecutionKeyLapses, Keys
<1>2. value'[k] = {} /\ \A x \in Keys : x # k => value'[x] = value[x]
  BY <1>1 DEF Vanish, TypeOK
<1>3. ASSUME k = Trace, NEW w \in Workers, BeganLoad(w) \/ Showed(w)
      PROVE  Excused(w)
  <2>1. (\A v \in Workers : at[v] = "ended") /\ Live(w) \notin expiring /\ Held(Live(w))
    BY <1>1, <1>3 DEF Outlasted, BeganLoad, Showed
  <2>2. (\E v \in Workers : Writer(v, Live(w))) \/ FailedOn(Live(w))
    BY <2>1, KeysOfLive DEF NoKeyForever
  <2>3. FailedOn(Live(w))
    BY <2>1, <2>2 DEF Writer, Writes, TraceTags
  <2>4. <<w, "live">> \in failed
    BY <2>3, KeysDistinct DEF FailedOn
  <2> QED BY <2>4 DEF Excused
<1>4. \A w \in Workers : Held(Live(w))' => Held(Live(w))
  BY <1>2, KeysOfLive DEF Held
<1>5. \A w \in Workers : BeganLoad(w)' => BeganLoad(w)
  BY DEF workerVars, BeganLoad
<1> QED BY <1>2, <1>3, <1>4, <1>5 DEF Keys

LEMMA ToldStep ==
  ASSUME TypeOK, TypeOK', NoKeyForever, AllToldFirst, [Next]_vars
  PROVE  AllToldFirst' /\ failed \subseteq failed'
<1>1. CASE CacheStep
  <2>1. ASSUME failed \subseteq failed', value[Trace] \subseteq value'[Trace],
               \A w \in Workers : BeganLoad(w)' => BeganLoad(w) \/ Told(w)' \/ Excused(w)',
               \A w \in Workers : Held(Live(w))' => Held(Live(w)) \/ BeganLoad(w)
        PROVE  AllToldFirst'
    <3>1. \A w \in Workers : (Told(w) => Told(w)') /\ (Excused(w) => Excused(w)')
      BY <2>1 DEF Told, Excused
    <3>2. \A w \in Workers : Showed(w)' => Showed(w) \/ BeganLoad(w)
      BY <1>1, <2>1, SeenStep DEF CacheStep, Showed
    <3> QED BY <2>1, <3>1, <3>2 DEF AllToldFirst, ToldFirst
  <2>2. ASSUME NEW v \in Workers, WorkerStep(v)
        PROVE  AllToldFirst' /\ failed \subseteq failed'
    BY <2>1, <2>2, WorkerTells
  <2>3. CASE Lapse /\ UNCHANGED workerVars
    <3>1. failed' = failed
      BY <2>3 DEF workerVars
    <3>2. CASE value'[Trace] = value[Trace]
      BY <2>1, <2>3, <3>1, <3>2, LapseTells
    <3>3. CASE \A w \in Workers : BeganLoad(w) \/ Showed(w) => Excused(w)
      <4>1. \A w \in Workers : Showed(w)' => Showed(w)
        BY <1>1, <2>3, LapseTells, SeenStep DEF CacheStep, Showed
      <4> QED BY <2>3, <3>1, <3>3, <4>1, LapseTells DEF AllToldFirst, ToldFirst, Excused
    <3> QED BY <2>3, <3>1, <3>2, <3>3, LapseTells
  <2> QED BY <1>1, <2>2, <2>3 DEF CacheStep
<1>2. CASE CallStep
  <2>1. UNCHANGED <<cacheVars, workerVars>> /\ Observe
    BY <1>2 DEF CallStep
  <2>2. \A w \in Workers : Showed(w)' => Showed(w)
    BY <2>1, SeenStep DEF Showed, Held, cacheVars
  <2> QED
    BY <2>1, <2>2
    DEF cacheVars, workerVars, AllToldFirst, ToldFirst, BeganLoad, Told, Excused
<1>3. CASE UNCHANGED vars
  BY <1>3
  DEF vars, cacheVars, workerVars, AllToldFirst, ToldFirst, BeganLoad, Showed, Held, Told, Excused
<1> QED BY <1>1, <1>2, <1>3 DEF Next

(* The reply that is awaited tells of all workers that are counted.        *)
LEMMA TraceTellsStep ==
  ASSUME TraceInv, failed \subseteq failed', [Next]_vars
  PROVE  TraceTells'
<1>1. ASSUME snapshots' = snapshots, NEW entries, Tells(entries) PROVE Tells(entries)'
  BY <1>1 DEF Tells, Excused
<1>2. ASSUME UNCHANGED <<stage, replies, readerVars>> PROVE TraceTells'
  BY <1>1, <1>2 DEF readerVars, TraceInv, TraceTells, Answered, ValueRead
<1>3. CASE CacheStep \/ UNCHANGED vars
  BY <1>2, <1>3 DEF CacheStep, clientVars, socketVars, vars
<1>4. ASSUME CallStep PROVE TraceTells'
  <2>1. ReaderStep /\ UNCHANGED <<cacheVars, workerVars>>
    BY <1>4 DEF CallStep
  <2>2. ASSUME reading' \notin {"trace", "answered"} PROVE TraceTells'
    BY <2>2 DEF TraceTells
  <2>3. ASSUME UNCHANGED readerVars, ClientStep PROVE TraceTells'
    <3>1. reading # "answered" /\ ~Answered'
      BY <2>3 DEF TraceInv, CallInv, InSection, ReplyExpected, ClientStep, Send, SendOn, GetConnectionFails,
                  Resend, CommandFails, Disconnect, Answered
    <3> QED BY <2>3, <3>1 DEF TraceTells, readerVars
  <2>4. ASSUME UNCHANGED readerVars, ServerAnswers PROVE TraceTells'
    <3>1. stage = "await" /\ stage' = stage /\ unanswered = <<asked>> /\ replies = <<>>
      BY <2>4 DEF ServerAnswers, TraceInv, CallInv, ReplyExpected
    <3>2. reading \notin {"idle", "answered"} /\ reading' = reading
      BY <2>4, <3>1 DEF TraceInv, CallInv, InSection, readerVars
    <3>3. reading = "trace" => ValueRead' = value[Trace]
      <4>1. replies' = <<Reply(asked)>>
        BY <2>4, <3>1 DEF ServerAnswers
      <4>2. ValueRead' = ValueAt(asked)
        BY <4>1 DEF ValueRead, Reply
      <4> QED BY <4>2 DEF ValueAt, Keys, TraceInv, CallInv, InSection
    <3>4. Tells(value[Trace])
      <4> SUFFICES ASSUME NEW w \in Workers, snapshots[w] # {} PROVE Told(w) \/ Excused(w)
        BY DEF Tells, Told
      <4>1. PICK s \in snapshots[w] : s \in seen /\ s[1] = w
        BY WorkersAreIndices DEF TraceInv, CallInv, AnswersAreFresh
      <4> QED BY <4>1 DEF TraceInv, AllToldFirst, ToldFirst, Showed
    <3> QED BY <2>4, <3>2, <3>3, <3>4, <1>1 DEF TraceTells, readerVars, Tells, Excused
  <2>5. ASSUME UNCHANGED readerVars, ServerCloses PROVE TraceTells'
    BY <1>2, <2>5 DEF ServerCloses
  <2>6. CASE Invoke \/ Return \/ Raise \/ Killed \/ ReadExec
    BY <2>2, <2>6 DEF Invoke, Return, Raise, Killed, ReadExec
  <2>7. CASE ReadLive
    <3>1. Tail(replies) = <<>> /\ replies' = Tail(replies) /\ reading' \in {"live", "trace"}
      BY <2>7, ReplyTaken DEF ReadLive, TakeReply, TraceInv
    <3> QED BY <3>1 DEF TraceTells, Answered
  <2>8. CASE ReadTrace
    <3>1. Tells(ValueRead) /\ traceRead' = ValueRead /\ reading' = "answered" /\ snapshots' = snapshots
      BY <2>8 DEF ReadTrace, TraceInv, TraceTells
    <3> QED BY <3>1 DEF TraceTells, Tells, Excused
  <2> QED BY <2>1, <2>3, <2>4, <2>5, <2>6, <2>7, <2>8 DEF ReaderStep, HandlerStep, ServerStep
<1> QED BY <1>3, <1>4 DEF Next

LEMMA TraceInvariant == Spec => []TraceInv
<1>1. Init => TraceInv
  <2>1. Init => AllToldFirst
    BY DEF Init, InitCache, InitWorkers, AllToldFirst, ToldFirst, BeganLoad, Showed, Held, Workers, Keys
  <2> QED
    BY CallInit, <2>1 DEF Init, InitCache, InitReader, TraceInv, NoKeyForever, Held, TraceTells
<1>2. TraceInv /\ [Next]_vars => TraceInv'
  BY CallStepKeeps, NoKeyStep, ToldStep, TraceTellsStep, TypeStep DEF TraceInv, CallInv
<1> QED BY <1>1, <1>2, PTL DEF Spec

(* The trace of an answer tells of the connection of every worker that it  *)
(* counts and that could write.                                            *)
THEOREM CountedAreTraced == Spec => []CountedWorkersAreTraced
<1>1. TraceInv => CountedWorkersAreTraced
  BY DEF TraceInv, TraceTells, Tells, Excused, CountedWorkersAreTraced
<1> QED BY <1>1, TraceInvariant, PTL

-----------------------------------------------------------------------------
(* The live console page.                                                  *)

Requests == [execution : Executions \cup {NoExecution}, since : 0..MaxTrace]

(* The page polls for an execution, and has started as many intervals as   *)
(* it has tracked executions.                                              *)
PollsForOne ==
  /\ timers <= tracked
  /\ timers > 0 => currentExecutionName \in Executions
  /\ \A s \in Slots : live[s] # NoRequest => live[s].execution \in Executions

TypeInv == ConsoleTypeOK /\ PollsForOne

LEMMA ConsoleTypeInit == ConsoleInit => TypeInv
<1> SUFFICES ASSUME ConsoleInit PROVE TypeInv
  OBVIOUS
<1>1. 0 \in 0..MaxTrace /\ 0 \in 0..MaxTracked
  BY ConsoleAssumption
<1>2. live \in [Slots -> Requests] /\ \A s \in Slots : live[s] = NoRequest
  BY <1>1 DEF ConsoleInit, NoRequest, Requests
<1>3. shown \in Seq(Executions \X (1..MaxTrace))
  BY DEF ConsoleInit
<1>4. PollsForOne
  BY <1>2 DEF ConsoleInit, PollsForOne
<1>5. trace \in [Executions -> 0..MaxTrace] /\ status \in [Slots -> Executions \cup {NoExecution}]
  BY <1>1 DEF ConsoleInit
<1>6. execution \in [Executions -> {"RUNNING", "SUCCEEDED", "FAILED"}]
  BY DEF ConsoleInit
<1> QED BY <1>1, <1>2, <1>3, <1>4, <1>5, <1>6 DEF ConsoleInit, TypeInv, ConsoleTypeOK, Requests

LEMMA AskLiveType ==
  ASSUME TypeInv, NEW s \in Slots, NEW e \in Executions, AskLive(s, e)
  PROVE  /\ live' \in [Slots -> Requests]
         /\ live'[s].execution = e /\ \A x \in Slots : x # s => live'[x] = live[x]
<1>1. [execution |-> e, since |-> trace[e]] \in Requests
  BY DEF TypeInv, ConsoleTypeOK, Requests
<1> QED BY <1>1 DEF AskLive, TypeInv, ConsoleTypeOK, Requests

LEMMA StartTrackingType ==
  ASSUME TypeInv, NEW e \in Executions, StartTracking(e),
         UNCHANGED <<oneByOne, status, worldVars>>, loading' \in BOOLEAN
  PROVE  TypeInv'
<1> USE DEF TypeInv, ConsoleTypeOK, PollsForOne
<1>1. CASE Tracks(e)
  BY <1>1 DEF StartTracking, pageVars, worldVars
<1>2. CASE ~Tracks(e)
  <2>1. /\ tracked < MaxTracked /\ tracked' = tracked + 1
        /\ isPolling' = TRUE /\ currentExecutionName' = e /\ lastTraceCount' = 0
        /\ timers' = timers + 1 /\ shown' = <<>> /\ infoStatus' = "Running"
    BY <1>2 DEF StartTracking, FirstTrace
  <2>2. PICK s \in Slots : AskLive(s, e)
    BY <1>2 DEF StartTracking
  <2>3. /\ live' \in [Slots -> Requests]
        /\ live'[s].execution = e /\ \A x \in Slots : x # s => live'[x] = live[x]
    BY <2>2, AskLiveType
  <2>4. tracked' \in 0..MaxTracked /\ timers' \in 0..MaxTracked /\ timers' <= tracked' /\ timers' > 0
    BY <2>1, ConsoleAssumption
  <2>5. shown' \in Seq(Executions \X (1..MaxTrace)) /\ lastTraceCount' \in 0..MaxTrace
    BY <2>1, ConsoleAssumption
  <2>6. \A x \in Slots : live'[x] # NoRequest => live'[x].execution \in Executions
    BY <2>3
  <2> QED BY <2>1, <2>3, <2>4, <2>5, <2>6 DEF worldVars, Requests
<1> QED BY <1>1, <1>2

(* The entries that an answer adds to the terminal.                        *)
LEMMA NewEntriesType ==
  ASSUME TypeInv, NEW s \in Slots, live[s] # NoRequest,
         NEW n \in live[s].since..trace[live[s].execution], n > lastTraceCount
  PROVE  /\ n \in 0..MaxTrace
         /\ NewEntries(s, n) \in Seq(Executions \X (1..MaxTrace))
         /\ Len(NewEntries(s, n)) = n - lastTraceCount
         /\ \A i \in 1..(n - lastTraceCount) :
              NewEntries(s, n)[i] = <<live[s].execution, lastTraceCount + i>>
<1>1. /\ live[s].execution \in Executions /\ live[s].since \in 0..MaxTrace
      /\ trace[live[s].execution] \in 0..MaxTrace /\ lastTraceCount \in 0..MaxTrace
      /\ MaxTrace \in Nat
  BY ConsoleAssumption DEF TypeInv, ConsoleTypeOK, PollsForOne
<1>2. n \in 0..MaxTrace /\ n - lastTraceCount \in Nat
  BY <1>1
<1> DEFINE m == n - lastTraceCount
           entry(i) == <<live[s].execution, lastTraceCount + i>>
<1>3. \A i \in 1..m : entry(i) \in Executions \X (1..MaxTrace)
  BY <1>1, <1>2
<1>4. NewEntries(s, n) = [i \in 1..m |-> entry(i)]
  BY DEF NewEntries
<1> HIDE DEF m, entry
<1>5. /\ NewEntries(s, n) \in Seq(Executions \X (1..MaxTrace))
      /\ Len(NewEntries(s, n)) = m
      /\ \A i \in 1..m : NewEntries(s, n)[i] = entry(i)
  <2>1. m \in Nat BY <1>2 DEF m
  <2> QED BY <2>1, <1>3, <1>4
<1> QED BY <1>2, <1>5 DEF m, entry

LEMMA ConsoleTypeStep == TypeInv /\ [ConsoleNext]_consoleVars => TypeInv'
<1> SUFFICES ASSUME TypeInv, [ConsoleNext]_consoleVars PROVE TypeInv'
  OBVIOUS
<1> USE DEF TypeInv, ConsoleTypeOK, PollsForOne
<1>1. CASE PageLoaded
  <2>1. CASE \E e \in Executions : StartTracking(e)
    BY <1>1, <2>1, StartTrackingType DEF PageLoaded
  <2>2. CASE ShowLast
    BY <1>1, <2>2 DEF PageLoaded, ShowLast, worldVars
  <2> QED BY <1>1, <2>1, <2>2 DEF PageLoaded
<1>2. ASSUME NEW e \in Executions, StorageEvent(e) PROVE TypeInv'
  BY <1>2, StartTrackingType DEF StorageEvent
<1>3. ASSUME NEW e \in Executions, TraceGrows(e) PROVE TypeInv'
  <2>1. trace' \in [Executions -> 0..MaxTrace]
    BY <1>3, ConsoleAssumption DEF TraceGrows
  <2> QED BY <1>3, <2>1 DEF TraceGrows, pageVars
<1>4. ASSUME NEW e \in Executions, ExecutionEnds(e) PROVE TypeInv'
  BY <1>4 DEF ExecutionEnds, pageVars
<1>5. ASSUME NEW s \in Slots, PollLive(s) PROVE TypeInv'
  <2>1. /\ live' \in [Slots -> Requests] /\ live'[s].execution \in Executions
        /\ \A x \in Slots : x # s => live'[x] = live[x]
    BY <1>5, AskLiveType DEF PollLive
  <2> QED BY <1>5, <2>1 DEF PollLive, pageVars, worldVars, Requests
<1>6. ASSUME NEW s \in Slots, PollStatus(s) PROVE TypeInv'
  BY <1>6 DEF PollStatus, pageVars, worldVars
<1>7. ASSUME NEW s \in Slots, LiveAnswered(s) PROVE TypeInv'
  <2>1. PICK n \in live[s].since..trace[live[s].execution] :
          IF n > lastTraceCount
            THEN shown' = shown \o NewEntries(s, n) /\ lastTraceCount' = n
            ELSE UNCHANGED <<shown, lastTraceCount>>
    BY <1>7 DEF LiveAnswered
  <2>2. shown' \in Seq(Executions \X (1..MaxTrace)) /\ lastTraceCount' \in 0..MaxTrace
    <3>1. CASE n > lastTraceCount
      <4>1. live[s] # NoRequest
        BY <1>7 DEF LiveAnswered
      <4>2. n \in 0..MaxTrace /\ NewEntries(s, n) \in Seq(Executions \X (1..MaxTrace))
        BY <3>1, <4>1, NewEntriesType
      <4>3. shown \o NewEntries(s, n) \in Seq(Executions \X (1..MaxTrace))
        <5> DEFINE more == NewEntries(s, n)
                   S == Executions \X (1..MaxTrace)
        <5>1. shown \in Seq(S) /\ more \in Seq(S)
          BY <4>2
        <5> HIDE DEF more, S
        <5>2. shown \o more \in Seq(S)
          BY <5>1
        <5> QED BY <5>2 DEF more, S
      <4> QED BY <2>1, <3>1, <4>2, <4>3
    <3>2. CASE ~(n > lastTraceCount)
      BY <2>1, <3>2
    <3> QED BY <3>1, <3>2
  <2>3. live' \in [Slots -> Requests] /\ live'[s] = NoRequest /\ \A x \in Slots : x # s => live'[x] = live[x]
    BY <1>7, ConsoleAssumption DEF LiveAnswered, NoRequest, Requests
  <2> QED BY <1>7, <2>2, <2>3 DEF LiveAnswered, worldVars, Requests
<1>8. ASSUME NEW s \in Slots, StopTracking(s) PROVE TypeInv'
  <2>1. timers' \in 0..MaxTracked /\ timers' <= timers /\ timers' <= tracked
    BY <1>8, ConsoleAssumption DEF StopTracking, TimersLeft
  <2>2. timers' > 0 => timers > 0
    BY <2>1, ConsoleAssumption
  <2> QED BY <1>8, <2>1, <2>2 DEF StopTracking, Outcome, worldVars
<1>9. ASSUME NEW s \in Slots, NoNews(s) PROVE TypeInv'
  <2>1. live' \in [Slots -> Requests] /\ live'[s] = NoRequest /\ \A x \in Slots : x # s => live'[x] = live[x]
    BY <1>9, ConsoleAssumption DEF NoNews, NoRequest, Requests
  <2> QED BY <1>9, <2>1 DEF NoNews, pageVars, worldVars, Requests
<1>10. CASE UNCHANGED consoleVars
  BY <1>10 DEF consoleVars, pageVars, worldVars
<1> QED BY <1>1, <1>2, <1>3, <1>4, <1>5, <1>6, <1>7, <1>8, <1>9, <1>10 DEF ConsoleNext

(* Every reachable state of the page is well typed.                        *)
THEOREM ConsoleTypeCorrect == ConsoleSpec => []ConsoleTypeOK
<1>1. TypeInv => ConsoleTypeOK BY DEF TypeInv
<1> QED BY <1>1, ConsoleTypeInit, ConsoleTypeStep, PTL DEF ConsoleSpec

-----------------------------------------------------------------------------
(* When executions come up one by one, what is outstanding is about the    *)
(* execution that the page tracks or tracked last.                         *)
AsksForCurrent ==
  \A s \in Slots :
    /\ live[s] # NoRequest => live[s].execution = currentExecutionName
    /\ status[s] # NoExecution => status[s] = currentExecutionName
Untouched ==
  /\ isPolling = FALSE /\ timers = 0 /\ infoStatus = "Idle"
  /\ \A s \in Slots : Free(s)
Timer == timers = IF isPolling THEN 1 ELSE 0
Status ==
  /\ isPolling <=> infoStatus = "Running"
  /\ infoStatus \in {"Completed", "Failed"} => currentExecutionName \in Executions
  /\ infoStatus = "Completed" => execution[currentExecutionName] = "SUCCEEDED"
  /\ infoStatus = "Failed" => execution[currentExecutionName] = "FAILED"

OneByOne ==
  /\ AsksForCurrent /\ (loading => Untouched)
  /\ ShowsTrace /\ Timer /\ Status

PageInv == TypeInv /\ (oneByOne => OneByOne)

LEMMA PageInit == ConsoleInit => PageInv
<1> SUFFICES ASSUME ConsoleInit PROVE OneByOne
  BY ConsoleTypeInit DEF PageInv
<1>1. ShowsTrace
  BY DEF ConsoleInit, ShowsTrace
<1> QED
  BY <1>1 DEF ConsoleInit, OneByOne, AsksForCurrent, Untouched, Free, Timer, Status

(* Tracking another execution, when the page is idle.                      *)
LEMMA StartTrackingKeeps ==
  ASSUME TypeInv, NEW e \in Executions, StartTracking(e), UNCHANGED <<status, worldVars>>,
         loading' = FALSE, ~isPolling, timers = 0, \A s \in Slots : Free(s)
  PROVE  OneByOne'
<1>1. /\ isPolling' = TRUE /\ currentExecutionName' = e /\ lastTraceCount' = 0
      /\ timers' = 1 /\ shown' = <<>> /\ infoStatus' = "Running"
  BY DEF StartTracking, Tracks, FirstTrace
<1>2. PICK s \in Slots : AskLive(s, e)
  BY DEF StartTracking, Tracks
<1>3. live'[s].execution = e /\ \A x \in Slots : x # s => live'[x] = live[x]
  BY <1>2, AskLiveType
<1>4. AsksForCurrent'
  BY <1>1, <1>3 DEF AsksForCurrent, Free
<1>5. ShowsTrace'
  BY <1>1 DEF ShowsTrace
<1> QED BY <1>1, <1>4, <1>5 DEF OneByOne, Timer, Status

LEMMA SequenceIsFunction ==
  ASSUME NEW S, NEW q \in Seq(S)
  PROVE  q = [i \in 1..Len(q) |-> q[i]]
OBVIOUS

(* What an answer adds continues the trace that is shown.                  *)
LEMMA TraceContinues ==
  ASSUME TypeInv, ShowsTrace, NEW s \in Slots, live[s] # NoRequest,
         live[s].execution = currentExecutionName,
         NEW n \in live[s].since..trace[live[s].execution], n > lastTraceCount
  PROVE  shown \o NewEntries(s, n) = [i \in 1..n |-> <<currentExecutionName, i>>]
<1> DEFINE more == NewEntries(s, n)
           L == lastTraceCount
           c == currentExecutionName
<1>1. /\ n \in Nat /\ L \in Nat /\ n > L
      /\ more \in Seq(Executions \X (1..MaxTrace)) /\ Len(more) = n - L
      /\ \A i \in 1..(n - L) : more[i] = <<c, L + i>>
  <2>1. L \in Nat /\ MaxTrace \in Nat
    BY ConsoleAssumption DEF TypeInv, ConsoleTypeOK
  <2>2. /\ n \in 0..MaxTrace
        /\ more \in Seq(Executions \X (1..MaxTrace)) /\ Len(more) = n - L
        /\ \A i \in 1..(n - L) : more[i] = <<c, L + i>>
    BY NewEntriesType
  <2> HIDE DEF more, L, c
  <2>3. n \in Nat
    BY <2>1, <2>2
  <2>4. n > L
    BY DEF L
  <2> QED BY <2>1, <2>2, <2>3, <2>4
<1>2. shown \in Seq(Executions \X (1..MaxTrace)) /\ shown = [i \in 1..L |-> <<c, i>>]
  BY DEF TypeInv, ConsoleTypeOK, ShowsTrace
<1> HIDE DEF more, L, c
<1>3. Len(shown) = L
  BY <1>1, <1>2
<1>4. /\ shown \o more \in Seq(Executions \X (1..MaxTrace))
      /\ Len(shown \o more) = n
      /\ \A i \in 1..n : (shown \o more)[i] = IF i <= L THEN shown[i] ELSE more[i - L]
  BY <1>1, <1>2, <1>3
<1>5. \A i \in 1..n : (shown \o more)[i] = <<c, i>>
  <2> SUFFICES ASSUME NEW i \in 1..n PROVE (shown \o more)[i] = <<c, i>>
    OBVIOUS
  <2>1. CASE i <= L
    <3>1. i \in 1..L
      BY <1>1, <2>1
    <3> QED BY <1>2, <1>4, <2>1, <3>1
  <2>2. CASE ~(i <= L)
    <3>1. i - L \in 1..(n - L) /\ L + (i - L) = i
      BY <1>1, <2>2
    <3> QED BY <1>1, <1>4, <2>2, <3>1
  <2> QED BY <2>1, <2>2
<1>6. shown \o more = [i \in 1..n |-> (shown \o more)[i]]
  BY <1>4, SequenceIsFunction
<1> QED BY <1>5, <1>6 DEF more, c

LEMMA PageStep == PageInv /\ [ConsoleNext]_consoleVars => PageInv'
<1> SUFFICES ASSUME PageInv, [ConsoleNext]_consoleVars PROVE PageInv'
  OBVIOUS
<1>0. TypeInv /\ TypeInv'
  BY ConsoleTypeStep DEF PageInv
<1>o. oneByOne' = oneByOne
  BY DEF ConsoleNext, consoleVars, PageLoaded, StorageEvent, TraceGrows, ExecutionEnds, PollLive, PollStatus,
         LiveAnswered, StopTracking, NoNews
<1> SUFFICES ASSUME oneByOne, OneByOne PROVE OneByOne'
  BY <1>0, <1>o DEF PageInv
<1>t. /\ live \in [Slots -> Requests] /\ status \in [Slots -> Executions \cup {NoExecution}]
      /\ execution \in [Executions -> {"RUNNING", "SUCCEEDED", "FAILED"}]
      /\ isPolling \in BOOLEAN
      /\ timers > 0 => currentExecutionName \in Executions
      /\ NoExecution \notin Executions
  BY <1>0, ConsoleAssumption DEF TypeInv, ConsoleTypeOK, PollsForOne, Requests
<1> USE DEF OneByOne
<1>1. CASE PageLoaded
  <2>1. Untouched /\ loading' = FALSE /\ UNCHANGED <<status, worldVars>>
    BY <1>1 DEF PageLoaded
  <2>2. CASE \E e \in Executions : StartTracking(e)
    BY <1>0, <2>1, <2>2, StartTrackingKeeps DEF Untouched
  <2>3. CASE ShowLast
    <3>1. /\ UNCHANGED <<isPolling, currentExecutionName, lastTraceCount, timers, shown, live>>
          /\ infoStatus' \in {"Idle", "Stored"}
      BY <2>1, <2>3 DEF ShowLast, Untouched
    <3> QED
      BY <2>1, <3>1 DEF AsksForCurrent, ShowsTrace, Timer, Status, Untouched
  <2> QED BY <1>1, <2>2, <2>3 DEF PageLoaded
<1>2. ASSUME NEW e \in Executions, StorageEvent(e) PROVE OneByOne'
  <2>1. /\ ~isPolling /\ (\A s \in Slots : Free(s)) /\ loading' = FALSE
        /\ StartTracking(e) /\ UNCHANGED <<status, worldVars>>
    BY <1>0, <1>2 DEF StorageEvent, Quiet, TypeInv, ConsoleTypeOK
  <2>2. timers = 0
    BY <2>1 DEF Timer
  <2> QED BY <1>0, <2>1, <2>2, StartTrackingKeeps
<1>3. ASSUME UNCHANGED <<pageVars, loading, live, status>>,
             \A e \in Executions : execution[e] # "RUNNING" => execution'[e] = execution[e],
             DOMAIN execution = Executions
      PROVE  OneByOne'
  <2>1. /\ UNCHANGED <<isPolling, currentExecutionName, lastTraceCount, timers, shown, infoStatus>>
        /\ UNCHANGED <<loading, live, status>>
    BY <1>3 DEF pageVars
  <2>2. infoStatus \in {"Completed", "Failed"} => currentExecutionName \in Executions
    BY DEF Status
  <2> QED BY <1>3, <2>1, <2>2 DEF AsksForCurrent, Untouched, Free, ShowsTrace, Timer, Status
<1>4. ASSUME NEW e \in Executions, TraceGrows(e) \/ ExecutionEnds(e) PROVE OneByOne'
  BY <1>3, <1>4, <1>t DEF TraceGrows, ExecutionEnds
<1>5. ASSUME NEW s \in Slots, PollLive(s) PROVE OneByOne'
  <2>1. /\ timers > 0 /\ AskLive(s, currentExecutionName)
        /\ UNCHANGED <<isPolling, currentExecutionName, lastTraceCount, timers, shown, infoStatus>>
        /\ UNCHANGED <<loading, status, execution>>
    BY <1>5 DEF PollLive, pageVars, worldVars
  <2>2. /\ live'[s].execution = currentExecutionName
        /\ \A x \in Slots : x # s => live'[x] = live[x]
    BY <1>0, <1>t, <2>1, AskLiveType
  <2>3. ~loading
    BY <2>1 DEF Untouched
  <2> QED BY <2>1, <2>2, <2>3 DEF AsksForCurrent, ShowsTrace, Timer, Status
<1>6. ASSUME NEW s \in Slots, PollStatus(s) PROVE OneByOne'
  <2>1. /\ timers > 0 /\ status' = [status EXCEPT ![s] = currentExecutionName]
        /\ UNCHANGED <<isPolling, currentExecutionName, lastTraceCount, timers, shown, infoStatus>>
        /\ UNCHANGED <<loading, live, execution>>
    BY <1>6 DEF PollStatus, pageVars, worldVars
  <2>2. \A x \in Slots : status'[x] \in {status[x], currentExecutionName}
    BY <1>t, <2>1
  <2>3. ~loading
    BY <2>1 DEF Untouched
  <2> QED BY <2>1, <2>2, <2>3 DEF AsksForCurrent, ShowsTrace, Timer, Status
<1>7. ASSUME NEW s \in Slots, LiveAnswered(s) PROVE OneByOne'
  <2>1. /\ live[s] # NoRequest /\ live' = [live EXCEPT ![s] = NoRequest]
        /\ UNCHANGED <<isPolling, currentExecutionName, timers, infoStatus, loading, status, execution>>
    BY <1>7 DEF LiveAnswered, worldVars
  <2>2. PICK n \in live[s].since..trace[live[s].execution] :
          IF n > lastTraceCount
            THEN shown' = shown \o NewEntries(s, n) /\ lastTraceCount' = n
            ELSE UNCHANGED <<shown, lastTraceCount>>
    BY <1>7 DEF LiveAnswered
  <2>3. ShowsTrace'
    <3>1. CASE n > lastTraceCount
      <4>1. live[s].execution = currentExecutionName
        BY <2>1 DEF AsksForCurrent
      <4>2. shown' = [i \in 1..n |-> <<currentExecutionName, i>>] /\ lastTraceCount' = n
        BY <1>0, <2>1, <2>2, <3>1, <4>1, TraceContinues
      <4> QED BY <2>1, <4>2 DEF ShowsTrace
    <3>2. CASE ~(n > lastTraceCount)
      BY <2>1, <2>2, <3>2 DEF ShowsTrace
    <3> QED BY <3>1, <3>2
  <2>4. \A x \in Slots : live'[x] \in {live[x], NoRequest}
    BY <1>t, <2>1
  <2>5. ~loading
    BY <2>1 DEF Untouched, Free
  <2> QED BY <2>1, <2>3, <2>4, <2>5 DEF AsksForCurrent, Timer, Status
<1>8. ASSUME NEW s \in Slots, StopTracking(s) PROVE OneByOne'
  <2>1. /\ status[s] # NoExecution /\ HasEnded(status[s]) /\ isPolling' = FALSE
        /\ timers' = TimersLeft /\ infoStatus' = Outcome(status[s])
        /\ status' = [status EXCEPT ![s] = NoExecution]
        /\ UNCHANGED <<currentExecutionName, lastTraceCount, shown, loading, live, execution>>
    BY <1>8 DEF StopTracking, worldVars
  <2>2. status[s] = currentExecutionName /\ ~loading
    BY <2>1 DEF AsksForCurrent, Untouched, Free
  <2>3. timers' = 0
    BY <2>1 DEF TimersLeft, Timer
  <2>4. \A x \in Slots : status'[x] \in {status[x], NoExecution}
    BY <1>t, <2>1
  <2>5. Status'
    BY <1>t, <2>1, <2>2 DEF Status, HasEnded, Outcome
  <2> QED BY <2>1, <2>2, <2>3, <2>4, <2>5 DEF AsksForCurrent, ShowsTrace, Timer
<1>9. ASSUME NEW s \in Slots, NoNews(s) PROVE OneByOne'
  <2>1. /\ ~Free(s)
        /\ live' = [live EXCEPT ![s] = NoRequest] /\ status' = [status EXCEPT ![s] = NoExecution]
        /\ UNCHANGED <<isPolling, currentExecutionName, lastTraceCount, timers, shown, infoStatus>>
        /\ UNCHANGED <<loading, execution>>
    BY <1>9 DEF NoNews, pageVars, worldVars
  <2>2. \A x \in Slots : live'[x] \in {live[x], NoRequest} /\ status'[x] \in {status[x], NoExecution}
    BY <1>t, <2>1
  <2>3. ~loading
    BY <2>1 DEF Untouched
  <2> QED BY <2>1, <2>2, <2>3 DEF AsksForCurrent, ShowsTrace, Timer, Status
<1>10. CASE UNCHANGED consoleVars
  BY <1>3, <1>10, <1>t DEF consoleVars, worldVars
<1> QED BY <1>1, <1>2, <1>4, <1>5, <1>6, <1>7, <1>8, <1>9, <1>10 DEF ConsoleNext

LEMMA PageInvariant == ConsoleSpec => []PageInv
BY PageInit, PageStep, PTL DEF ConsoleSpec

(* The terminal shows the trace from its first entry, every entry once and *)
(* in order.                                                               *)
THEOREM TraceIsShownInOrder == ConsoleSpec => []TraceInOrder
<1>1. PageInv => TraceInOrder BY DEF PageInv, OneByOne, TraceInOrder
<1> QED BY <1>1, PageInvariant, PTL

(* One interval of each kind while the page polls, and none afterwards.    *)
THEOREM TimersAreCleared == ConsoleSpec => []OneTimer
<1>1. PageInv => OneTimer BY DEF PageInv, OneByOne, Timer, OneTimer
<1> QED BY <1>1, PageInvariant, PTL

(* The sidebar tells how the execution it tracks is doing, or has ended.   *)
THEOREM StatusIsShown == ConsoleSpec => []StatusIsTrue
<1>1. PageInv => StatusIsTrue BY DEF PageInv, OneByOne, Status, StatusIsTrue
<1> QED BY <1>1, PageInvariant, PTL
=============================================================================
