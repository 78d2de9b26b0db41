-------------------------- MODULE SendIntentProofs --------------------------
(***************************************************************************)
(* SendIntent for any number of services, questions, intents and faults.   *)
(***************************************************************************)
EXTENDS SendIntent, WellFoundedInduction, TLAPS

-----------------------------------------------------------------------------
(* The inductive invariant *)

\* The intents that are anywhere.
Held == ({store.intent, page.intent, page.reading, plain.intent} \cup {loops[l].intent : l \in Loops})
          \ {NoIntent}

RunFor(intent, service) == [id |-> intent.id, ask |-> intent.ask, service |-> service]

\* What the question of every intent was, for the intents there have been so far:
\* a question has one, but for the one of the welcome page that was taken for a
\* plain message.
QuestionsOf(asked) ==
    /\ \A i \in 1 .. count.intents : asked[i].ask <= count.asks
    /\ \A i, j \in 1 .. count.intents :
          asked[i].ask = asked[j].ask /\ ~(count.home = "hidden" /\ asked[i].ask = 1) => i = j

\* What is sent, stored or accepted is of an intent and its question.
Used == Held \cup wire \cup server.runs

FollowsOf(asked) ==
    /\ \A x \in Used : x.id <= count.intents /\ x.ask = asked[x.id].ask
    /\ \A x \in Held : x.query = asked[x.id].query

\* A question that is on its way as a plain message and has no intent yet is new.
NewPlain(asked) ==
    /\ plain.pc # "idle" /\ plain.intent = NoIntent /\ Requires(plain.query)
    /\ ~(count.home = "hidden" /\ plain.ask = 1)
    => \A i \in 1 .. count.intents : asked[i].ask # plain.ask

Asked == [1 .. MaxIntents -> [ask : 0 .. MaxAsks, query : Questions]]

AsksFit == \E asked \in Asked : QuestionsOf(asked) /\ FollowsOf(asked) /\ NewPlain(asked)

\* Whatever copy of an intent comes back to the storage, its marks are true.
MarksFit == \A x \in Held : \A s \in x.accepted : RunFor(x, s) \in server.runs

\* A request that somebody awaits is the one its loop is at.
PostsFit ==
    \A post \in wire : post.by # 0 =>
        /\ loops[post.by].pc = "waiting" /\ loops[post.by].at = post.service
        /\ loops[post.by].intent.id = post.id /\ loops[post.by].intent.ask = post.ask

LoopsFit ==
    \A l \in Loops : /\ loops[l].pc # "idle" => loops[l].intent # NoIntent /\ loops[l].at \in Services
                     /\ loops[l].pc = "ok" => RunFor(loops[l].intent, loops[l].at) \in server.runs

\* A page that nobody used yet has started nothing unless it saw its session active.
QuietFits ==
    page.first # "active" /\ ~page.clicked =>
        plain.pc = "idle" /\ \A l \in Loops : loops[l].pc # "idle" => ~loops[l].own

\* The page shows the intent of the storage; only the fixed question of the service
\* centre may have taken the place of the one a plain message or a reading began with.
PageFits ==
    /\ ~page.up => /\ page.first = "unknown" /\ ~page.clicked
                   /\ page.intent = NoIntent /\ page.reading = NoIntent
    /\ page.up => page.intent.id = store.intent.id
    /\ plain.pc # "idle" /\ ~page.fixed => store.intent.id \in {0, plain.intent.id}
    /\ page.reading # NoIntent /\ ~page.fixed => store.intent.id = page.reading.id

CountsFit ==
    /\ count.asks = 0 => count.intents = 0
    /\ count.home # "none" => count.asks > 0
    /\ store.pending # "none" => count.home = store.pending
    /\ plain.pc # "idle" => plain.ask \in 1 .. count.asks /\ plain.query \in {"plain", "hidden"}
    /\ plain.pc = "required" => Requires(plain.query)

SendInv ==
    /\ TypeOK /\ AsksFit /\ MarksFit /\ PostsFit /\ LoopsFit /\ QuietFits /\ PageFits /\ CountsFit

-----------------------------------------------------------------------------
(* Types *)

StoreSet == [intent : AnyIntent, pending : {"none", "plain", "hidden"}]
PageSet == [up : BOOLEAN, fixed : BOOLEAN, seen : {"unknown", "active", "archived"},
            first : {"unknown", "active", "archived"}, intent : AnyIntent,
            initial : 0 .. MaxIntents, auto : BOOLEAN, tried : BOOLEAN,
            reconciled : SUBSET (1 .. MaxIntents), reading : AnyIntent,
            latest : Loops \cup {0}, clicked : BOOLEAN]
LoopSet == [pc : {"idle", "waiting", "ok", "failed"}, intent : AnyIntent,
            at : 0 .. Targets, own : BOOLEAN]
PlainSet == [pc : {"idle", "sent", "saved", "required", "failed"},
             query : Questions \cup {"none"}, ask : 0 .. MaxAsks, intent : AnyIntent]
PostSet == [id : 1 .. MaxIntents, ask : 1 .. MaxAsks, service : Services, by : Loops \cup {0}]
RunSet == [id : 1 .. MaxIntents, ask : 1 .. MaxAsks, service : Services]
ServerSet == [status : {"active", "archived"}, runs : SUBSET RunSet, deleted : SUBSET RunSet]
CountSet == [asks : 0 .. MaxAsks, intents : 0 .. MaxIntents, faults : 0 .. MaxFaults,
             home : {"none", "plain", "hidden", "query"}]

LEMMA Types ==
    TypeOK <=> /\ store \in StoreSet /\ page \in PageSet /\ loops \in [Loops -> LoopSet]
               /\ plain \in PlainSet /\ wire \subseteq PostSet /\ server \in ServerSet
               /\ count \in CountSet
BY DEF TypeOK, StoreSet, PageSet, LoopSet, PlainSet, PostSet, RunSet, ServerSet, CountSet

LEMMA TypesNext ==
    ASSUME store' \in StoreSet, page' \in PageSet, loops' \in [Loops -> LoopSet],
           plain' \in PlainSet, wire' \subseteq PostSet, server' \in ServerSet, count' \in CountSet
    PROVE  TypeOK'
BY DEF TypeOK, StoreSet, PageSet, LoopSet, PlainSet, PostSet, RunSet, ServerSet, CountSet

\* An intent has a number from 1 on, no intent the number 0.
LEMMA IntentTypes ==
    /\ NoIntent \notin Intents /\ NoIntent \in AnyIntent
    /\ NoIntent.id = 0 /\ NoIntent.ask = 0 /\ NoIntent.query = "none" /\ NoIntent.accepted = {}
    /\ \A x \in AnyIntent : (x.id = 0 <=> x = NoIntent) /\ (x # NoIntent => x \in Intents)
    /\ \A x \in Intents : /\ x.id \in 1 .. MaxIntents /\ x.ask \in 1 .. MaxAsks
                          /\ x.query \in Questions /\ x.accepted \subseteq Services
BY BoundsAssumption DEF NoIntent, Intents, AnyIntent

\* Min is what its name says.
LEMMA MinIsThere ==
    ASSUME NEW S, S \subseteq Nat, S # {}
    PROVE  Min(S) \in S
<1> DEFINE less == OpToRel(<, Nat)
<1>1. less = {ss \in Nat \X Nat : ss[1] < ss[2]}
  BY DEF OpToRel
<1>2. IsWellFoundedOn(less, Nat)
  BY NatLessThanWellFounded
<1> HIDE DEF less
<1>3. PICK x \in S : \A y \in S : <<y, x>> \notin less
  BY <1>2, WFMin
<1>4. \A y \in S : x <= y
  <2> TAKE y \in S
  <2>1. x \in Nat /\ y \in Nat /\ <<y, x>> \notin less
    BY <1>3
  <2>2. ~(y < x)
    BY <1>1, <2>1
  <2>3. QED
    BY <2>1, <2>2
<1>5. QED
  BY <1>4 DEF Min

-----------------------------------------------------------------------------
(* The loops that submit *)

\* The loop l waits for the request of a service, or has ended.
Stepped(l, intent, own) ==
    \/ loops' = [loops EXCEPT ![l] = NoLoop] /\ wire' = wire
    \/ \E s \in Services :
          /\ loops' = [loops EXCEPT ![l] = [pc |-> "waiting", intent |-> intent, at |-> s, own |-> own]]
          /\ wire' = wire \cup {[id |-> intent.id, ask |-> intent.ask, service |-> s, by |-> l]}

LEMMA GoOnSteps ==
    ASSUME NEW l, NEW intent, NEW n \in Nat, NEW own, GoOn(l, intent, n, own)
    PROVE  Stepped(l, intent, own)
<1> DEFINE left == Unaccepted(intent, n)
<1>1. CASE left = {}
  BY <1>1 DEF GoOn, Stepped
<1>2. CASE left # {}
  <2>1. left \subseteq Nat /\ left \subseteq Services
    BY BoundsAssumption DEF Unaccepted, Services
  <2>2. Min(left) \in Services
    BY <1>2, <2>1, MinIsThere
  <2>3. QED
    BY <1>2, <2>2 DEF GoOn, Stepped
<1>3. QED
  BY <1>1, <1>2

\* What the step of a loop leaves of loops and requests.
LEMMA SteppedFits ==
    ASSUME TypeOK, PostsFit, LoopsFit, NEW l \in Loops, NEW intent \in Intents, NEW own \in BOOLEAN,
           loops[l].pc # "waiting", Stepped(l, intent, own), server' = server
    PROVE  /\ loops' \in [Loops -> LoopSet] /\ wire' \subseteq PostSet
           /\ PostsFit' /\ LoopsFit'
           /\ \A k \in Loops \ {l} : loops'[k] = loops[k]
           /\ loops'[l].intent \in {intent, NoIntent}
           /\ loops'[l].pc \in {"idle", "waiting"} /\ (loops'[l].pc = "waiting" => loops'[l].own = own)
           /\ \A post \in wire' : post \in wire \/ (post.id = intent.id /\ post.ask = intent.ask)
<1>1. loops \in [Loops -> LoopSet] /\ wire \subseteq PostSet
  BY Types
<1>2. \A post \in wire : post.by # l
  BY DEF PostsFit, Loops
<1>3. CASE loops' = [loops EXCEPT ![l] = NoLoop] /\ wire' = wire
  <2>1. NoLoop \in LoopSet /\ NoLoop.pc = "idle" /\ NoLoop.intent = NoIntent
    BY IntentTypes, BoundsAssumption DEF NoLoop, LoopSet
  <2>2. loops' \in [Loops -> LoopSet] /\ loops'[l] = NoLoop /\ \A k \in Loops \ {l} : loops'[k] = loops[k]
    BY <1>1, <1>3, <2>1
  <2>3. PostsFit'
    BY <1>1, <1>2, <1>3, <2>2 DEF PostsFit, PostSet
  <2>4. LoopsFit'
    BY <2>1, <2>2 DEF LoopsFit
  <2>5. QED
    BY <1>1, <1>3, <2>1, <2>2, <2>3, <2>4
<1>4. ASSUME NEW s \in Services,
             loops' = [loops EXCEPT ![l] = [pc |-> "waiting", intent |-> intent, at |-> s, own |-> own]],
             wire' = wire \cup {[id |-> intent.id, ask |-> intent.ask, service |-> s, by |-> l]}
      PROVE  /\ loops' \in [Loops -> LoopSet] /\ wire' \subseteq PostSet
             /\ PostsFit' /\ LoopsFit'
             /\ \A k \in Loops \ {l} : loops'[k] = loops[k]
             /\ loops'[l].intent = intent /\ loops'[l].pc = "waiting" /\ loops'[l].own = own
             /\ \A post \in wire' : post \in wire \/ (post.id = intent.id /\ post.ask = intent.ask)
  <2> DEFINE loop == [pc |-> "waiting", intent |-> intent, at |-> s, own |-> own]
             sent == [id |-> intent.id, ask |-> intent.ask, service |-> s, by |-> l]
  <2>1. /\ loop \in LoopSet /\ loop.pc = "waiting" /\ loop.intent = intent
        /\ loop.at = s /\ loop.own = own /\ intent # NoIntent
    BY IntentTypes, BoundsAssumption DEF LoopSet, AnyIntent, Services
  <2>2. sent \in PostSet /\ sent.id = intent.id /\ sent.ask = intent.ask /\ sent.service = s /\ sent.by = l
    BY IntentTypes DEF PostSet
  <2>3. loops' = [loops EXCEPT ![l] = loop] /\ wire' = wire \cup {sent}
    BY <1>4
  <2> HIDE DEF loop, sent
  <2>4. loops' \in [Loops -> LoopSet] /\ loops'[l] = loop /\ \A k \in Loops \ {l} : loops'[k] = loops[k]
    BY <1>1, <2>1, <2>3
  <2>5. PostsFit'
    <3>1. SUFFICES ASSUME NEW post \in wire', post.by # 0
                   PROVE  /\ loops'[post.by].pc = "waiting" /\ loops'[post.by].at = post.service
                          /\ loops'[post.by].intent.id = post.id /\ loops'[post.by].intent.ask = post.ask
      BY DEF PostsFit
    <3>2. CASE post = sent
      BY <2>1, <2>2, <2>4, <3>2
    <3>3. CASE post \in wire
      <4>1. post.by \in Loops \ {l}
        BY <1>1, <1>2, <3>1, <3>3 DEF PostSet
      <4>2. QED
        BY <2>4, <3>1, <3>3, <4>1 DEF PostsFit
    <3>4. QED
      BY <2>3, <3>2, <3>3
  <2>6. LoopsFit'
    BY <2>1, <2>4 DEF LoopsFit
  <2>7. QED
    BY <1>1, <2>1, <2>2, <2>3, <2>4, <2>5, <2>6
<1>5. QED
  BY <1>3, <1>4 DEF Stepped

-----------------------------------------------------------------------------
(* Questions and marks *)

LEMMA HeldIs ==
    \A x : x \in Held <=> /\ x # NoIntent
                          /\ \/ x \in {store.intent, page.intent, page.reading, plain.intent}
                             \/ \E l \in Loops : x = loops[l].intent
BY DEF Held

LEMMA HeldIsNext ==
    \A x : x \in Held' <=> /\ x # NoIntent
                           /\ \/ x \in {store'.intent, page'.intent, page'.reading, plain'.intent}
                              \/ \E l \in Loops : x = loops'[l].intent
BY DEF Held

\* No step without a new intent makes a question begin anew.
LEMMA AsksKept ==
    ASSUME AsksFit,
           count'.intents = count.intents, count'.asks >= count.asks, count.asks \in Nat, count'.asks \in Nat,
           count'.home = count.home, count.intents \in 0 .. MaxIntents,
           \A x \in Used' : \E y \in Used : x.id = y.id /\ x.ask = y.ask,
           \A x \in Held' : \E y \in Held : x.id = y.id /\ x.query = y.query,
           \/ plain'.pc = "idle" \/ plain'.intent # NoIntent \/ ~Requires(plain'.query)
           \/ plain.pc # "idle" /\ plain'.intent = plain.intent /\ plain'.query = plain.query /\ plain'.ask = plain.ask
           \/ plain'.ask > count.asks /\ plain'.ask \in Nat
           \/ count.home = "hidden" /\ plain'.ask = 1
    PROVE  AsksFit'
<1>1. PICK asked \in Asked : QuestionsOf(asked) /\ FollowsOf(asked) /\ NewPlain(asked)
  BY DEF AsksFit
<1>2. \A i \in 1 .. count.intents : asked[i].ask \in Nat
  BY BoundsAssumption DEF Asked
<1>3. QuestionsOf(asked)'
  BY <1>1, <1>2 DEF QuestionsOf
<1>4. FollowsOf(asked)'
  BY <1>1 DEF FollowsOf
<1>5. NewPlain(asked)'
  BY <1>1, <1>2 DEF NewPlain, QuestionsOf, Requires
<1>6. QED
  BY <1>1, <1>3, <1>4, <1>5 DEF AsksFit, Asked

\* A new intent has a number and, but for the one of the welcome page, a question of its own.
LEMMA AsksNew ==
    ASSUME AsksFit, CountsFit, NEW query \in Questions, NEW ask \in 1 .. MaxAsks,
           count.intents \in 0 .. MaxIntents, count.intents < MaxIntents,
           \A y \in Used : y.id \in Nat \ {0},
           count'.intents = count.intents + 1, count'.asks >= count.asks, ask <= count'.asks,
           count.asks \in Nat, count'.asks \in Nat,
           count'.home = count.home \/ count.intents = 0,
           \/ ask > count.asks
           \/ /\ plain.pc # "idle" /\ plain.intent = NoIntent /\ Requires(plain.query) /\ ask = plain.ask
              /\ count'.home = count.home,
           \A x \in Used' : \/ \E y \in Used : x.id = y.id /\ x.ask = y.ask
                            \/ x.id = count.intents + 1 /\ x.ask = ask,
           \A x \in Held' : \/ \E y \in Held : x.id = y.id /\ x.query = y.query
                            \/ x.id = count.intents + 1 /\ x.query = query,
           \/ plain'.pc = "idle"
           \/ plain' = plain /\ ask > count.asks /\ count'.home = count.home
    PROVE  AsksFit'
<1> DEFINE new == count.intents + 1
<1>1. PICK old \in Asked : QuestionsOf(old) /\ FollowsOf(old) /\ NewPlain(old)
  BY DEF AsksFit
<1>2. /\ new \in 1 .. MaxIntents /\ count.intents \in Nat /\ MaxIntents \in Nat
      /\ \A i : i \in 1 .. new <=> i \in 1 .. count.intents \/ i = new
      /\ new \notin 1 .. count.intents
  BY BoundsAssumption
<1>3. PICK now \in Asked :
         /\ now[new].ask = ask /\ now[new].query = query
         /\ \A i \in 1 .. count.intents : i \in 1 .. MaxIntents /\ now[i] = old[i] /\ old[i].ask \in Nat
  <2> DEFINE both == [old EXCEPT ![new] = [ask |-> ask, query |-> query]]
  <2>1. old \in [1 .. MaxIntents -> [ask : 0 .. MaxAsks, query : Questions]]
    BY <1>1 DEF Asked
  <2>2. [ask |-> ask, query |-> query] \in [ask : 0 .. MaxAsks, query : Questions]
    OBVIOUS
  <2>3. both \in Asked /\ both[new] = [ask |-> ask, query |-> query]
    BY <1>2, <2>1, <2>2 DEF Asked
  <2>4. \A i \in 1 .. count.intents : i \in 1 .. MaxIntents /\ both[i] = old[i] /\ old[i].ask \in Nat
    <3>1. SUFFICES ASSUME NEW i \in 1 .. count.intents
                   PROVE  i \in 1 .. MaxIntents /\ both[i] = old[i] /\ old[i].ask \in Nat
      OBVIOUS
    <3>2. i \in 1 .. MaxIntents /\ i # new
      BY <1>2
    <3>3. old[i] \in [ask : 0 .. MaxAsks, query : Questions] /\ both[i] = old[i]
      BY <2>1, <3>2
    <3>4. QED
      BY <3>2, <3>3, BoundsAssumption
  <2> HIDE DEF both
  <2>5. QED
    BY <2>3, <2>4
<1>4. ASSUME NEW i \in 1 .. count.intents, ~(count'.home = "hidden" /\ ask = 1) PROVE old[i].ask # ask
  <2>1. old[i].ask <= count.asks /\ old[i].ask \in Nat
    BY <1>1, <1>3 DEF QuestionsOf
  <2>2. CASE ask > count.asks
    BY <2>1, <2>2
  <2>3. CASE /\ plain.pc # "idle" /\ plain.intent = NoIntent /\ Requires(plain.query) /\ ask = plain.ask
             /\ count'.home = count.home
    BY <1>1, <1>4, <2>3 DEF NewPlain
  <2>4. QED
    BY <2>2, <2>3
<1>5. QuestionsOf(now)'
  <2>1. \A i \in 1 .. new : now[i].ask <= count'.asks
    BY <1>1, <1>2, <1>3 DEF QuestionsOf
  <2>2. ASSUME NEW i \in 1 .. new, NEW j \in 1 .. new,
               now[i].ask = now[j].ask, ~(count'.home = "hidden" /\ now[i].ask = 1)
        PROVE  i = j
    <3>1. CASE i = new \/ j = new
      BY <1>2, <1>3, <1>4, <2>2, <3>1
    <3>2. CASE i \in 1 .. count.intents /\ j \in 1 .. count.intents
      <4>1. count'.home = count.home
        BY <1>2, <3>2
      <4>2. QED
        BY <1>1, <1>3, <2>2, <3>2, <4>1 DEF QuestionsOf
    <3>3. QED
      BY <1>2, <3>1, <3>2
  <2>3. count'.intents = new
    OBVIOUS
  <2> HIDE DEF new
  <2>4. QED
    BY <2>1, <2>2, <2>3 DEF QuestionsOf
<1>6. FollowsOf(now)'
  <2>1. \A y \in Used : y.id <= count.intents /\ y.ask = old[y.id].ask
    BY <1>1 DEF FollowsOf
  <2>2. \A y \in Held : y.query = old[y.id].query /\ y \in Used
    BY <1>1 DEF FollowsOf, Used
  <2>3. ASSUME NEW x \in Used' PROVE x.id <= count'.intents /\ x.ask = now[x.id].ask
    <3>1. CASE x.id = new /\ x.ask = ask
      BY <1>2, <1>3, <3>1
    <3>2. ASSUME NEW y \in Used, x.id = y.id, x.ask = y.ask PROVE x.id <= count'.intents /\ x.ask = now[x.id].ask
      <4>1. y.id \in 1 .. count.intents
        BY <1>2, <2>1
      <4>2. QED
        BY <1>2, <1>3, <2>1, <3>2, <4>1
    <3>3. QED
      BY <2>3, <3>1, <3>2
  <2>4. ASSUME NEW x \in Held' PROVE x.query = now[x.id].query
    <3>1. CASE x.id = new /\ x.query = query
      BY <1>3, <3>1
    <3>2. ASSUME NEW y \in Held, x.id = y.id, x.query = y.query PROVE x.query = now[x.id].query
      <4>1. y.id \in 1 .. count.intents
        BY <1>2, <2>1, <2>2
      <4>2. QED
        BY <1>3, <2>2, <3>2, <4>1
    <3>3. QED
      BY <2>4, <3>1, <3>2
  <2>5. QED
    BY <2>3, <2>4 DEF FollowsOf
<1>7. NewPlain(now)'
  <2>1. SUFFICES ASSUME plain'.pc # "idle", plain'.intent = NoIntent, Requires(plain'.query),
                        ~(count'.home = "hidden" /\ plain'.ask = 1), NEW i \in 1 .. new
                 PROVE  now[i].ask # plain'.ask
    <3>1. count'.intents = new
      OBVIOUS
    <3> HIDE DEF new
    <3>2. QED
      BY <3>1 DEF NewPlain
  <2>2. plain' = plain /\ ask > count.asks /\ plain.ask \in 1 .. count.asks /\ count'.home = count.home
    BY <2>1 DEF CountsFit
  <2>3. CASE i = new
    BY <1>3, <2>2, <2>3
  <2>4. CASE i \in 1 .. count.intents
    BY <1>1, <1>3, <2>1, <2>2, <2>4 DEF NewPlain
  <2>5. QED
    BY <1>2, <2>3, <2>4
<1>8. QED
  BY <1>3, <1>5, <1>6, <1>7 DEF AsksFit, Asked

\* No step that makes no new intent changes what is known of questions and marks.
LEMMA Keeps ==
    ASSUME SendInv, TypeOK', PostsFit', LoopsFit', QuietFits', PageFits', CountsFit',
           count'.intents = count.intents, count'.home = count.home, count'.asks >= count.asks,
           server.runs \subseteq server'.runs,
           \A x \in Held' : \/ x \in Held
                            \/ \E y \in Held : /\ x.id = y.id /\ x.ask = y.ask /\ x.query = y.query
                                               /\ \A s \in x.accepted : s \in y.accepted \/ RunFor(y, s) \in server.runs,
           \A x \in wire' \cup server'.runs : \E y \in Used : x.id = y.id /\ x.ask = y.ask,
           \/ plain'.pc = "idle" \/ plain'.intent # NoIntent \/ ~Requires(plain'.query)
           \/ plain.pc # "idle" /\ plain'.intent = plain.intent /\ plain'.query = plain.query /\ plain'.ask = plain.ask
           \/ plain'.ask > count.asks
           \/ count.home = "hidden" /\ plain'.ask = 1
    PROVE  SendInv'
<1>1. /\ count.asks \in Nat /\ count'.asks \in Nat /\ plain'.ask \in Nat /\ count.intents \in 0 .. MaxIntents
  BY BoundsAssumption DEF SendInv, TypeOK
<1>2. \A x \in Held' : \E y \in Held : /\ x.id = y.id /\ x.ask = y.ask /\ x.query = y.query
                                       /\ \A s \in x.accepted : s \in y.accepted \/ RunFor(y, s) \in server.runs
  OBVIOUS
<1>3. \A x \in Used' : \E y \in Used : x.id = y.id /\ x.ask = y.ask
  <2>1. \A x \in Held' : \E y \in Used : x.id = y.id /\ x.ask = y.ask
    BY <1>2 DEF Used
  <2>2. QED
    BY <2>1 DEF Used
<1>4. AsksFit'
  BY <1>1, <1>2, <1>3, AsksKept DEF SendInv
<1>5. MarksFit'
  <2>1. SUFFICES ASSUME NEW x \in Held', NEW s \in x.accepted PROVE RunFor(x, s) \in server'.runs
    BY DEF MarksFit, RunFor
  <2>2. PICK y \in Held : /\ x.id = y.id /\ x.ask = y.ask
                          /\ s \in y.accepted \/ RunFor(y, s) \in server.runs
    BY <1>2, <2>1
  <2>3. RunFor(y, s) \in server.runs
    BY <2>2 DEF SendInv, MarksFit
  <2>4. RunFor(x, s) = RunFor(y, s)
    BY <2>2 DEF RunFor
  <2>5. QED
    BY <2>3, <2>4
<1>6. QED
  BY <1>4, <1>5 DEF SendInv

\* The same for a step that sends and answers nothing.
LEMMA Quietly ==
    ASSUME SendInv, UNCHANGED <<loops, wire, server>>,
           store' \in StoreSet, page' \in PageSet, plain' \in PlainSet, count' \in CountSet,
           store'.intent \in {store.intent, NoIntent},
           page'.intent \in {page.intent, store.intent, NoIntent},
           page'.reading \in {page.reading, page.intent, NoIntent},
           plain'.intent \in {plain.intent, page.intent, NoIntent},
           QuietFits', PageFits', CountsFit',
           count'.intents = count.intents, count'.home = count.home, count'.asks >= count.asks,
           \/ plain'.pc = "idle" \/ plain'.intent # NoIntent \/ ~Requires(plain'.query)
           \/ plain.pc # "idle" /\ plain'.intent = plain.intent /\ plain'.query = plain.query /\ plain'.ask = plain.ask
           \/ plain'.ask > count.asks
           \/ count.home = "hidden" /\ plain'.ask = 1
    PROVE  SendInv'
<1>1. TypeOK'
  <2>1. loops \in [Loops -> LoopSet] /\ wire \subseteq PostSet /\ server \in ServerSet
    BY Types DEF SendInv
  <2>2. QED
    BY <2>1, TypesNext
<1>2. PostsFit' /\ LoopsFit'
  BY DEF SendInv, PostsFit, LoopsFit, RunFor
<1>3. \A x \in Held' : x \in Held
  BY HeldIs, HeldIsNext
<1>4. \A x \in wire' \cup server'.runs : x \in Used
  BY DEF Used
<1>5. QED
  BY <1>1, <1>2, <1>3, <1>4, Keeps

\* Every intent somewhere has a number that was given.
LEMMA HeldTypes ==
    ASSUME SendInv
    PROVE  /\ \A x \in Held : x \in Intents /\ x.id \in 1 .. count.intents
           /\ \A y \in Used : y.id \in Nat \ {0}
<1>1. /\ store \in StoreSet /\ page \in PageSet /\ loops \in [Loops -> LoopSet]
      /\ plain \in PlainSet /\ wire \subseteq PostSet /\ server.runs \subseteq RunSet
  BY Types DEF SendInv, ServerSet
<1>2. ASSUME NEW x \in Held PROVE x \in Intents
  <2>1. x \in AnyIntent /\ x # NoIntent
    BY <1>1, HeldIs DEF StoreSet, PageSet, LoopSet, PlainSet
  <2>2. QED
    BY <2>1, IntentTypes
<1>3. \A y \in Used : y.id \in Nat \ {0}
  BY <1>1, <1>2, IntentTypes DEF Used, PostSet, RunSet
<1>4. ASSUME NEW x \in Held PROVE x.id \in 1 .. count.intents
  <2>1. PICK asked : FollowsOf(asked)
    BY DEF SendInv, AsksFit
  <2>2. x.id <= count.intents /\ count.intents \in Nat
    BY <2>1, BoundsAssumption DEF FollowsOf, Used, SendInv, TypeOK
  <2>3. QED
    BY <1>2, <2>2, IntentTypes
<1>5. QED
  BY <1>2, <1>3, <1>4

\* A submission shows another question in the way, or begins.
Submitted(query, ask, known, intent, l) ==
    /\ intent.query = query
    /\ IF known = NoIntent
       THEN /\ intent.id = count.intents + 1 /\ intent.ask = ask /\ intent.accepted = {}
            /\ count.intents < MaxIntents
            /\ count' \in CountSet /\ count'.intents = count.intents + 1 /\ count'.home = count.home
            /\ count'.asks >= count.asks /\ count'.asks >= ask
       ELSE intent = known /\ count' = count
    /\ store' \in StoreSet /\ store'.intent = intent /\ store'.pending = store.pending
    /\ loops[l].pc = "idle" /\ Stepped(l, intent, TRUE)

LEMMA SubmitEffect ==
    ASSUME SendInv, NEW query \in Questions, NEW ask \in 1 .. MaxAsks, NEW known \in Held \cup {NoIntent},
           NEW shown \in PageSet, Submit(query, ask, known, shown)
    PROVE  \/ page' = shown /\ UNCHANGED <<store, loops, wire, count>>
           \/ \E intent \in Intents, l \in Loops :
                 /\ Submitted(query, ask, known, intent, l)
                 /\ page' \in PageSet /\ page'.intent = intent
                 /\ page'.up = shown.up /\ page'.fixed = shown.fixed /\ page'.first = shown.first
                 /\ page'.reading = shown.reading /\ page'.clicked = shown.clicked
<1> DEFINE intent == IntentFor(query, ask, known)
           l == Min(FreeLoops)
<1>1. /\ store \in StoreSet /\ count \in CountSet
      /\ count.intents \in Nat /\ MaxIntents \in Nat /\ count.asks \in Nat /\ ask \in Nat
  BY Types, BoundsAssumption DEF SendInv, CountSet
<1>2. CASE intent.query # query
  BY <1>2 DEF Submit
<1>3. CASE intent.query = query
  <2>1. /\ intent.id <= MaxIntents /\ FreeLoops # {} /\ GoOn(l, intent, 0, TRUE)
        /\ \E n \in Loops \cup {0} : page' = [shown EXCEPT !.intent = intent, !.latest = n]
        /\ store' = [store EXCEPT !.intent = intent]
        /\ count' = IF intent.id > count.intents
                    THEN [count EXCEPT !.intents = @ + 1, !.asks = IF ask > @ THEN ask ELSE @]
                    ELSE count
    <3>1. FreeLoops # {}
      BY <1>3 DEF Submit
    <3>2. FreeLoops \subseteq Nat /\ FreeLoops \subseteq Loops
      BY DEF FreeLoops, Loops
    <3>3. l \in Loops
      BY <3>1, <3>2, MinIsThere
    <3>4. shown.latest \in Loops \cup {0}
      BY DEF PageSet
    <3>5. page' = [shown EXCEPT !.intent = intent,
                                !.latest = IF Unaccepted(intent, 0) = {} THEN shown.latest ELSE l]
      BY <1>3 DEF Submit
    <3>6. QED
      BY <1>3, <3>1, <3>3, <3>4, <3>5 DEF Submit
  <2>2. l \in Loops /\ loops[l].pc = "idle"
    <3>1. FreeLoops \subseteq Nat
      BY DEF FreeLoops, Loops
    <3>2. l \in FreeLoops
      BY <2>1, <3>1, MinIsThere
    <3>3. QED
      BY <3>2 DEF FreeLoops
  <2>3. Stepped(l, intent, TRUE)
    BY <2>1, GoOnSteps
  <2>4. CASE known = NoIntent
    <3>1. intent = [id |-> count.intents + 1, ask |-> ask, query |-> query, accepted |-> {}]
      BY <2>4 DEF IntentFor, NewIntent
    <3>2. count.intents + 1 \in 1 .. MaxIntents
      BY <1>1, <2>1, <3>1
    <3>3. /\ intent \in Intents /\ intent.id = count.intents + 1 /\ intent.ask = ask /\ intent.accepted = {}
      BY <3>1, <3>2 DEF Intents
    <3>4. count' = [count EXCEPT !.intents = count.intents + 1, !.asks = IF ask > count.asks THEN ask ELSE count.asks]
      BY <1>1, <2>1, <3>3
    <3>5. /\ count' \in CountSet /\ count'.intents = count.intents + 1 /\ count'.home = count.home
          /\ count'.asks = IF ask > count.asks THEN ask ELSE count.asks
      <4>1. count.intents + 1 \in 0 .. MaxIntents
        BY <1>1, <3>2
      <4>2. (IF ask > count.asks THEN ask ELSE count.asks) \in 0 .. MaxAsks
        BY <1>1, BoundsAssumption DEF CountSet
      <4>3. QED
        BY <1>1, <3>4, <4>1, <4>2 DEF CountSet
    <3>6. count'.asks >= count.asks /\ count'.asks >= ask
      BY <1>1, <3>5
    <3>7. count.intents < MaxIntents
      BY <1>1, <3>2
    <3> HIDE DEF intent, l
    <3>8. intent \in AnyIntent
      BY <3>3 DEF AnyIntent
    <3>9. store' \in StoreSet /\ store'.intent = intent /\ store'.pending = store.pending
      BY <1>1, <2>1, <3>8 DEF StoreSet
    <3>10. /\ page' \in PageSet /\ page'.intent = intent
           /\ page'.up = shown.up /\ page'.fixed = shown.fixed /\ page'.first = shown.first
           /\ page'.reading = shown.reading /\ page'.clicked = shown.clicked
      BY <2>1, <3>8 DEF PageSet
    <3>11. Submitted(query, ask, known, intent, l)
      BY <1>3, <2>2, <2>3, <2>4, <3>3, <3>5, <3>6, <3>7, <3>9 DEF Submitted
    <3>12. QED
      BY <2>2, <3>3, <3>10, <3>11
  <2>5. CASE known # NoIntent
    <3>1. intent = known /\ known \in Held
      BY <2>5 DEF IntentFor
    <3>2. intent \in Intents /\ intent.id \in 1 .. count.intents
      BY <3>1, HeldTypes
    <3>3. count' = count
      BY <1>1, <2>1, <3>2
    <3> HIDE DEF intent, l
    <3>4. intent \in AnyIntent
      BY <3>2 DEF AnyIntent
    <3>5. store' \in StoreSet /\ store'.intent = intent /\ store'.pending = store.pending
      BY <1>1, <2>1, <3>4 DEF StoreSet
    <3>6. /\ page' \in PageSet /\ page'.intent = intent
          /\ page'.up = shown.up /\ page'.fixed = shown.fixed /\ page'.first = shown.first
          /\ page'.reading = shown.reading /\ page'.clicked = shown.clicked
      BY <2>1, <3>4 DEF PageSet
    <3>7. Submitted(query, ask, known, intent, l)
      BY <1>3, <2>2, <2>3, <2>5, <3>1, <3>3, <3>5 DEF Submitted
    <3>8. QED
      BY <2>2, <3>2, <3>6, <3>7
  <2>6. QED
    BY <2>4, <2>5
<1>4. QED
  BY <1>2, <1>3

LEMMA SubmitFits ==
    ASSUME SendInv, NEW query \in Questions, NEW ask \in 1 .. MaxAsks, NEW known \in Held \cup {NoIntent},
           NEW shown \in PageSet, Submit(query, ask, known, shown), server' = server,
           page.up, shown.up, shown.fixed = page.fixed, shown.first = page.first,
           shown.intent = page.intent, shown.reading \in {page.reading, page.intent},
           shown.first = "active" \/ shown.clicked,
           page.fixed \/ store.intent.id \in {0, known.id},
           plain' \in PlainSet, plain'.intent \in {plain.intent, page.intent, NoIntent},
           plain'.pc # "idle" => plain'.ask \in 1 .. count.asks /\ plain'.query \in {"plain", "hidden"},
           plain'.pc = "required" => Requires(plain'.query),
           known = NoIntent => \/ ask > count.asks /\ (plain'.pc = "idle" \/ plain' = plain)
                               \/ /\ plain'.pc = "idle" /\ plain.pc # "idle" /\ plain.intent = NoIntent
                                  /\ plain.ask = ask /\ Requires(plain.query),
           known # NoIntent => plain'.pc = "idle" \/ plain'.intent # NoIntent \/ plain' = plain,
           \/ plain'.pc = "idle" \/ page.fixed
           \/ /\ known # NoIntent /\ known.id = store.intent.id
              /\ plain' = plain \/ plain'.intent = page.intent
    PROVE  SendInv'
<1>1. /\ store \in StoreSet /\ page \in PageSet /\ loops \in [Loops -> LoopSet]
      /\ plain \in PlainSet /\ server \in ServerSet /\ count \in CountSet
      /\ page.intent.id = store.intent.id
  BY Types DEF SendInv, PageFits
<1>2. /\ count.asks \in Nat /\ count.intents \in 0 .. MaxIntents /\ store.intent \in AnyIntent
      /\ page.intent \in AnyIntent /\ page.reading \in AnyIntent
  BY <1>1, BoundsAssumption DEF CountSet, StoreSet, PageSet
<1>3. CASE page' = shown /\ UNCHANGED <<store, loops, wire, count>>
  <2>1. QuietFits'
    BY <1>3 DEF QuietFits
  <2>2. PageFits'
    BY <1>1, <1>2, <1>3, IntentTypes DEF SendInv, PageFits
  <2>3. CountsFit'
    BY <1>3 DEF SendInv, CountsFit
  <2>4. \/ plain'.pc = "idle" \/ plain'.intent # NoIntent
        \/ plain.pc # "idle" /\ plain'.intent = plain.intent /\ plain'.query = plain.query /\ plain'.ask = plain.ask
    OBVIOUS
  <2>5. count'.intents = count.intents /\ count'.home = count.home /\ count'.asks >= count.asks
    BY <1>2, <1>3
  <2>6. QED
    BY <1>1, <1>3, <2>1, <2>2, <2>3, <2>4, <2>5, Quietly
<1>4. ASSUME NEW intent \in Intents, NEW l \in Loops,
             Submitted(query, ask, known, intent, l),
             page' \in PageSet, page'.intent = intent,
             page'.up = shown.up, page'.fixed = shown.fixed, page'.first = shown.first,
             page'.reading = shown.reading, page'.clicked = shown.clicked
      PROVE  SendInv'
  <2>1. /\ intent.query = query /\ store' \in StoreSet /\ store'.intent = intent
        /\ store'.pending = store.pending /\ loops[l].pc = "idle" /\ Stepped(l, intent, TRUE)
    BY <1>4 DEF Submitted
  <2>2. /\ count' \in CountSet /\ count'.home = count.home /\ count'.asks >= count.asks /\ count'.asks \in Nat
    BY <1>1, <1>4, BoundsAssumption DEF Submitted, CountSet
  <2>3. /\ loops' \in [Loops -> LoopSet] /\ wire' \subseteq PostSet
        /\ PostsFit' /\ LoopsFit'
        /\ \A k \in Loops \ {l} : loops'[k] = loops[k]
        /\ loops'[l].intent \in {intent, NoIntent}
        /\ \A post \in wire' : post \in wire \/ (post.id = intent.id /\ post.ask = intent.ask)
    BY <2>1, SteppedFits DEF SendInv
  <2>4. TypeOK'
    BY <1>1, <1>4, <2>1, <2>2, <2>3, TypesNext
  <2>5. QuietFits'
    BY <1>4 DEF QuietFits
  <2>6. intent \in AnyIntent /\ intent.id # 0 /\ (known # NoIntent => intent = known)
    BY <1>4, IntentTypes DEF Submitted, AnyIntent
  <2>7. PageFits'
    <3>1. page'.up => page'.intent.id = store'.intent.id
      BY <1>4, <2>1
    <3>2. ASSUME plain'.pc # "idle", ~page.fixed PROVE store'.intent.id = plain'.intent.id
      <4>1. known # NoIntent /\ known.id = store.intent.id /\ (plain' = plain \/ plain'.intent = page.intent)
        BY <3>2
      <4>2. store'.intent.id = store.intent.id /\ store.intent.id # 0
        BY <2>1, <2>6, <4>1
      <4>3. CASE plain' = plain
        BY <3>2, <4>2, <4>3 DEF SendInv, PageFits
      <4>4. CASE plain'.intent = page.intent
        BY <1>1, <4>2, <4>4
      <4>5. QED
        BY <4>1, <4>3, <4>4
    <3>3. ASSUME shown.reading # NoIntent, ~page.fixed PROVE store'.intent.id = shown.reading.id
      <4>1. shown.reading.id # 0 /\ shown.reading.id = store.intent.id
        BY <1>1, <1>2, <3>3, IntentTypes DEF SendInv, PageFits
      <4>2. store.intent.id = known.id /\ known # NoIntent
        BY <3>3, <4>1, IntentTypes
      <4>3. QED
        BY <2>1, <2>6, <4>1, <4>2
    <3>4. QED
      BY <1>4, <3>1, <3>2, <3>3 DEF PageFits
  <2>8. count'.asks = 0 => count'.intents = 0
    BY <1>2, <1>4 DEF Submitted, SendInv, CountsFit
  <2>9. CountsFit'
    <3>1. plain'.pc # "idle" => plain'.ask \in 1 .. count'.asks
      BY <1>2, <2>2
    <3>2. count.home # "none" => count'.asks > 0
      BY <1>2, <2>2 DEF SendInv, CountsFit
    <3>3. QED
      BY <2>1, <2>2, <2>8, <3>1, <3>2 DEF SendInv, CountsFit
  <2>10. \A x \in Held' : x \in Held \/ x = intent
    <3>1. SUFFICES ASSUME NEW x \in Held' PROVE x \in Held \/ x = intent
      OBVIOUS
    <3>2. x # NoIntent /\ (x \in {store'.intent, page'.intent, page'.reading, plain'.intent} \/ \E k \in Loops : x = loops'[k].intent)
      BY <3>1, HeldIsNext
    <3>3. CASE x \in {store'.intent, page'.intent, page'.reading, plain'.intent}
      BY <1>4, <2>1, <3>2, <3>3, HeldIs
    <3>4. ASSUME NEW k \in Loops, x = loops'[k].intent PROVE x \in Held \/ x = intent
      BY <2>3, <3>2, <3>4, HeldIs
    <3>5. QED
      BY <3>2, <3>3, <3>4
  <2>11. CASE known # NoIntent
    <3>1. intent = known /\ intent \in Held /\ count' = count
      BY <1>4, <2>11 DEF Submitted
    <3>2. \A x \in Held' : x \in Held
      BY <2>10, <3>1
    <3>3. \A x \in wire' \cup server'.runs : \E y \in Used : x.id = y.id /\ x.ask = y.ask
      BY <2>3, <3>1 DEF Used
    <3>4. \/ plain'.pc = "idle" \/ plain'.intent # NoIntent
          \/ plain.pc # "idle" /\ plain'.intent = plain.intent /\ plain'.query = plain.query /\ plain'.ask = plain.ask
      BY <2>11
    <3>5. count'.intents = count.intents /\ count'.home = count.home /\ server.runs \subseteq server'.runs
      BY <3>1
    <3>6. QED
      BY <2>2, <2>3, <2>4, <2>5, <2>7, <2>9, <3>2, <3>3, <3>4, <3>5, Keeps
  <2>12. CASE known = NoIntent
    <3>1. /\ intent.id = count.intents + 1 /\ intent.ask = ask /\ intent.accepted = {}
          /\ count'.intents = count.intents + 1 /\ count.intents < MaxIntents /\ ask <= count'.asks
      BY <1>2, <1>4, <2>2, <2>12 DEF Submitted
    <3>2. \A x \in Used' : (\E y \in Used : x.id = y.id /\ x.ask = y.ask) \/ (x.id = count.intents + 1 /\ x.ask = ask)
      <4>1. \A x \in Held' : x \in Used \/ (x.id = count.intents + 1 /\ x.ask = ask)
        BY <2>10, <3>1 DEF Used
      <4>2. \A x \in wire' \cup server'.runs : x \in Used \/ (x.id = count.intents + 1 /\ x.ask = ask)
        BY <2>3, <3>1 DEF Used
      <4>3. \A x \in Used' : x \in Held' \cup wire' \cup server'.runs
        BY DEF Used
      <4>4. QED
        BY <4>1, <4>2, <4>3
    <3>3. \A x \in Held' : (\E y \in Held : x.id = y.id /\ x.query = y.query) \/ (x.id = count.intents + 1 /\ x.query = query)
      BY <2>1, <2>10, <3>1
    <3>4. \/ ask > count.asks
          \/ /\ plain.pc # "idle" /\ plain.intent = NoIntent /\ Requires(plain.query) /\ ask = plain.ask
             /\ count'.home = count.home
      BY <2>2, <2>12
    <3>5. plain'.pc = "idle" \/ (plain' = plain /\ ask > count.asks /\ count'.home = count.home)
      BY <2>2, <2>12
    <3>6. AsksFit'
      BY <1>2, <2>2, <3>1, <3>2, <3>3, <3>4, <3>5, HeldTypes, AsksNew DEF SendInv
    <3>7. MarksFit'
      <4>1. \A x \in Held' : x \in Held \/ x.accepted = {}
        BY <2>10, <3>1
      <4>2. QED
        BY <4>1 DEF SendInv, MarksFit, RunFor
    <3>8. QED
      BY <2>3, <2>4, <2>5, <2>7, <2>9, <3>6, <3>7 DEF SendInv
  <2>13. QED
    BY <2>11, <2>12
<1>5. QED
  BY <1>3, <1>4, SubmitEffect

-----------------------------------------------------------------------------
(* The steps of the page and its person *)

LEMMA SomeTypes ==
    ASSUME SendInv
    PROVE  /\ store \in StoreSet /\ page \in PageSet /\ loops \in [Loops -> LoopSet]
           /\ plain \in PlainSet /\ wire \subseteq PostSet /\ server \in ServerSet /\ count \in CountSet
           /\ count.asks \in Nat /\ count.intents \in Nat /\ count.intents \in 0 .. MaxIntents
           /\ count.faults \in Nat /\ plain.ask \in Nat
           /\ store.intent \in AnyIntent /\ page.intent \in AnyIntent
           /\ page.reading \in AnyIntent /\ plain.intent \in AnyIntent
<1>1. /\ store \in StoreSet /\ page \in PageSet /\ loops \in [Loops -> LoopSet]
      /\ plain \in PlainSet /\ wire \subseteq PostSet /\ server \in ServerSet /\ count \in CountSet
  BY Types DEF SendInv
<1>2. QED
  BY <1>1, BoundsAssumption DEF StoreSet, PageSet, PlainSet, CountSet

\* A page that was just opened.
LEMMA OpenedPage ==
    ASSUME NEW intent \in AnyIntent, NEW fixed \in BOOLEAN
    PROVE  /\ NoPage \in PageSet /\ Opened(intent, fixed) \in PageSet
           /\ ~NoPage.up /\ NoPage.first = "unknown" /\ ~NoPage.clicked
           /\ NoPage.intent = NoIntent /\ NoPage.reading = NoIntent
           /\ Opened(intent, fixed).up /\ Opened(intent, fixed).first = "unknown"
           /\ ~Opened(intent, fixed).clicked /\ Opened(intent, fixed).intent = intent
           /\ Opened(intent, fixed).reading = NoIntent /\ Opened(intent, fixed).fixed = fixed
<1>1. NoPage \in PageSet
  <2>1. /\ NoIntent \in AnyIntent /\ 0 \in 0 .. MaxIntents /\ 0 \in Loops \cup {0}
        /\ {} \in SUBSET (1 .. MaxIntents) /\ FALSE \in BOOLEAN
    BY IntentTypes, BoundsAssumption
  <2>2. QED
    BY <2>1 DEF NoPage, PageSet
<1>2. intent.id \in 0 .. MaxIntents
  BY IntentTypes, BoundsAssumption
<1>3. /\ ~NoPage.up /\ NoPage.first = "unknown" /\ ~NoPage.clicked
      /\ NoPage.intent = NoIntent /\ NoPage.reading = NoIntent
  BY DEF NoPage
<1>4. Opened(intent, fixed) = [NoPage EXCEPT !.up = TRUE, !.fixed = fixed, !.intent = intent, !.initial = intent.id]
  BY DEF Opened
<1>5. QED
  BY <1>1, <1>2, <1>3, <1>4 DEF PageSet

LEMMA OpenFits ==
    ASSUME SendInv, NEW fixed \in BOOLEAN, Open(fixed)
    PROVE  SendInv'
<1>1. /\ ~page.up /\ page' = Opened(store.intent, fixed)
      /\ UNCHANGED <<store, loops, plain, wire, server, count>>
  BY DEF Open
<1>2. /\ page' \in PageSet /\ page'.up /\ page'.first = "unknown" /\ ~page'.clicked
      /\ page'.intent = store.intent /\ page'.reading = NoIntent /\ page'.fixed = fixed
  BY <1>1, SomeTypes, OpenedPage
<1>3. plain.pc = "idle" /\ \A l \in Loops : loops[l].pc # "idle" => ~loops[l].own
  BY <1>1 DEF SendInv, PageFits, QuietFits
<1>4. QuietFits' /\ PageFits' /\ CountsFit'
  BY <1>1, <1>2, <1>3 DEF QuietFits, PageFits, CountsFit, SendInv
<1>5. count'.asks >= count.asks
  BY <1>1, SomeTypes
<1>6. QED
  BY <1>1, <1>2, <1>3, <1>4, <1>5, SomeTypes, Quietly

LEMMA SeeFits ==
    ASSUME SendInv, See
    PROVE  SendInv'
<1>1. /\ page.up /\ UNCHANGED <<store, loops, plain, wire, server, count>>
      /\ page' = [page EXCEPT !.seen = server.status,
                              !.first = IF page.first = "unknown" THEN server.status ELSE page.first]
  BY DEF See
<1>2. server.status \in {"active", "archived"} /\ page.first \in {"unknown", "active", "archived"}
  BY SomeTypes DEF ServerSet, PageSet
<1>3. /\ page' \in PageSet /\ page'.up = page.up /\ page'.clicked = page.clicked /\ page'.fixed = page.fixed
      /\ page'.intent = page.intent /\ page'.reading = page.reading
      /\ page'.first = IF page.first = "unknown" THEN server.status ELSE page.first
  BY <1>1, <1>2, SomeTypes DEF PageSet
<1>4. QuietFits' /\ PageFits' /\ CountsFit'
  BY <1>1, <1>3 DEF QuietFits, PageFits, CountsFit, SendInv
<1>5. count'.asks >= count.asks
  BY <1>1, SomeTypes
<1>6. QED
  BY <1>1, <1>3, <1>4, <1>5, SomeTypes, Quietly

\* The plain message that leaves.
LEMMA SendingIs ==
    ASSUME page.intent \in AnyIntent, NEW query \in Questions, NEW ask \in 1 .. MaxAsks
    PROVE  /\ Sending(query, ask) \in PlainSet /\ Sending(query, ask).pc = "sent"
           /\ Sending(query, ask).query = query /\ Sending(query, ask).ask = ask
           /\ Sending(query, ask).intent = page.intent
BY BoundsAssumption DEF Sending, PlainSet

LEMMA EffectsFit ==
    ASSUME SendInv, Effects
    PROVE  SendInv'
<1> DEFINE shown == [page EXCEPT !.auto = page.auto \/ SubmitsIntent,
                                 !.tried = page.tried \/ SendsPending,
                                 !.reading = IF Reconciles THEN page.intent ELSE page.reading,
                                 !.reconciled = IF Reconciles THEN page.reconciled \cup {page.intent.id} ELSE page.reconciled]
<1>1. /\ page.up /\ server' = server
      /\ plain' = IF SendsPending THEN Sending(store.pending, 1) ELSE plain
      /\ IF SubmitsIntent
         THEN Submit(page.intent.query, page.intent.ask, page.intent, shown)
         ELSE page' = shown /\ UNCHANGED <<store, loops, wire, count>>
  BY DEF Effects, Settled, SubmitsIntent, SendsPending, Reconciles, Active
<1>2. /\ shown \in PageSet /\ shown.up = page.up /\ shown.clicked = page.clicked /\ shown.fixed = page.fixed
      /\ shown.intent = page.intent /\ shown.first = page.first
      /\ shown.reading \in {page.reading, page.intent}
  <2> DEFINE auto == page.auto \/ SubmitsIntent
             tried == page.tried \/ SendsPending
             reading == IF Reconciles THEN page.intent ELSE page.reading
             reconciled == IF Reconciles THEN page.reconciled \cup {page.intent.id} ELSE page.reconciled
  <2>1. auto \in BOOLEAN /\ tried \in BOOLEAN
    OBVIOUS
  <2>2. reading \in AnyIntent /\ reading \in {page.reading, page.intent}
    BY SomeTypes
  <2>3. reconciled \in SUBSET (1 .. MaxIntents)
    <3>1. page.reconciled \in SUBSET (1 .. MaxIntents)
      BY SomeTypes DEF PageSet
    <3>2. Reconciles => page.intent.id \in 1 .. MaxIntents
      BY SomeTypes, IntentTypes DEF Reconciles
    <3>3. QED
      BY <3>1, <3>2
  <2>4. shown = [page EXCEPT !.auto = auto, !.tried = tried, !.reading = reading, !.reconciled = reconciled]
    OBVIOUS
  <2> HIDE DEF shown, auto, tried, reading, reconciled
  <2>5. QED
    BY <2>1, <2>2, <2>3, <2>4, SomeTypes DEF PageSet
<1> HIDE DEF shown
<1>3. plain' = plain \/ (/\ page.first = "active" /\ plain.pc = "idle" /\ plain' \in PlainSet /\ plain'.pc = "sent"
                         /\ plain'.query = count.home /\ plain'.query \in {"plain", "hidden"}
                         /\ plain'.ask = 1 /\ count.asks > 0 /\ plain'.intent = page.intent)
  <2>1. CASE ~SendsPending
    BY <1>1, <2>1
  <2>2. CASE SendsPending
    <3>1. store.pending \in {"plain", "hidden"} /\ page.first = "active" /\ plain.pc = "idle"
      BY <2>2, SomeTypes DEF SendsPending, StoreSet
    <3>2. count.home = store.pending /\ count.asks > 0
      BY <3>1 DEF SendInv, CountsFit
    <3>3. 1 \in 1 .. MaxAsks
      BY <3>2, SomeTypes, BoundsAssumption DEF CountSet
    <3>4. store.pending \in Questions
      BY <3>1 DEF Questions
    <3>5. QED
      BY <1>1, <2>2, <3>1, <3>2, <3>3, <3>4, SomeTypes, SendingIs
  <2>3. QED
    BY <2>1, <2>2
<1>4. /\ plain' \in PlainSet /\ plain'.intent \in {plain.intent, page.intent, NoIntent}
      /\ plain'.pc # "idle" => plain'.ask \in 1 .. count.asks /\ plain'.query \in {"plain", "hidden"}
      /\ plain'.pc = "required" => Requires(plain'.query)
  BY <1>3, SomeTypes DEF SendInv, CountsFit
<1>5. CASE SubmitsIntent
  <2>1. /\ page.intent \in Held /\ page.intent # NoIntent /\ page.first = "active"
    BY <1>5, HeldIs DEF SubmitsIntent
  <2>2. page.intent.query \in Questions /\ page.intent.ask \in 1 .. MaxAsks
    BY <2>1, HeldTypes, IntentTypes
  <2>4. store.intent.id = page.intent.id
    BY <1>1 DEF SendInv, PageFits
  <2>5. \/ plain' = plain \/ plain'.intent = page.intent
    BY <1>3
  <2>6. Submit(page.intent.query, page.intent.ask, page.intent, shown)
    BY <1>1, <1>5
  <2>7. shown.up /\ shown.first = "active" /\ page.intent \in Held \cup {NoIntent}
    BY <1>1, <1>2, <2>1
  <2>8. plain'.pc = "idle" \/ plain'.intent # NoIntent \/ plain' = plain
    BY <2>1, <2>5
  <2>9. QED
    BY <1>1, <1>2, <1>4, <2>1, <2>2, <2>4, <2>5, <2>6, <2>7, <2>8, SubmitFits
<1>6. CASE ~SubmitsIntent
  <2>1. page' = shown /\ UNCHANGED <<store, loops, wire, count>>
    BY <1>1, <1>6
  <2>2. QuietFits'
    BY <1>2, <1>3, <2>1 DEF SendInv, QuietFits
  <2>3. PageFits'
    BY <1>1, <1>2, <1>3, <2>1 DEF SendInv, PageFits
  <2>4. CountsFit'
    BY <1>4, <2>1 DEF SendInv, CountsFit
  <2>5. \/ plain'.pc = "idle" \/ plain'.intent # NoIntent \/ ~Requires(plain'.query)
        \/ plain.pc # "idle" /\ plain'.intent = plain.intent /\ plain'.query = plain.query /\ plain'.ask = plain.ask
        \/ count.home = "hidden" /\ plain'.ask = 1
    BY <1>3 DEF Requires
  <2>6. count'.asks >= count.asks
    BY <2>1, SomeTypes
  <2>7. QED
    BY <1>1, <1>2, <1>4, <2>1, <2>2, <2>3, <2>4, <2>5, <2>6, SomeTypes, Quietly
<1>7. QED
  BY <1>5, <1>6

\* The question of a retry or a new one.
LEMMA AskOfIs ==
    ASSUME SendInv, NEW query \in Questions, AskOf(query) <= MaxAsks
    PROVE  /\ AskOf(query) \in 1 .. MaxAsks
           /\ page.intent.query = query => page.intent # NoIntent /\ AskOf(query) <= count.asks
           /\ page.intent.query # query => AskOf(query) = count.asks + 1
<1>1. CASE page.intent.query = query
  <2>1. page.intent # NoIntent
    BY <1>1, IntentTypes DEF Questions
  <2>2. page.intent \in Held /\ page.intent \in Intents
    BY <2>1, HeldIs, HeldTypes
  <2>3. page.intent.ask \in 1 .. MaxAsks /\ page.intent.id \in 1 .. count.intents
    BY <2>2, HeldTypes, IntentTypes
  <2>4. PICK asked \in Asked : QuestionsOf(asked) /\ FollowsOf(asked)
    BY DEF SendInv, AsksFit
  <2>5. page.intent.ask <= count.asks
    BY <2>2, <2>3, <2>4 DEF QuestionsOf, FollowsOf, Used
  <2>6. QED
    BY <1>1, <2>1, <2>3, <2>5 DEF AskOf
<1>2. CASE page.intent.query # query
  BY <1>2, SomeTypes, BoundsAssumption DEF AskOf
<1>3. QED
  BY <1>1, <1>2

LEMMA SendFits ==
    ASSUME SendInv, NEW query \in Questions, Send(query)
    PROVE  SendInv'
<1> DEFINE ask == AskOf(query)
           shown == [page EXCEPT !.clicked = TRUE]
<1>1. /\ page.up /\ plain.pc = "idle" /\ ~page.fixed /\ server' = server /\ query # "health"
      /\ ask <= MaxAsks
  BY DEF Send, Active
<1>2. /\ shown \in PageSet /\ shown.up /\ shown.clicked /\ shown.fixed = page.fixed
      /\ shown.intent = page.intent /\ shown.first = page.first /\ shown.reading = page.reading
  BY <1>1, SomeTypes DEF PageSet
<1>3. /\ ask \in 1 .. MaxAsks
      /\ page.intent.query = query => page.intent # NoIntent /\ ask <= count.asks
      /\ page.intent.query # query => ask = count.asks + 1
  BY <1>1, AskOfIs
<1>4. page.intent.id = store.intent.id /\ page.intent \in Held \cup {NoIntent}
  BY <1>1, HeldIs DEF SendInv, PageFits
<1>5. CASE Investigates(query)
  <2>1. Submit(query, ask, page.intent, shown) /\ plain' = plain
    BY <1>5 DEF Send
  <2>2. page.intent = NoIntent => ask > count.asks
    BY <1>3, SomeTypes, IntentTypes DEF Questions
  <2> HIDE DEF ask, shown
  <2>3. QED
    BY <1>1, <1>2, <1>3, <1>4, <2>1, <2>2, SomeTypes, SubmitFits
<1>6. CASE ~Investigates(query)
  <2>1. /\ plain' = Sending(query, ask) /\ page' = shown /\ UNCHANGED <<store, loops, wire>>
        /\ count' = [count EXCEPT !.asks = IF ask > count.asks THEN ask ELSE count.asks]
    BY <1>6 DEF Send
  <2>2. /\ plain' \in PlainSet /\ plain'.pc = "sent" /\ plain'.query = query /\ plain'.ask = ask
        /\ plain'.intent = page.intent /\ query \in {"plain", "hidden"}
    BY <1>1, <1>3, <1>6, <2>1, SomeTypes, SendingIs DEF Investigates, Questions
  <2>3. /\ count' \in CountSet /\ count'.intents = count.intents /\ count'.home = count.home
        /\ count'.asks >= count.asks /\ count'.asks \in Nat /\ ask <= count'.asks
    <3> HIDE DEF ask
    <3>1. (IF ask > count.asks THEN ask ELSE count.asks) \in 0 .. MaxAsks
      BY <1>3, SomeTypes DEF CountSet
    <3>2. /\ count' \in CountSet /\ count'.intents = count.intents /\ count'.home = count.home
          /\ count'.asks = IF ask > count.asks THEN ask ELSE count.asks
      BY <2>1, <3>1, SomeTypes DEF CountSet
    <3>3. QED
      BY <1>3, <3>2, SomeTypes
  <2> HIDE DEF ask, shown
  <2>4. plain'.intent # NoIntent \/ plain'.ask > count.asks
    BY <1>3, <2>2, SomeTypes, IntentTypes DEF Questions
  <2>5. QuietFits'
    BY <1>2, <2>1 DEF QuietFits
  <2>6. PageFits'
    BY <1>1, <1>2, <1>4, <2>1, <2>2 DEF SendInv, PageFits
  <2>7. CountsFit'
    BY <1>3, <2>1, <2>2, <2>3, SomeTypes DEF SendInv, CountsFit
  <2>8. page' \in PageSet /\ page'.intent = page.intent /\ page'.reading = page.reading
    BY <1>2, <2>1
  <2>9. QED
    BY <1>1, <2>1, <2>2, <2>3, <2>4, <2>5, <2>6, <2>7, <2>8, SomeTypes, Quietly
<1>7. QED
  BY <1>5, <1>6

LEMMA SendHealthFits ==
    ASSUME SendInv, SendHealth
    PROVE  SendInv'
<1> DEFINE ask == AskOf("health")
           shown == [page EXCEPT !.clicked = TRUE]
<1>1. /\ page.up /\ page.fixed /\ server' = server /\ ask <= MaxAsks /\ "health" \in Questions
      /\ Submit("health", ask, page.intent, shown) /\ plain' = plain
  BY DEF SendHealth, Active, Questions
<1>2. /\ shown \in PageSet /\ shown.up /\ shown.clicked /\ shown.fixed = page.fixed
      /\ shown.intent = page.intent /\ shown.first = page.first /\ shown.reading = page.reading
  BY <1>1, SomeTypes DEF PageSet
<1>3. /\ ask \in 1 .. MaxAsks
      /\ page.intent.query # "health" => ask = count.asks + 1
  BY <1>1, AskOfIs
<1>4. page.intent \in Held \cup {NoIntent}
  BY HeldIs
<1>5. page.intent = NoIntent => ask > count.asks
  BY <1>3, SomeTypes, IntentTypes
<1>6. /\ plain.pc # "idle" => plain.ask \in 1 .. count.asks /\ plain.query \in {"plain", "hidden"}
      /\ plain.pc = "required" => Requires(plain.query)
  BY DEF SendInv, CountsFit
<1> HIDE DEF ask, shown
<1>7. QED
  BY <1>1, <1>2, <1>3, <1>4, <1>5, <1>6, SomeTypes, SubmitFits

LEMMA DiscardFits ==
    ASSUME SendInv, Discard
    PROVE  SendInv'
<1>1. /\ page.up /\ page.fixed /\ UNCHANGED <<loops, plain, wire, server, count>>
      /\ store' = [store EXCEPT !.intent = NoIntent]
      /\ page' = [page EXCEPT !.intent = NoIntent, !.clicked = TRUE]
  BY DEF Discard, Active
<1>2. /\ store' \in StoreSet /\ store'.intent = NoIntent /\ store'.pending = store.pending
      /\ page' \in PageSet /\ page'.intent = NoIntent /\ page'.clicked /\ page'.up = page.up
      /\ page'.fixed = page.fixed /\ page'.reading = page.reading
  BY <1>1, SomeTypes, IntentTypes DEF StoreSet, PageSet
<1>3. QuietFits' /\ PageFits' /\ CountsFit'
  BY <1>1, <1>2 DEF SendInv, QuietFits, PageFits, CountsFit
<1>4. count'.asks >= count.asks
  BY <1>1, SomeTypes
<1>5. QED
  BY <1>1, <1>2, <1>3, <1>4, SomeTypes, Quietly

LEMMA PlainEndsFit ==
    ASSUME SendInv, PlainEnds
    PROVE  SendInv'
<1>1. NoPlain \in PlainSet /\ NoPlain.pc = "idle" /\ NoPlain.intent = NoIntent
  BY IntentTypes, BoundsAssumption DEF NoPlain, PlainSet
<1>2. page.up /\ plain' = NoPlain /\ server' = server
  BY DEF PlainEnds
<1>3. CASE plain.pc = "required"
  <2>1. Submit(plain.query, plain.ask, plain.intent, page) /\ Requires(plain.query)
    BY <1>3 DEF PlainEnds, SendInv, CountsFit
  <2>2. plain.ask \in 1 .. MaxAsks /\ plain.query \in Questions /\ plain.ask \in 1 .. count.asks
    <3>1. plain.ask \in 1 .. count.asks /\ plain.query \in {"plain", "hidden"} /\ count.asks \in 0 .. MaxAsks
      BY <1>3, SomeTypes DEF SendInv, CountsFit, CountSet
    <3>2. QED
      BY <3>1, BoundsAssumption DEF Questions
  <2>3. plain.intent \in Held \cup {NoIntent}
    BY HeldIs
  <2>4. page.fixed \/ store.intent.id \in {0, plain.intent.id}
    BY <1>3 DEF SendInv, PageFits
  <2>5. page.first = "active" \/ page.clicked
    BY <1>3 DEF SendInv, QuietFits
  <2>6. QED
    BY <1>1, <1>2, <1>3, <2>1, <2>2, <2>3, <2>4, <2>5, SomeTypes, SubmitFits
<1>4. CASE plain.pc # "required"
  <2>1. /\ UNCHANGED <<page, loops, wire, count>>
        /\ store' = store \/ store' = [store EXCEPT !.pending = "none"]
    BY <1>4 DEF PlainEnds
  <2>2. /\ store' \in StoreSet /\ store'.intent = store.intent
        /\ store'.pending \in {store.pending, "none"}
    BY <2>1, SomeTypes DEF StoreSet
  <2>3. QuietFits' /\ PageFits' /\ CountsFit'
    BY <1>1, <1>2, <2>1, <2>2 DEF SendInv, QuietFits, PageFits, CountsFit
  <2>4. count'.asks >= count.asks
    BY <2>1, SomeTypes
  <2>5. QED
    BY <1>1, <1>2, <2>1, <2>2, <2>3, <2>4, SomeTypes, Quietly
<1>5. QED
  BY <1>3, <1>4

LEMMA ReadingFits ==
    ASSUME SendInv, ReadEnds
    PROVE  SendInv'
<1>1. /\ UNCHANGED <<loops, plain, wire, server, count>> /\ page.up
      /\ \/ /\ store' = [store EXCEPT !.intent = NoIntent]
            /\ page' = [page EXCEPT !.intent = NoIntent, !.reading = NoIntent, !.fixed = FALSE]
         \/ page' = [page EXCEPT !.reading = NoIntent] /\ store' = store
  BY DEF ReadEnds
<1>2. /\ store' \in StoreSet /\ store'.pending = store.pending /\ page' \in PageSet
      /\ page'.up /\ page'.first = page.first /\ page'.clicked = page.clicked /\ page'.reading = NoIntent
      /\ \/ store'.intent = NoIntent /\ page'.intent = NoIntent
         \/ store' = store /\ page'.intent = page.intent /\ page'.fixed = page.fixed
  BY <1>1, SomeTypes, IntentTypes DEF StoreSet, PageSet
<1>3. QuietFits' /\ CountsFit'
  BY <1>1, <1>2 DEF SendInv, QuietFits, CountsFit
<1>4. PageFits'
  BY <1>1, <1>2, IntentTypes DEF SendInv, PageFits
<1>5. count'.asks >= count.asks
  BY <1>1, SomeTypes
<1>6. QED
  BY <1>1, <1>2, <1>3, <1>4, <1>5, SomeTypes, Quietly

-----------------------------------------------------------------------------
(* Faults and answers *)

LEMMA FaultIs ==
    ASSUME SendInv, Fault
    PROVE  /\ count' \in CountSet /\ count'.intents = count.intents /\ count'.home = count.home
           /\ count'.asks = count.asks /\ count'.asks >= count.asks
<1>1. count.faults + 1 \in 0 .. MaxFaults
  BY SomeTypes, BoundsAssumption DEF Fault
<1>2. QED
  BY <1>1, SomeTypes DEF Fault, CountSet

LEMMA ReadFailsFits ==
    ASSUME SendInv, ReadFails
    PROVE  SendInv'
<1>1. /\ UNCHANGED <<store, loops, plain, wire, server>> /\ Fault
      /\ page' = [page EXCEPT !.reading = NoIntent]
  BY DEF ReadFails
<1>2. /\ page' \in PageSet /\ page'.reading = NoIntent /\ page'.up = page.up /\ page'.first = page.first
      /\ page'.clicked = page.clicked /\ page'.intent = page.intent /\ page'.fixed = page.fixed
  BY <1>1, SomeTypes, IntentTypes DEF PageSet
<1>3. QuietFits' /\ PageFits' /\ CountsFit'
  BY <1>1, <1>2, FaultIs DEF SendInv, QuietFits, PageFits, CountsFit
<1>4. QED
  BY <1>1, <1>2, <1>3, FaultIs, SomeTypes, Quietly

LEMMA PlainFits ==
    ASSUME SendInv, HandlePlain \/ LosePlain
    PROVE  SendInv'
<1>1. /\ UNCHANGED <<store, page, loops, wire, server>> /\ plain.pc # "idle"
      /\ \E pc \in {"required", "saved", "failed"} :
            plain' = [plain EXCEPT !.pc = pc] /\ (pc = "required" => Requires(plain.query))
      /\ count' = count \/ Fault
  BY DEF HandlePlain, LosePlain
<1>2. /\ plain' \in PlainSet /\ plain'.pc \in {"required", "saved", "failed"}
      /\ plain'.query = plain.query /\ plain'.ask = plain.ask /\ plain'.intent = plain.intent
      /\ plain'.pc = "required" => Requires(plain.query)
  BY <1>1, SomeTypes DEF PlainSet
<1>3. /\ count' \in CountSet /\ count'.intents = count.intents /\ count'.home = count.home
      /\ count'.asks = count.asks /\ count'.asks >= count.asks
  BY <1>1, FaultIs, SomeTypes
<1>4. QuietFits' /\ PageFits' /\ CountsFit'
  BY <1>1, <1>2, <1>3 DEF SendInv, QuietFits, PageFits, CountsFit
<1>5. QED
  BY <1>1, <1>2, <1>3, <1>4, SomeTypes, Quietly

\* What happens to the session and its messages.
LEMMA ServerFits ==
    ASSUME SendInv, Archive \/ \E run \in server.runs : DeleteMessage(run)
    PROVE  SendInv'
<1>1. /\ UNCHANGED <<store, page, loops, plain, wire>> /\ Fault
      /\ \/ \E status \in {"active", "archived"} : server' = [server EXCEPT !.status = status]
         \/ \E run \in server.runs : server' = [server EXCEPT !.deleted = server.deleted \cup {run}]
  BY DEF Archive, DeleteMessage
<1>2. server' \in ServerSet /\ server'.runs = server.runs
  BY <1>1, SomeTypes DEF ServerSet
<1>3. TypeOK'
  BY <1>1, <1>2, FaultIs, SomeTypes, TypesNext
<1>4. PostsFit' /\ LoopsFit' /\ QuietFits' /\ PageFits' /\ CountsFit'
  BY <1>1, <1>2, FaultIs DEF SendInv, PostsFit, LoopsFit, QuietFits, PageFits, CountsFit, RunFor
<1>5. \A x \in Held' : x \in Held
  BY <1>1, HeldIs, HeldIsNext
<1>6. \A x \in wire' \cup server'.runs : x \in Used
  BY <1>1, <1>2 DEF Used
<1>7. \/ plain'.pc = "idle"
      \/ plain.pc # "idle" /\ plain'.intent = plain.intent /\ plain'.query = plain.query /\ plain'.ask = plain.ask
  BY <1>1
<1>8. server.runs \subseteq server'.runs
  BY <1>2
<1>9. QED
  BY <1>1, <1>3, <1>4, <1>5, <1>6, <1>7, <1>8, FaultIs, Keeps

\* Once the page is gone nobody awaits what is on its way.
LEMMA GoneFits ==
    ASSUME SendInv, Leave \/ Reload
    PROVE  SendInv'
<1>1. /\ page' = NoPage /\ plain' = NoPlain /\ UNCHANGED <<store, server>> /\ Fault
  BY DEF Leave, Reload
<1>2. /\ NoPlain \in PlainSet /\ NoPlain.pc = "idle" /\ NoPlain.intent = NoIntent
      /\ NoLoop \in LoopSet /\ NoLoop.pc = "idle" /\ NoLoop.intent = NoIntent
  BY IntentTypes, BoundsAssumption DEF NoPlain, PlainSet, NoLoop, LoopSet
<1>3. /\ NoPage \in PageSet /\ ~NoPage.up /\ NoPage.first = "unknown" /\ ~NoPage.clicked
      /\ NoPage.intent = NoIntent /\ NoPage.reading = NoIntent
  BY IntentTypes, OpenedPage
<1>4. /\ loops' \in [Loops -> LoopSet]
      /\ \A l \in Loops : \/ /\ loops'[l].pc = loops[l].pc /\ loops'[l].intent = loops[l].intent
                             /\ loops'[l].at = loops[l].at /\ ~loops'[l].own
                          \/ loops'[l].pc = "idle" /\ loops'[l].intent = NoIntent
  <2>1. CASE Leave
    <3>1. loops' = [l \in Loops |-> [loops[l] EXCEPT !.own = FALSE]]
      BY <2>1 DEF Leave
    <3>2. \A l \in Loops : /\ [loops[l] EXCEPT !.own = FALSE] \in LoopSet
                           /\ [loops[l] EXCEPT !.own = FALSE].pc = loops[l].pc
                           /\ [loops[l] EXCEPT !.own = FALSE].intent = loops[l].intent
                           /\ [loops[l] EXCEPT !.own = FALSE].at = loops[l].at
                           /\ ~[loops[l] EXCEPT !.own = FALSE].own
      BY SomeTypes DEF LoopSet
    <3>3. QED
      BY <3>1, <3>2
  <2>2. CASE Reload
    BY <1>2, <2>2 DEF Reload
  <2>3. QED
    BY <2>1, <2>2
<1>5. /\ wire' \subseteq PostSet /\ PostsFit'
      /\ \A x \in wire' : \E y \in wire : x.id = y.id /\ x.ask = y.ask
  <2>1. CASE Leave
    <3>1. wire' = wire /\ loops' = [l \in Loops |-> [loops[l] EXCEPT !.own = FALSE]]
      BY <2>1 DEF Leave
    <3>2. ASSUME NEW post \in wire, post.by # 0
          PROVE  /\ loops'[post.by].pc = loops[post.by].pc /\ loops'[post.by].at = loops[post.by].at
                 /\ loops'[post.by].intent = loops[post.by].intent
      <4>1. post.by \in Loops /\ loops[post.by] \in LoopSet
        BY <3>2, SomeTypes DEF PostSet
      <4>2. QED
        BY <3>1, <4>1 DEF LoopSet
    <3>3. PostsFit'
      BY <3>1, <3>2 DEF SendInv, PostsFit
    <3>4. QED
      BY <3>1, <3>3, SomeTypes
  <2>2. CASE Reload
    <3>1. wire' = {[post EXCEPT !.by = 0] : post \in wire}
      BY <2>2 DEF Reload
    <3>2. \A post \in wire : /\ [post EXCEPT !.by = 0] \in PostSet /\ [post EXCEPT !.by = 0].by = 0
                             /\ [post EXCEPT !.by = 0].id = post.id /\ [post EXCEPT !.by = 0].ask = post.ask
      BY SomeTypes DEF PostSet
    <3>3. PostsFit'
      <4>1. ASSUME NEW x \in wire' PROVE x.by = 0
        <5>1. PICK post \in wire : x = [post EXCEPT !.by = 0]
          BY <3>1, <4>1
        <5>2. QED
          BY <3>2, <5>1
      <4>2. QED
        BY <4>1 DEF PostsFit
    <3>4. ASSUME NEW x \in wire' PROVE x \in PostSet /\ \E y \in wire : x.id = y.id /\ x.ask = y.ask
      <4>1. PICK post \in wire : x = [post EXCEPT !.by = 0]
        BY <3>1, <3>4
      <4>2. QED
        BY <3>2, <4>1
    <3>5. QED
      BY <3>3, <3>4
  <2>3. QED
    BY <2>1, <2>2
<1>6. TypeOK'
  BY <1>1, <1>2, <1>3, <1>4, <1>5, FaultIs, SomeTypes, TypesNext
<1>7. LoopsFit'
  BY <1>1, <1>4 DEF SendInv, LoopsFit, RunFor
<1>8. QuietFits'
  BY <1>1, <1>2, <1>4 DEF QuietFits
<1>9. PageFits' /\ CountsFit'
  BY <1>1, <1>2, <1>3, FaultIs DEF SendInv, PageFits, CountsFit
<1>10. \A x \in Held' : x \in Held
  <2>1. SUFFICES ASSUME NEW x \in Held' PROVE x \in Held
    OBVIOUS
  <2>2. x # NoIntent /\ (x = store.intent \/ \E l \in Loops : x = loops'[l].intent)
    BY <1>1, <1>2, <1>3, <2>1, HeldIsNext
  <2>3. QED
    BY <1>4, <2>2, HeldIs
<1>11. \A x \in wire' \cup server'.runs : \E y \in Used : x.id = y.id /\ x.ask = y.ask
  BY <1>1, <1>5 DEF Used
<1>12. server.runs \subseteq server'.runs /\ plain'.pc = "idle"
  BY <1>1, <1>2
<1>13. QED
  BY <1>1, <1>5, <1>6, <1>7, <1>8, <1>9, <1>10, <1>11, <1>12, FaultIs, Keeps

\* The answer to a request that is handled, lost or late.
LEMMA AnswerIs ==
    ASSUME SendInv, NEW post \in wire, NEW pc \in {"ok", "failed"}, loops' = Answer(post, pc)
    PROVE  /\ loops' \in [Loops -> LoopSet]
           /\ \A l \in Loops : /\ loops'[l].intent = loops[l].intent /\ loops'[l].at = loops[l].at
                               /\ loops'[l].own = loops[l].own
                               /\ loops'[l].pc = IF l = post.by THEN pc ELSE loops[l].pc
           /\ \A l \in Loops : l = post.by => loops[l].pc = "waiting" /\ RunFor(loops[l].intent, loops[l].at) = RunOf(post)
<1>1. loops \in [Loops -> LoopSet] /\ post \in PostSet /\ 0 \notin Loops
  BY SomeTypes DEF Loops
<1>2. CASE post.by = 0
  BY <1>1, <1>2 DEF Answer
<1>3. CASE post.by # 0
  <2>1. post.by \in Loops
    BY <1>1, <1>3 DEF PostSet
  <2>2. loops' = [loops EXCEPT ![post.by] = [loops[post.by] EXCEPT !.pc = pc]]
    BY <1>1, <1>3 DEF Answer
  <2>3. /\ [loops[post.by] EXCEPT !.pc = pc] \in LoopSet
        /\ [loops[post.by] EXCEPT !.pc = pc].pc = pc
        /\ [loops[post.by] EXCEPT !.pc = pc].intent = loops[post.by].intent
        /\ [loops[post.by] EXCEPT !.pc = pc].at = loops[post.by].at
        /\ [loops[post.by] EXCEPT !.pc = pc].own = loops[post.by].own
    BY <1>1, <2>1 DEF LoopSet
  <2>4. loops[post.by].pc = "waiting" /\ RunFor(loops[post.by].intent, loops[post.by].at) = RunOf(post)
    BY <1>3 DEF SendInv, PostsFit, RunFor, RunOf
  <2>5. QED
    BY <1>1, <2>1, <2>2, <2>3, <2>4
<1>4. QED
  BY <1>2, <1>3

\* Nobody else awaits what was answered.
LEMMA OnePostEach ==
    ASSUME SendInv, NEW p \in wire, NEW q \in wire, p.by = q.by, p.by # 0
    PROVE  p = q
<1>1. p \in PostSet /\ q \in PostSet
  BY SomeTypes
<1>2. p.id = q.id /\ p.ask = q.ask /\ p.service = q.service
  BY DEF SendInv, PostsFit
<1>3. QED
  BY <1>1, <1>2 DEF PostSet

\* A request that is answered, and what of it remains on its way.
LEMMA AnsweredFits ==
    ASSUME SendInv, NEW post \in wire, NEW pc \in {"ok", "failed"}, loops' = Answer(post, pc),
           UNCHANGED <<store, page, plain>>,
           \/ wire' = wire \ {post}
           \/ wire' = (wire \ {post}) \cup {[post EXCEPT !.by = 0]},
           \/ server' = server
           \/ server' = [server EXCEPT !.runs = server.runs \cup {RunOf(post)}],
           pc = "ok" => RunOf(post) \in server'.runs,
           count' = count \/ Fault
    PROVE  SendInv'
<1>1. /\ loops' \in [Loops -> LoopSet]
      /\ \A l \in Loops : /\ loops'[l].intent = loops[l].intent /\ loops'[l].at = loops[l].at
                          /\ loops'[l].own = loops[l].own
                          /\ loops'[l].pc = IF l = post.by THEN pc ELSE loops[l].pc
      /\ \A l \in Loops : l = post.by => loops[l].pc = "waiting" /\ RunFor(loops[l].intent, loops[l].at) = RunOf(post)
  BY AnswerIs
<1>2. /\ count' \in CountSet /\ count'.intents = count.intents /\ count'.home = count.home
      /\ count'.asks = count.asks /\ count'.asks >= count.asks
  BY FaultIs, SomeTypes
<1>3. RunOf(post) \in RunSet /\ RunOf(post).id = post.id /\ RunOf(post).ask = post.ask
  BY SomeTypes DEF RunOf, PostSet, RunSet
<1>4. server' \in ServerSet /\ server'.runs \subseteq server.runs \cup {RunOf(post)} /\ server.runs \subseteq server'.runs
  BY <1>3, SomeTypes DEF ServerSet
<1>5. /\ [post EXCEPT !.by = 0] \in PostSet /\ [post EXCEPT !.by = 0].by = 0
      /\ [post EXCEPT !.by = 0].id = post.id /\ [post EXCEPT !.by = 0].ask = post.ask
  BY SomeTypes DEF PostSet
<1>6. \A x \in wire' : (x \in wire /\ x # post) \/ x = [post EXCEPT !.by = 0]
  OBVIOUS
<1>7. TypeOK'
  <2>1. wire' \subseteq PostSet
    BY <1>5, <1>6, SomeTypes
  <2>2. QED
    BY <1>1, <1>2, <1>4, <2>1, SomeTypes, TypesNext
<1>8. PostsFit'
  <2>1. SUFFICES ASSUME NEW x \in wire', x.by # 0
                 PROVE  /\ loops'[x.by].pc = "waiting" /\ loops'[x.by].at = x.service
                        /\ loops'[x.by].intent.id = x.id /\ loops'[x.by].intent.ask = x.ask
    BY DEF PostsFit
  <2>2. x \in wire /\ x # post
    BY <1>5, <1>6, <2>1
  <2>3. x.by # post.by /\ x.by \in Loops
    BY <2>1, <2>2, OnePostEach, SomeTypes DEF PostSet
  <2>4. QED
    BY <1>1, <2>1, <2>2, <2>3 DEF SendInv, PostsFit
<1>9. LoopsFit'
  <2>1. SUFFICES ASSUME NEW l \in Loops
                 PROVE  /\ loops'[l].pc # "idle" => loops'[l].intent # NoIntent /\ loops'[l].at \in Services
                        /\ loops'[l].pc = "ok" => RunFor(loops'[l].intent, loops'[l].at) \in server'.runs
    BY DEF LoopsFit, RunFor
  <2>2. QED
    BY <1>1, <1>4 DEF SendInv, LoopsFit, RunFor
<1>10. QuietFits' /\ PageFits' /\ CountsFit'
  BY <1>1, <1>2 DEF SendInv, QuietFits, PageFits, CountsFit
<1>11. \A x \in Held' : x \in Held
  BY <1>1, HeldIs, HeldIsNext
<1>12. \A x \in wire' \cup server'.runs : \E y \in Used : x.id = y.id /\ x.ask = y.ask
  BY <1>3, <1>4, <1>5, <1>6 DEF Used
<1>13. \/ plain'.pc = "idle"
       \/ plain.pc # "idle" /\ plain'.intent = plain.intent /\ plain'.query = plain.query /\ plain'.ask = plain.ask
  OBVIOUS
<1>14. QED
  BY <1>2, <1>4, <1>7, <1>8, <1>9, <1>10, <1>11, <1>12, <1>13, Keeps

LEMMA AcceptFits ==
    ASSUME SendInv, NEW post \in wire, Accept(post)
    PROVE  SendInv'
<1>1. CASE server.status = "active"
  <2>1. /\ wire' = wire \ {post} /\ UNCHANGED <<store, page, plain, count>>
        /\ server' = [server EXCEPT !.runs = server.runs \cup {RunOf(post)}] /\ loops' = Answer(post, "ok")
    BY <1>1 DEF Accept
  <2>2. RunOf(post) \in server'.runs
    BY <2>1, SomeTypes DEF ServerSet
  <2>3. QED
    BY <2>1, <2>2, AnsweredFits
<1>2. CASE server.status # "active"
  BY <1>2, AnsweredFits DEF Accept
<1>3. QED
  BY <1>1, <1>2

LEMMA LoseFits ==
    ASSUME SendInv, NEW post \in wire, Lose(post)
    PROVE  SendInv'
BY AnsweredFits DEF Lose

\* The loop goes on with its next service.
LEMMA LoopStepFits ==
    ASSUME SendInv, NEW l \in Loops, loops[l].pc \in {"ok", "failed"},
           GoOn(l, loops[l].intent, loops[l].at, loops[l].own),
           UNCHANGED <<plain, server, count>>,
           store' \in StoreSet, page' \in PageSet, store'.pending = store.pending,
           store'.intent.id = store.intent.id,
           store'.intent \in {store.intent, Marked(loops[l].intent, loops[l].at)},
           store'.intent # store.intent => loops[l].pc = "ok",
           page'.up = page.up, page'.fixed = page.fixed, page'.first = page.first,
           page'.reading = page.reading, page'.clicked = page.clicked,
           page'.intent.id = page.intent.id, page'.intent \in {page.intent, store'.intent}
    PROVE  SendInv'
<1> DEFINE loop == loops[l]
<1>1. /\ loop \in LoopSet /\ loop.intent # NoIntent /\ loop.intent \in Held /\ loop.intent \in Intents
      /\ loop.at \in Services /\ loop.at \in Nat /\ loop.own \in BOOLEAN
  <2>1. loop \in LoopSet /\ loop.intent # NoIntent /\ loop.at \in Services
    BY SomeTypes DEF SendInv, LoopsFit
  <2>2. loop.intent \in Held
    BY <2>1, HeldIs
  <2>3. QED
    BY <2>1, <2>2, HeldTypes, BoundsAssumption DEF LoopSet, Services
<1>2. Stepped(l, loop.intent, loop.own)
  BY <1>1, GoOnSteps
<1>3. TypeOK /\ PostsFit /\ LoopsFit /\ loop.pc # "waiting"
  BY DEF SendInv
<1>4. /\ loops' \in [Loops -> LoopSet] /\ wire' \subseteq PostSet
      /\ PostsFit' /\ LoopsFit'
      /\ \A k \in Loops \ {l} : loops'[k] = loops[k]
      /\ loops'[l].intent \in {loop.intent, NoIntent}
      /\ loops'[l].pc \in {"idle", "waiting"} /\ (loops'[l].pc = "waiting" => loops'[l].own = loop.own)
      /\ \A post \in wire' : post \in wire \/ (post.id = loop.intent.id /\ post.ask = loop.intent.ask)
  <2> HIDE DEF loop
  <2>1. QED
    BY <1>1, <1>2, <1>3, SteppedFits DEF loop
<1>5. TypeOK'
  BY <1>4, SomeTypes, TypesNext
<1>6. QuietFits'
  <2>1. SUFFICES ASSUME page'.first # "active", ~page'.clicked
                 PROVE  plain'.pc = "idle" /\ \A k \in Loops : loops'[k].pc # "idle" => ~loops'[k].own
    BY DEF QuietFits
  <2>2. plain.pc = "idle" /\ \A k \in Loops : loops[k].pc # "idle" => ~loops[k].own
    BY <2>1 DEF SendInv, QuietFits
  <2>3. QED
    BY <1>4, <2>2
<1>7. PageFits' /\ CountsFit'
  <2>1. ~page.up => page'.intent = NoIntent
    <3>1. page' \in PageSet /\ page'.intent \in AnyIntent
      BY DEF PageSet
    <3>2. ~page.up => page'.intent.id = 0
      BY IntentTypes DEF SendInv, PageFits
    <3>3. QED
      BY <3>1, <3>2, IntentTypes
  <2>2. QED
    BY <2>1 DEF SendInv, PageFits, CountsFit
<1>8. ASSUME store'.intent # store.intent
      PROVE  /\ store.intent \in Held
             /\ store'.intent.ask = store.intent.ask /\ store'.intent.query = store.intent.query
             /\ \A s \in store'.intent.accepted : s \in store.intent.accepted \/ RunFor(store.intent, s) \in server.runs
  <2>1. /\ store.intent.id = loop.intent.id /\ loop.pc = "ok"
        /\ store'.intent = [store.intent EXCEPT !.accepted = store.intent.accepted \cup {loop.at}]
    BY <1>8 DEF Marked
  <2>2. store.intent # NoIntent /\ store.intent \in Intents
    BY <1>1, <2>1, SomeTypes, IntentTypes
  <2>3. store.intent \in Held
    BY <2>2, HeldIs
  <2>4. store.intent.ask = loop.intent.ask
    <3>1. PICK asked \in Asked : FollowsOf(asked)
      BY DEF SendInv, AsksFit
    <3>2. QED
      BY <1>1, <2>1, <2>3, <3>1 DEF FollowsOf, Used
  <2>5. RunFor(store.intent, loop.at) \in server.runs
    <3>1. RunFor(loop.intent, loop.at) \in server.runs
      BY <2>1 DEF SendInv, LoopsFit
    <3>2. RunFor(store.intent, loop.at) = RunFor(loop.intent, loop.at)
      BY <2>1, <2>4 DEF RunFor
    <3>3. QED
      BY <3>1, <3>2
  <2>6. /\ store'.intent.ask = store.intent.ask /\ store'.intent.query = store.intent.query
        /\ store'.intent.accepted = store.intent.accepted \cup {loop.at}
    BY <2>1, <2>2 DEF Intents
  <2>7. QED
    BY <2>3, <2>5, <2>6
<1>9. \A x \in Held' : \/ x \in Held
                       \/ \E y \in Held : /\ x.id = y.id /\ x.ask = y.ask /\ x.query = y.query
                                          /\ \A s \in x.accepted : s \in y.accepted \/ RunFor(y, s) \in server.runs
  <2>1. ASSUME NEW x \in Held' PROVE x \in Held \/ (x = store'.intent /\ x # store.intent)
    <3>1. x # NoIntent /\ (x \in {store'.intent, page'.intent, page'.reading, plain'.intent} \/ \E k \in Loops : x = loops'[k].intent)
      BY <2>1, HeldIsNext
    <3>2. CASE x \in {store'.intent, page'.intent, page'.reading, plain'.intent}
      BY <3>1, <3>2, HeldIs
    <3>3. ASSUME NEW k \in Loops, x = loops'[k].intent PROVE x \in Held
      <4>1. CASE k = l
        BY <1>1, <1>4, <3>1, <3>3, <4>1
      <4>2. CASE k # l
        BY <1>4, <3>1, <3>3, <4>2, HeldIs
      <4>3. QED
        BY <4>1, <4>2
    <3>4. QED
      BY <3>1, <3>2, <3>3
  <2>2. QED
    BY <1>8, <2>1
<1>10. \A x \in wire' \cup server'.runs : \E y \in Used : x.id = y.id /\ x.ask = y.ask
  BY <1>1, <1>4 DEF Used
<1>11. \/ plain'.pc = "idle"
       \/ plain.pc # "idle" /\ plain'.intent = plain.intent /\ plain'.query = plain.query /\ plain'.ask = plain.ask
  OBVIOUS
<1>12. /\ count'.intents = count.intents /\ count'.home = count.home /\ count'.asks >= count.asks
       /\ server.runs \subseteq server'.runs
  BY SomeTypes
<1> HIDE DEF loop
<1>13. QED
  BY <1>4, <1>5, <1>6, <1>7, <1>9, <1>10, <1>11, <1>12, Keeps

LEMMA AcceptedFits ==
    ASSUME SendInv, NEW l \in Loops, Accepted(l)
    PROVE  SendInv'
<1> DEFINE loop == loops[l]
           intent == Marked(loop.intent, loop.at)
<1>1. /\ loop.pc = "ok" /\ store' = [store EXCEPT !.intent = intent]
      /\ GoOn(l, loop.intent, loop.at, loop.own) /\ UNCHANGED <<plain, server, count>>
  BY DEF Accepted
<1>2. loop.at \in Services /\ loop.intent # NoIntent /\ loop.intent \in AnyIntent
  BY <1>1, SomeTypes DEF SendInv, LoopsFit, LoopSet
<1>3. intent \in AnyIntent /\ intent.id = store.intent.id
  <2>1. CASE store.intent.id # loop.intent.id
    BY <2>1, SomeTypes DEF Marked
  <2>2. CASE store.intent.id = loop.intent.id
    <3>1. store.intent \in Intents
      BY <1>2, <2>2, SomeTypes, IntentTypes
    <3>2. intent = [store.intent EXCEPT !.accepted = store.intent.accepted \cup {loop.at}]
      BY <2>2 DEF Marked
    <3>3. store.intent.accepted \cup {loop.at} \in SUBSET Services
      BY <1>2, <3>1, IntentTypes
    <3>4. intent \in Intents /\ intent.id = store.intent.id
      BY <3>1, <3>2, <3>3 DEF Intents
    <3>5. QED
      BY <3>4 DEF AnyIntent
  <2>3. QED
    BY <2>1, <2>2
<1>4. \E n \in Loops \cup {0}, x \in {page.intent, intent} :
         /\ page' = [page EXCEPT !.intent = x, !.latest = n]
         /\ x # page.intent => loop.own /\ intent.id = loop.intent.id
  <2>1. page.latest \in Loops \cup {0}
    BY SomeTypes DEF PageSet
  <2>2. page' = [page EXCEPT
                   !.intent = IF loop.own /\ intent.id = loop.intent.id THEN intent ELSE page.intent,
                   !.latest = IF loop.own /\ Unaccepted(loop.intent, loop.at) # {} THEN l ELSE page.latest]
    BY DEF Accepted
  <2> HIDE DEF intent
  <2>3. QED
    BY <2>1, <2>2
<1>5. loop.own => page.up
  <2>1. ~page.up => (loop.pc # "idle" => ~loop.own)
    BY DEF SendInv, PageFits, QuietFits
  <2>2. QED
    BY <1>1, <2>1
<1> HIDE DEF intent
<1>6. /\ page' \in PageSet /\ page'.up = page.up /\ page'.fixed = page.fixed /\ page'.first = page.first
      /\ page'.reading = page.reading /\ page'.clicked = page.clicked
      /\ page'.intent \in {page.intent, intent}
      /\ page'.intent # page.intent => loop.own
  <2>1. PICK n \in Loops \cup {0}, x \in {page.intent, intent} :
           /\ page' = [page EXCEPT !.intent = x, !.latest = n]
           /\ x # page.intent => loop.own
    BY <1>4
  <2>2. x \in AnyIntent
    BY <1>3, SomeTypes
  <2>3. QED
    BY <2>1, <2>2, SomeTypes DEF PageSet
<1>7. page'.intent.id = page.intent.id
  <2>1. page.up => page.intent.id = store.intent.id
    BY DEF SendInv, PageFits
  <2>2. QED
    BY <1>3, <1>5, <1>6, <2>1
<1>8. store' \in StoreSet /\ store'.intent = intent /\ store'.pending = store.pending
  BY <1>1, <1>3, SomeTypes DEF StoreSet
<1>9. QED
  BY <1>1, <1>3, <1>6, <1>7, <1>8, LoopStepFits DEF intent

LEMMA RefusedFits ==
    ASSUME SendInv, NEW l \in Loops, Refused(l)
    PROVE  SendInv'
<1>1. /\ loops[l].pc = "failed" /\ store' = store
      /\ GoOn(l, loops[l].intent, loops[l].at, loops[l].own) /\ UNCHANGED <<plain, server, count>>
      /\ \E n \in Loops \cup {0} : page' = [page EXCEPT !.latest = n]
  <2>1. page.latest \in Loops \cup {0}
    BY SomeTypes DEF PageSet
  <2>2. page' = [page EXCEPT !.latest = IF loops[l].own /\ Unaccepted(loops[l].intent, loops[l].at) # {}
                                        THEN l ELSE page.latest]
    BY DEF Refused
  <2>3. QED
    BY <2>1, <2>2 DEF Refused
<1>2. /\ page' \in PageSet /\ page'.up = page.up /\ page'.fixed = page.fixed /\ page'.first = page.first
      /\ page'.reading = page.reading /\ page'.clicked = page.clicked /\ page'.intent = page.intent
  BY <1>1, SomeTypes DEF PageSet
<1>3. QED
  BY <1>1, <1>2, SomeTypes, LoopStepFits

\* The welcome page: nothing was asked before.
LEMMA AskAtHomeFits ==
    ASSUME SendInv, NEW query \in Questions, AskAtHome(query)
    PROVE  SendInv'
<1>1. /\ ~page.up /\ count.asks = 0 /\ 1 \in 1 .. MaxAsks /\ 1 \in 1 .. MaxIntents
      /\ 1 \in 0 .. MaxAsks /\ 1 \in 0 .. MaxIntents
      /\ query \in {"plain", "hidden", "query"} /\ UNCHANGED <<loops, plain, wire, server>>
      /\ page' = Opened(store'.intent, FALSE)
  BY BoundsAssumption DEF AskAtHome
<1>2. count.intents = 0 /\ plain.pc = "idle" /\ \A l \in Loops : loops[l].pc # "idle" => ~loops[l].own
  BY <1>1 DEF SendInv, CountsFit, PageFits, QuietFits
<1>3. Held = {} /\ Used = wire \cup server.runs
  BY <1>2, HeldTypes DEF Used
<1>4. wire = {} /\ server.runs = {}
  <2>1. PICK asked \in Asked : FollowsOf(asked)
    BY DEF SendInv, AsksFit
  <2>2. ASSUME NEW y \in Used PROVE FALSE
    BY <1>2, <2>1, <2>2, HeldTypes DEF FollowsOf
  <2>3. QED
    BY <2>2 DEF Used
<1>5. \/ /\ Investigates(query) /\ store' = [store EXCEPT !.intent = NewIntent(query, 1)]
         /\ count' = [count EXCEPT !.asks = 1, !.intents = 1, !.home = query]
      \/ /\ ~Investigates(query) /\ store' = [store EXCEPT !.pending = query]
         /\ count' = [count EXCEPT !.asks = 1, !.home = query]
  BY DEF AskAtHome
<1>6. store'.intent \in AnyIntent => (/\ page' \in PageSet /\ page'.up /\ page'.first = "unknown" /\ ~page'.clicked
                                      /\ page'.intent = store'.intent /\ page'.reading = NoIntent)
  BY <1>1, OpenedPage
<1>7. /\ count' \in CountSet /\ count'.asks = 1 /\ count'.home = query
      /\ count'.intents \in {count.intents, 1}
  BY <1>1, <1>5, SomeTypes DEF CountSet
<1>8. QuietFits'
  BY <1>1, <1>2 DEF QuietFits
<1>9. LoopsFit' /\ PostsFit'
  BY <1>1 DEF SendInv, LoopsFit, PostsFit, RunFor
<1>10. CASE Investigates(query)
  <2>1. /\ NewIntent(query, 1) = [id |-> 1, ask |-> 1, query |-> query, accepted |-> {}]
        /\ NewIntent(query, 1) \in Intents
    BY <1>1, <1>2 DEF NewIntent, Intents
  <2>2. /\ NewIntent(query, 1) \in AnyIntent /\ NewIntent(query, 1).id = 1 /\ NewIntent(query, 1).ask = 1
        /\ NewIntent(query, 1).query = query /\ NewIntent(query, 1).accepted = {}
    BY <2>1 DEF AnyIntent
  <2>3. store' = [store EXCEPT !.intent = NewIntent(query, 1)] /\ count'.intents = 1
    BY <1>5, <1>10, SomeTypes DEF CountSet
  <2>4. /\ store' \in StoreSet /\ store'.intent = NewIntent(query, 1) /\ store'.pending = store.pending
    BY <2>2, <2>3, SomeTypes DEF StoreSet
  <2>5. TypeOK'
    BY <1>1, <1>6, <1>7, <2>2, <2>4, SomeTypes, TypesNext
  <2>6. store.pending = "none"
    BY <1>1 DEF SendInv, CountsFit
  <2>7. PageFits' /\ CountsFit'
    <3>1. page'.up /\ page'.intent = store'.intent /\ page'.reading = NoIntent /\ plain'.pc = "idle"
      BY <1>1, <1>2, <1>6, <2>2, <2>4
    <3>2. PageFits'
      BY <3>1 DEF PageFits
    <3>3. CountsFit'
      BY <1>7, <2>4, <2>6, <3>1 DEF CountsFit
    <3>4. QED
      BY <3>2, <3>3
  <2>8. \A x \in Held' : x = NewIntent(query, 1)
    <3>1. SUFFICES ASSUME NEW x \in Held', x # NewIntent(query, 1) PROVE x \in Held
      BY <1>3
    <3>2. /\ x # NoIntent
          /\ x \in {store'.intent, page'.intent, page'.reading, plain'.intent} \/ \E l \in Loops : x = loops'[l].intent
      BY <3>1, HeldIsNext
    <3>3. x = plain.intent \/ \E l \in Loops : x = loops[l].intent
      BY <1>1, <1>6, <2>2, <2>4, <3>1, <3>2
    <3>4. QED
      BY <3>2, <3>3, HeldIs
  <2>9. \A x \in Used' : x = NewIntent(query, 1)
    BY <1>1, <1>4, <2>8 DEF Used
  <2>10. MarksFit'
    BY <2>2, <2>8 DEF MarksFit
  <2>11. AsksFit'
    <3>1. /\ count.intents < MaxIntents /\ count.intents + 1 = 1 /\ count'.asks >= count.asks
          /\ 1 <= count'.asks /\ 1 > count.asks /\ count'.asks \in Nat
      BY <1>1, <1>2, <1>7, BoundsAssumption
    <3>2. \A x \in Used' : x.id = count.intents + 1 /\ x.ask = 1
      BY <2>2, <2>9, <3>1
    <3>3. \A x \in Held' : x.id = count.intents + 1 /\ x.query = query
      BY <2>2, <2>8, <3>1
    <3>4. count'.intents = count.intents + 1
      BY <2>3, <3>1
    <3>5. plain'.pc = "idle"
      BY <1>1, <1>2
    <3>6. QED
      BY <1>1, <1>2, <3>1, <3>2, <3>3, <3>4, <3>5, SomeTypes, HeldTypes, AsksNew DEF SendInv
  <2>12. QED
    BY <1>8, <1>9, <2>5, <2>7, <2>10, <2>11 DEF SendInv
<1>11. CASE ~Investigates(query)
  <2>1. query \in {"plain", "hidden"}
    BY <1>1, <1>11 DEF Investigates
  <2>2. store' = [store EXCEPT !.pending = query] /\ count'.intents = 0
    BY <1>2, <1>5, <1>11, SomeTypes DEF CountSet
  <2>3. /\ store' \in StoreSet /\ store'.intent = store.intent /\ store'.pending = query
    BY <2>1, <2>2, SomeTypes DEF StoreSet
  <2>4. TypeOK'
    BY <1>1, <1>6, <1>7, <2>3, SomeTypes, TypesNext
  <2>5. PageFits' /\ CountsFit'
    <3>1. page'.up /\ page'.intent = store'.intent /\ page'.reading = NoIntent /\ plain'.pc = "idle"
      BY <1>1, <1>2, <1>6, <2>3, SomeTypes
    <3>2. PageFits'
      BY <3>1 DEF PageFits
    <3>3. CountsFit'
      BY <1>7, <2>2, <2>3, <3>1 DEF CountsFit
    <3>4. QED
      BY <3>2, <3>3
  <2>6. Held' = {}
    <3>1. ASSUME NEW x \in Held' PROVE x \in Held
      <4>1. /\ x # NoIntent
            /\ \/ x \in {store'.intent, page'.intent, page'.reading, plain'.intent}
               \/ \E l \in Loops : x = loops'[l].intent
        BY <3>1, HeldIsNext
      <4>2. store'.intent = store.intent /\ page'.intent = store.intent /\ page'.reading = NoIntent
        BY <1>6, <2>3, SomeTypes
      <4>3. x \in {store.intent, plain.intent} \/ \E l \in Loops : x = loops[l].intent
        BY <1>1, <4>1, <4>2
      <4>4. QED
        BY <4>1, <4>3, HeldIs
    <3>2. QED
      BY <1>3, <3>1
  <2>7. MarksFit'
    BY <2>6 DEF MarksFit
  <2>8. AsksFit'
    <3>1. PICK asked \in Asked : FollowsOf(asked)
      BY DEF SendInv, AsksFit
    <3>2. QuestionsOf(asked)' /\ NewPlain(asked)'
      BY <2>2 DEF QuestionsOf, NewPlain
    <3>3. FollowsOf(asked)'
      BY <1>1, <1>4, <2>6 DEF FollowsOf, Used
    <3>4. QED
      BY <3>1, <3>2, <3>3 DEF AsksFit, Asked
  <2>9. QED
    BY <1>8, <1>9, <2>4, <2>5, <2>7, <2>8 DEF SendInv
<1>12. QED
  BY <1>10, <1>11

-----------------------------------------------------------------------------
(* The invariant *)

LEMMA SendInvInit == Init => SendInv
<1> SUFFICES ASSUME Init PROVE SendInv
  OBVIOUS
<1>1. /\ NoPlain \in PlainSet /\ NoPlain.pc = "idle" /\ NoPlain.intent = NoIntent
      /\ NoLoop \in LoopSet /\ NoLoop.pc = "idle" /\ NoLoop.intent = NoIntent
  BY IntentTypes, BoundsAssumption DEF NoPlain, PlainSet, NoLoop, LoopSet
<1>2. /\ NoPage \in PageSet /\ ~NoPage.up /\ NoPage.first = "unknown" /\ ~NoPage.clicked
      /\ NoPage.intent = NoIntent /\ NoPage.reading = NoIntent
  BY IntentTypes, OpenedPage
<1>3. /\ store = [intent |-> NoIntent, pending |-> "none"] /\ page = NoPage /\ plain = NoPlain
      /\ loops = [l \in Loops |-> NoLoop] /\ wire = {}
      /\ server = [status |-> "active", runs |-> {}, deleted |-> {}]
      /\ count = [asks |-> 0, intents |-> 0, faults |-> 0, home |-> "none"]
  BY DEF Init
<1>4. store \in StoreSet /\ server \in ServerSet /\ count \in CountSet
  BY <1>3, IntentTypes, BoundsAssumption DEF StoreSet, ServerSet, CountSet
<1>5. TypeOK
  BY <1>1, <1>2, <1>3, <1>4, Types
<1>6. Held = {} /\ Used = {}
  <2>1. \A x : x \notin Held
    BY <1>1, <1>2, <1>3, HeldIs
  <2>2. QED
    BY <1>3, <2>1 DEF Used
<1>7. AsksFit
  <2>1. [i \in 1 .. MaxIntents |-> [ask |-> 0, query |-> "plain"]] \in Asked
    <3>1. [ask |-> 0, query |-> "plain"] \in [ask : 0 .. MaxAsks, query : Questions]
      BY BoundsAssumption DEF Questions
    <3>2. QED
      BY <3>1 DEF Asked
  <2>2. QED
    BY <1>1, <1>3, <1>6, <2>1 DEF AsksFit, QuestionsOf, FollowsOf, NewPlain
<1>8. QED
  BY <1>1, <1>2, <1>3, <1>5, <1>6, <1>7, IntentTypes
  DEF SendInv, MarksFit, PostsFit, LoopsFit, QuietFits, PageFits, CountsFit

LEMMA SendInvStep == SendInv /\ [Next]_vars => SendInv'
<1> SUFFICES ASSUME SendInv, [Next]_vars PROVE SendInv'
  OBVIOUS
<1>1. CASE PageStep
  BY <1>1, SeeFits, EffectsFit, PlainEndsFit DEF PageStep
<1>2. CASE ReadEnds
  BY <1>2, ReadingFits
<1>3. CASE Network
  BY <1>3, AcceptFits, PlainFits DEF Network
<1>4. ASSUME NEW l \in Loops, Loop(l) PROVE SendInv'
  BY <1>4, AcceptedFits, RefusedFits DEF Loop
<1>5. CASE Person
  BY <1>5, AskAtHomeFits, SendFits, OpenFits, GoneFits, SendHealthFits, DiscardFits DEF Person
<1>6. CASE Trouble
  BY <1>6, LoseFits, PlainFits, ReadFailsFits, ServerFits DEF Trouble
<1>7. CASE UNCHANGED vars
  <2>1. UNCHANGED <<store, page, loops, plain, wire, server, count>>
    BY <1>7 DEF vars
  <2>2. QuietFits' /\ PageFits' /\ CountsFit' /\ count'.asks >= count.asks
    BY <2>1, SomeTypes DEF SendInv, QuietFits, PageFits, CountsFit
  <2>3. \/ plain'.pc = "idle"
        \/ plain.pc # "idle" /\ plain'.intent = plain.intent /\ plain'.query = plain.query /\ plain'.ask = plain.ask
    BY <2>1
  <2>4. QED
    BY <2>1, <2>2, <2>3, SomeTypes, Quietly
<1>8. QED
  BY <1>1, <1>2, <1>3, <1>4, <1>5, <1>6, <1>7 DEF Next

LEMMA SendInvHolds == Spec => []SendInv
BY SendInvInit, SendInvStep, PTL DEF Spec

-----------------------------------------------------------------------------
(* The properties of the run *)

\* Whatever the constants, a question is investigated once for each service however it
\* is retried, reloaded and answered late (submit_investigation, and the server that
\* replays a key), what a stored intent marks as accepted was accepted, and a page that
\* first saw its session archived starts nothing on its own.
THEOREM QuestionsAlwaysRunOnce == Spec => []QuestionsRunOnce
<1>1. SendInv => QuestionsRunOnce
  <2> SUFFICES ASSUME SendInv PROVE QuestionsRunOnce
    OBVIOUS
  <2>1. AskedOnceRunsOnce
    <3>1. SUFFICES ASSUME NEW a \in server.runs, NEW b \in server.runs, a.ask = b.ask,
                          a.service = b.service, ~(count.home = "hidden" /\ a.ask = 1)
                   PROVE  a = b
      BY DEF AskedOnceRunsOnce
    <3>2. PICK asked \in Asked : QuestionsOf(asked) /\ FollowsOf(asked)
      BY DEF SendInv, AsksFit
    <3>3. a \in Used /\ b \in Used /\ a \in RunSet /\ b \in RunSet
      BY SomeTypes DEF Used, ServerSet
    <3>4. a.id \in 1 .. count.intents /\ b.id \in 1 .. count.intents
      BY <3>2, <3>3, SomeTypes DEF FollowsOf, RunSet
    <3>5. a.ask = asked[a.id].ask /\ b.ask = asked[b.id].ask
      BY <3>2, <3>3 DEF FollowsOf
    <3>6. a.id = b.id
      BY <3>1, <3>2, <3>4, <3>5 DEF QuestionsOf
    <3>7. QED
      BY <3>1, <3>3, <3>6 DEF RunSet
  <2>2. MarksAreTrue
    <3>1. SUFFICES ASSUME NEW x \in {store.intent, page.intent}, NEW s \in x.accepted
                   PROVE  RunFor(x, s) \in server.runs
      BY DEF MarksAreTrue, RunFor
    <3>2. x # NoIntent
      BY <3>1, IntentTypes
    <3>3. QED
      BY <3>1, <3>2, HeldIs DEF SendInv, MarksFit
  <2>3. ArchivedStaysQuiet
    BY DEF ArchivedStaysQuiet, SendInv, QuietFits
  <2>4. QED
    BY <2>1, <2>2, <2>3 DEF QuestionsRunOnce, SendInv
<1>2. QED
  BY <1>1, SendInvHolds, PTL

\* A step that changes which intent is stored has a reason, and no answer does.
Leaves ==
    /\ store.intent = NoIntent \/ page.fixed \/ Found(store.intent)
    /\ \A l \in Loops : loops[l].pc = "ok" => loops'[l].pc = "ok"

LEMMA SubmitLeaves ==
    ASSUME SendInv, NEW query \in Questions, NEW ask \in 1 .. MaxAsks, NEW known \in Held \cup {NoIntent},
           NEW shown \in PageSet, Submit(query, ask, known, shown),
           page.fixed \/ store.intent.id \in {0, known.id}
    PROVE  store'.intent.id = store.intent.id \/ Leaves
<1>1. CASE store' = store
  BY <1>1
<1>2. ASSUME NEW intent \in Intents, NEW l \in Loops, Submitted(query, ask, known, intent, l)
      PROVE  store'.intent.id = store.intent.id \/ Leaves
  <2>1. /\ store'.intent = intent /\ loops[l].pc = "idle" /\ Stepped(l, intent, TRUE)
        /\ known # NoIntent => intent = known
    BY <1>2 DEF Submitted
  <2>2. \A k \in Loops : loops[k].pc = "ok" => loops'[k].pc = "ok"
    BY <2>1, SomeTypes DEF Stepped
  <2>3. store.intent.id = 0 => store.intent = NoIntent
    BY SomeTypes, IntentTypes
  <2>4. known = NoIntent => known.id = 0
    BY IntentTypes
  <2>5. CASE page.fixed \/ store.intent.id = 0
    BY <2>2, <2>3, <2>5 DEF Leaves
  <2>6. CASE store.intent.id = known.id /\ store.intent.id # 0
    BY <2>1, <2>4, <2>6
  <2>7. QED
    BY <2>5, <2>6
<1>3. QED
  BY <1>1, <1>2, SubmitEffect

LEMMA LeavesStep ==
    ASSUME SendInv, [Next]_vars
    PROVE  store'.intent.id = store.intent.id \/ Leaves
<1>1. CASE Effects
  <2>1. page.up /\ page.intent.id = store.intent.id
    BY <1>1 DEF Effects, Settled, SubmitsIntent, SendsPending, Reconciles, Active, SendInv, PageFits
  <2>2. CASE ~SubmitsIntent
    BY <1>1, <2>2 DEF Effects
  <2>3. CASE SubmitsIntent
    <3>1. page.intent \in Held
      BY <2>3, HeldIs DEF SubmitsIntent
    <3>2. page.intent.query \in Questions /\ page.intent.ask \in 1 .. MaxAsks
      BY <3>1, HeldTypes, IntentTypes
    <3>3. \E shown : Submit(page.intent.query, page.intent.ask, page.intent, shown)
      BY <1>1, <2>3 DEF Effects
    <3>4. IntentFor(page.intent.query, page.intent.ask, page.intent) = page.intent
      BY <2>3 DEF SubmitsIntent, IntentFor
    <3>5. store' = store \/ store' = [store EXCEPT !.intent = page.intent]
      BY <3>3, <3>4 DEF Submit
    <3>6. QED
      BY <2>1, <3>5, SomeTypes DEF StoreSet
  <2>4. QED
    BY <2>2, <2>3
<1>2. ASSUME NEW query \in Questions, Send(query) PROVE store'.intent.id = store.intent.id \/ Leaves
  <2>1. page.up /\ page.intent.id = store.intent.id /\ AskOf(query) <= MaxAsks
    BY <1>2 DEF Send, Active, SendInv, PageFits
  <2>2. CASE ~Investigates(query)
    BY <1>2, <2>2 DEF Send
  <2>3. CASE Investigates(query)
    <3>1. Submit(query, AskOf(query), page.intent, [page EXCEPT !.clicked = TRUE])
      BY <1>2, <2>3 DEF Send
    <3>2. [page EXCEPT !.clicked = TRUE] \in PageSet
      BY SomeTypes DEF PageSet
    <3>3. page.intent \in Held \cup {NoIntent} /\ AskOf(query) \in 1 .. MaxAsks
      BY <2>1, HeldIs, AskOfIs
    <3>4. QED
      BY <2>1, <3>1, <3>2, <3>3, SubmitLeaves
  <2>4. QED
    BY <2>2, <2>3
<1>3. CASE SendHealth
  <2>1. /\ page.fixed /\ AskOf("health") <= MaxAsks /\ "health" \in Questions
        /\ Submit("health", AskOf("health"), page.intent, [page EXCEPT !.clicked = TRUE])
    BY <1>3 DEF SendHealth, Questions
  <2>2. [page EXCEPT !.clicked = TRUE] \in PageSet
    BY SomeTypes DEF PageSet
  <2>3. page.intent \in Held \cup {NoIntent} /\ AskOf("health") \in 1 .. MaxAsks
    BY <2>1, HeldIs, AskOfIs
  <2>4. QED
    BY <2>1, <2>2, <2>3, SubmitLeaves
<1>4. CASE PlainEnds
  <2>1. CASE plain.pc # "required"
    BY <1>4, <2>1, SomeTypes DEF PlainEnds, StoreSet
  <2>2. CASE plain.pc = "required"
    <3>1. Submit(plain.query, plain.ask, plain.intent, page)
      BY <1>4, <2>2 DEF PlainEnds
    <3>2. plain.ask \in 1 .. count.asks /\ plain.query \in {"plain", "hidden"} /\ count.asks \in 0 .. MaxAsks
      BY <2>2, SomeTypes DEF SendInv, CountsFit, CountSet
    <3>3. plain.ask \in 1 .. MaxAsks /\ plain.query \in Questions
      BY <3>2, BoundsAssumption DEF Questions
    <3>4. plain.intent \in Held \cup {NoIntent}
      BY HeldIs
    <3>5. page.fixed \/ store.intent.id \in {0, plain.intent.id}
      BY <2>2 DEF SendInv, PageFits
    <3>6. QED
      BY <3>1, <3>3, <3>4, <3>5, SomeTypes, SubmitLeaves
  <2>3. QED
    BY <2>1, <2>2
<1>5. CASE Discard
  BY <1>5 DEF Discard, Leaves
<1>6. CASE ReadEnds
  <2>1. page.up /\ page.reading # NoIntent /\ loops' = loops /\ (store' = store \/ Found(page.reading))
    BY <1>6 DEF ReadEnds
  <2>2. CASE store' = store
    BY <2>2
  <2>3. CASE page.fixed
    BY <2>1, <2>3 DEF Leaves
  <2>4. CASE Found(page.reading) /\ ~page.fixed
    <3>1. store.intent.id = page.reading.id /\ page.reading.id # 0
      BY <2>1, <2>4, SomeTypes, IntentTypes DEF SendInv, PageFits
    <3>2. page.reading \in Held /\ store.intent \in Held
      BY <2>1, <3>1, SomeTypes, IntentTypes, HeldIs
    <3>3. store.intent.ask = page.reading.ask
      <4>1. PICK asked \in Asked : FollowsOf(asked)
        BY DEF SendInv, AsksFit
      <4>2. QED
        BY <3>1, <3>2, <4>1 DEF FollowsOf, Used
    <3>4. Found(store.intent)
      BY <2>4, <3>1, <3>3 DEF Found
    <3>5. QED
      BY <2>1, <3>4 DEF Leaves
  <2>5. QED
    BY <2>1, <2>2, <2>3, <2>4
<1>7. ASSUME NEW query \in Questions, AskAtHome(query) PROVE Leaves
  <2>1. count.intents = 0 /\ loops' = loops
    BY <1>7 DEF AskAtHome, SendInv, CountsFit
  <2>2. store.intent = NoIntent
    BY <2>1, HeldIs, HeldTypes
  <2>3. QED
    BY <2>1, <2>2 DEF Leaves
<1>8. ASSUME NEW l \in Loops, Accepted(l) PROVE store'.intent.id = store.intent.id
  <2>1. store' = [store EXCEPT !.intent = Marked(loops[l].intent, loops[l].at)]
    BY <1>8 DEF Accepted
  <2>2. store'.intent = Marked(loops[l].intent, loops[l].at)
    BY <2>1, SomeTypes DEF StoreSet
  <2>3. CASE store.intent.id # loops[l].intent.id
    BY <2>2, <2>3 DEF Marked
  <2>4. CASE store.intent.id = loops[l].intent.id
    <3>1. store.intent \in Intents
      <4>1. loops[l].intent \in AnyIntent /\ loops[l].intent # NoIntent
        BY <1>8, SomeTypes DEF Accepted, SendInv, LoopsFit, LoopSet
      <4>2. QED
        BY <2>4, <4>1, SomeTypes, IntentTypes
    <3>2. store'.intent = [store.intent EXCEPT !.accepted = store.intent.accepted \cup {loops[l].at}]
      BY <2>2, <2>4 DEF Marked
    <3>3. QED
      BY <3>1, <3>2 DEF Intents
  <2>5. QED
    BY <2>3, <2>4
<1>9. CASE UNCHANGED store
  BY <1>9
<1>10. QED
  <2>1. CASE PageStep
    BY <1>1, <1>4, <1>9, <2>1 DEF PageStep, See
  <2>2. CASE Network
    BY <1>9, <2>2 DEF Network, Accept, HandlePlain
  <2>3. ASSUME NEW l \in Loops, Loop(l) PROVE store'.intent.id = store.intent.id
    BY <1>8, <1>9, <2>3 DEF Loop, Refused
  <2>4. CASE Person
    BY <1>2, <1>3, <1>5, <1>7, <1>9, <2>4 DEF Person, Open, Leave, Reload
  <2>5. CASE Trouble
    BY <1>9, <2>5 DEF Trouble, Lose, LosePlain, ReadFails, Archive, DeleteMessage
  <2>6. QED
    BY <1>6, <1>9, <2>1, <2>2, <2>3, <2>4, <2>5 DEF Next, vars

\* Whatever the constants, an intent leaves the storage when all its Runs and messages are
\* on the server, or for the fixed question of the service centre, and the answer to a
\* submission never brings one back (clear_session_run_send_intent and
\* mark_session_run_send_intent_accepted of send-intent.ts).
THEOREM IntentsAlwaysLeaveOnce == Spec => IntentsLeaveOnce
<1>1. SendInv /\ [Next]_vars =>
        [/\ store'.intent.id # store.intent.id => store.intent = NoIntent \/ page.fixed \/ Found(store.intent)
         /\ (\E l \in Loops : loops[l].pc = "ok" /\ loops'[l].pc # "ok") => store'.intent.id = store.intent.id]_vars
  BY LeavesStep DEF Leaves
<1>2. [/\ store'.intent.id # store.intent.id => store.intent = NoIntent \/ page.fixed \/ Found(store.intent)
       /\ (\E l \in Loops : loops[l].pc = "ok" /\ loops'[l].pc # "ok") => store'.intent.id = store.intent.id]_vars
      => /\ [store'.intent.id # store.intent.id => store.intent = NoIntent \/ page.fixed \/ Found(store.intent)]_vars
         /\ [(\E l \in Loops : loops[l].pc = "ok" /\ loops'[l].pc # "ok") => store'.intent.id = store.intent.id]_vars
  OBVIOUS
<1>3. QED
  BY <1>1, <1>2, SendInvHolds, PTL DEF Spec, IntentsLeaveOnce, IntentsGoWhenSaved, AnswersResurrectNothing
=============================================================================
