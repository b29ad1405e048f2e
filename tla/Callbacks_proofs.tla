--------------------------- MODULE Callbacks_proofs ---------------------------
(***************************************************************************)
(* Proofs about Callbacks, for every TTL, every length of a second and of  *)
(* a log.                                                                  *)
(*                                                                         *)
(* A token's two clocks are tied by ClocksAgree: together they are never   *)
(* more than the TTL while it is good, and never less than the TTL by a    *)
(* second.  That a box which has been heard is not installed again rests   *)
(* on UnheardWhileLive, and this on where a box can still hold a token of  *)
(* another secret: BadTokenIsHarmless.                                     *)
(***************************************************************************)
EXTENDS Callbacks, SequenceTheorems, TLAPS

HasToken == callback \notin {None, Bare}

ClocksAgree ==
    HasToken =>
        /\ callback.left > 0 => callback.left + callback.age <= CallbackTTL
        /\ callback.left + callback.age + Second > CallbackTTL

\* Bare URLs are in the files only if they were set up so.
BareAsSetUp == callback = Bare => setup.url = "bare"

\* An installation was begun for a live intent.
Begun == Live(intent) /\ runs > 0

\* Who boots from its disk had no live intent, and who has a token of before a
\* restart had its intent forgotten: an intent that lives now is a new one.
BadTokenIsHarmless ==
    /\ box = "disk" => ~Begun
    /\ box = "configured" /\ HasToken /\ ~callback.good => ~Begun

UnheardWhileLive ==
    Begun => \/ heard \in {"nothing", "expired"}
             \/ heard = "refused" /\ setup.url = "bare" /\ setup.enforce

IInv ==
    /\ TypeOK
    /\ LogKeepsTheEnd
    /\ ClocksAgree
    /\ BareAsSetUp
    /\ BadTokenIsHarmless
    /\ UnheardWhileLive

-----------------------------------------------------------------------------
(* The log                                                                  *)

\* What the store can hold are the sequences of at most MaxPerMAC units.
Logs == UNION {[1..n -> Unit] : n \in 0..MaxPerMAC}

LEMMA LogsAreSequences ==
    \A s : s \in Logs <=> s \in Seq(Unit) /\ Len(s) <= MaxPerMAC
<1>1. ASSUME NEW s \in Logs PROVE s \in Seq(Unit) /\ Len(s) <= MaxPerMAC
  <2>1. PICK n \in 0..MaxPerMAC : s \in [1..n -> Unit]
    BY DEF Logs
  <2>2. n \in Nat /\ s \in Seq(Unit)
    BY <2>1, TicksAssumption, SeqDef
  <2>3. Len(s) = n
    BY <2>1, <2>2
  <2> QED
    BY <2>1, <2>2, <2>3, TicksAssumption
<1>2. ASSUME NEW s \in Seq(Unit), Len(s) <= MaxPerMAC PROVE s \in Logs
  <2>1. s \in [1..Len(s) -> Unit] /\ Len(s) \in 0..MaxPerMAC
    BY <1>2, LenProperties, TicksAssumption
  <2> QED
    BY <2>1 DEF Logs
<1> QED
  BY <1>1, <1>2

\* A body is a sequence of its size that ends in its end.
LEMMA BodyProperties ==
    ASSUME NEW n \in Nat \ {0}
    PROVE  /\ Body(n) \in Seq(Unit)
           /\ Len(Body(n)) = n
           /\ Body(n)[n] = "end"
<1>1. Body(n) \in [1..n -> Unit]
  BY DEF Body, Unit
<1>2. Body(n) \in Seq(Unit)
  BY <1>1, SeqDef
<1>3. Len(Body(n)) = n
  BY <1>1, <1>2, LenProperties
<1> QED
  BY <1>2, <1>3 DEF Body

\* The beginning of a sequence.
LEMMA Beginning ==
    ASSUME NEW s \in Seq(Unit), NEW n \in 1..Len(s)
    PROVE  /\ SubSeq(s, 1, n) \in Seq(Unit)
           /\ Len(SubSeq(s, 1, n)) = n
           /\ SubSeq(s, 1, n)[n] = s[n]
<1>1. \A i \in 1..n : s[i] \in Unit
  BY ElementOfSeq
<1>2. n \in Int /\ 1 <= n
  OBVIOUS
<1>3. SubSeq(s, 1, n) \in Seq(Unit) /\ Len(SubSeq(s, 1, n)) = n
  BY <1>1, <1>2, SubSeqProperties
<1>4. \A i \in 1..n : SubSeq(s, 1, n)[i] = s[i]
  BY <1>1, <1>2, SubSeqProperties
<1> QED
  BY <1>3, <1>4

\* Store.Append keeps the bound, and the last unit of what is appended.
LEMMA AppendedKeepsTheTail ==
    ASSUME NEW s \in Seq(Unit), NEW b \in Seq(Unit), Len(b) > 0
    PROVE  /\ Appended(s, b) \in Logs
           /\ Appended(s, b) # <<>>
           /\ Last(Appended(s, b)) = b[Len(b)]
<1> DEFINE all == s \o b
           from == Len(all) - MaxPerMAC + 1
<1>1. Len(s) \in Nat /\ Len(b) \in Nat \ {0} /\ MaxPerMAC \in Nat \ {0}
  BY TicksAssumption, LenProperties
<1>2. /\ all \in Seq(Unit)
      /\ Len(all) = Len(s) + Len(b)
      /\ all[Len(all)] = b[Len(b)]
  BY <1>1, ConcatProperties
<1> HIDE DEF all
<1>3. CASE Len(all) > MaxPerMAC
  <2>1. from \in Int /\ Len(all) \in Int /\ from <= Len(all) /\ from >= 1
    BY <1>1, <1>2, <1>3
  <2>2. \A i \in from..Len(all) : all[i] \in Unit
    BY <1>2, <2>1, ElementOfSeq
  <2>3. /\ SubSeq(all, from, Len(all)) \in Seq(Unit)
        /\ Len(SubSeq(all, from, Len(all))) = MaxPerMAC
    BY <1>1, <1>2, <2>1, <2>2, SubSeqProperties
  <2>4. SubSeq(all, from, Len(all))[MaxPerMAC] = all[Len(all)]
    BY <1>1, <1>2, <1>3, <2>1, <2>2, SubSeqProperties
  <2>5. Appended(s, b) = SubSeq(all, from, Len(all))
    BY <1>3 DEF Appended, all
  <2>6. /\ Appended(s, b) \in Seq(Unit)
        /\ Len(Appended(s, b)) = MaxPerMAC
        /\ Appended(s, b)[MaxPerMAC] = b[Len(b)]
    BY <1>2, <2>3, <2>4, <2>5
  <2>7. Appended(s, b) # <<>>
    BY <1>1, <2>6
  <2> QED
    BY <1>1, <2>6, <2>7, LogsAreSequences DEF Last
<1>4. CASE ~(Len(all) > MaxPerMAC)
  <2>1. Appended(s, b) = all
    BY <1>4 DEF Appended, all
  <2> QED
    BY <1>1, <1>2, <1>4, <2>1, LogsAreSequences, EmptySeq DEF Last
<1> QED
  BY <1>3, <1>4

-----------------------------------------------------------------------------
(* The token                                                                *)

\* A token expires within its TTL, and less than a second before its end.
LEMMA ExpiresWithinTTL ==
    ASSUME phase \in Nat
    PROVE  ExpiresIn \in 0..CallbackTTL /\ ExpiresIn + Second > CallbackTTL
<1> DEFINE cut == (phase + CallbackTTL) % Second
<1>1. cut \in 0..(Second - 1)
  BY TicksAssumption
<1>2. ExpiresIn = IF CallbackTTL > cut THEN CallbackTTL - cut ELSE 0
  BY DEF ExpiresIn
<1> HIDE DEF cut
<1> QED
  BY <1>1, <1>2, TicksAssumption

\* What a callback is if it is a token.
LEMMA TokenTyped ==
    ASSUME TypeOK, HasToken
    PROVE  /\ callback \in Token
           /\ callback.left \in 0..CallbackTTL
           /\ callback.age \in 0..CallbackTTL
           /\ callback.good \in BOOLEAN
<1>1. callback \in Token
  BY DEF TypeOK, HasToken
<1> QED
  BY <1>1 DEF Token

\* No token is the mark of an empty URL or of none.
LEMMA TokensAreTokens == \A t \in Token : t \notin {None, Bare}
BY NoneAssumption

\* What the files carry.
LEMMA Fetched ==
    ASSUME TypeOK, Fetch
    PROVE  /\ callback' \in Token \cup {Bare, None}
           /\ HasToken' => callback' = Mint
           /\ callback' = Bare => setup.url = "bare"
<1>1. Mint \in Token
  BY ExpiresWithinTTL, TicksAssumption DEF Mint, Token, TypeOK
<1>2. setup.url \in {"token", "bare", "none"}
  BY DEF TypeOK, Setup
<1> QED
  BY <1>1, <1>2, TokensAreTokens, NoneAssumption DEF Fetch, HasToken

\* A restart leaves a token its clocks, and what else a box may hold alone.
LEMMA TokenAfterRestart ==
    ASSUME TypeOK, Restart
    PROVE  /\ HasToken' <=> HasToken
           /\ ~HasToken => callback' = callback
           /\ callback' \in Token \cup {Bare, None}
           /\ HasToken => /\ callback'.left = callback.left
                          /\ callback'.age = callback.age
<1>1. CASE ~HasToken
  BY <1>1 DEF HasToken, Restart
<1>2. CASE HasToken
  <2>1. callback' = [callback EXCEPT !.good = callback.good /\ setup.fixed]
    BY <1>2 DEF HasToken, Restart
  <2>2. setup.fixed \in BOOLEAN
    BY DEF TypeOK, Setup
  <2>3. callback' \in Token /\ callback'.left = callback.left /\ callback'.age = callback.age
    BY <1>2, <2>1, <2>2, TokenTyped DEF Token
  <2>4. HasToken'
    BY <2>3, TokensAreTokens DEF HasToken
  <2> QED
    BY <1>2, <2>3, <2>4
<1> QED
  BY <1>1, <1>2

\* A tick runs both clocks of a token, as far as they go.
LEMMA TokenAfterTick ==
    ASSUME TypeOK, Tick
    PROVE  /\ HasToken' <=> HasToken
           /\ ~HasToken => callback' = callback
           /\ callback' \in Token \cup {Bare, None}
           /\ HasToken =>
                /\ callback'.left = IF callback.left = 0 THEN 0 ELSE callback.left - 1
                /\ callback'.age = IF callback.age < CallbackTTL THEN callback.age + 1
                                   ELSE callback.age
                /\ callback'.good = callback.good
<1>1. CASE ~HasToken
  BY <1>1 DEF HasToken, Tick
<1>2. CASE HasToken
  <2> DEFINE left == IF callback.left = 0 THEN 0 ELSE callback.left - 1
             age == IF callback.age < CallbackTTL THEN callback.age + 1 ELSE callback.age
  <2>1. callback' = [callback EXCEPT !.left = left, !.age = age]
    BY <1>2 DEF HasToken, Tick
  <2>2. callback = [left |-> callback.left, age |-> callback.age, good |-> callback.good]
    BY <1>2, TokenTyped DEF Token
  <2>3. left \in 0..CallbackTTL /\ age \in 0..CallbackTTL
    BY <1>2, TokenTyped, TicksAssumption
  <2> HIDE DEF left, age
  <2>4. /\ callback'.left = left /\ callback'.age = age /\ callback'.good = callback.good
        /\ callback' \in Token
    BY <1>2, <2>1, <2>2, <2>3, TokenTyped DEF Token
  <2>5. HasToken'
    BY <2>4, TokensAreTokens DEF HasToken
  <2> QED
    BY <1>2, <2>4, <2>5 DEF left, age
<1> QED
  BY <1>1, <1>2

-----------------------------------------------------------------------------
\* Every step keeps the types.
LEMMA TypeStep == TypeOK /\ [Next]_vars => TypeOK'
<1> SUFFICES ASSUME TypeOK, [Next]_vars PROVE TypeOK'
  OBVIOUS
<1> USE NoneAssumption, TicksAssumption DEF server
<1>1. CASE Boot
  BY <1>1 DEF Boot, TypeOK
<1>2. CASE Fetch
  <2>1. callback' \in Token \cup {Bare, None}
    BY <1>2, Fetched
  <2> QED
    BY <1>2, <2>1 DEF Fetch, TypeOK
<1>3. CASE Reset
  <2>1. post # None => [post EXCEPT !.waits = FALSE] \in Request
    BY DEF Request, TypeOK
  <2> QED
    BY <1>3, <2>1 DEF Reset, TypeOK
<1>4. ASSUME NEW what \in {"done", "log"}, NEW size \in 1..(MaxPerMAC + 1),
             Post(what, size)
      PROVE  TypeOK'
  <2>1. [what |-> what, size |-> size, waits |-> TRUE] \in Request
    BY DEF Request
  <2>2. Verdict \in {"ok", "refused", "expired"}
    BY DEF Verdict, Verify
  <2> QED
    BY <1>4, <2>1, <2>2 DEF Post, TypeOK
<1>5. CASE Done
  BY <1>5 DEF Done, Answered, TypeOK
<1>6. CASE Log
  <2> DEFINE read == IF post.size > MaxPerMAC THEN MaxPerMAC ELSE post.size
             body == SubSeq(Body(post.size), 1, read)
  <2>1. post.size \in 1..(MaxPerMAC + 1)
    BY <1>6 DEF Log, TypeOK, Request
  <2>2. read \in 1..post.size /\ post.size \in Nat \ {0}
    BY <2>1
  <2>3. body \in Seq(Unit) /\ Len(body) > 0
    BY <2>2, BodyProperties, Beginning
  <2>4. log \in Seq(Unit)
    BY LogsAreSequences DEF TypeOK, Logs
  <2>5. Appended(log, body) \in Logs
    BY <2>3, <2>4, AppendedKeepsTheTail
  <2>6. log' \in Logs
    BY <1>6, <2>5 DEF Log
  <2> QED
    BY <1>6, <2>6 DEF Log, Answered, TypeOK, Logs
<1>7. CASE Put
  BY <1>7 DEF Put, TypeOK
<1>8. <<>> \in Logs
  <2>1. <<>> \in Seq(Unit) /\ Len(<<>>) = 0
    OBVIOUS
  <2>2. 0 <= MaxPerMAC
    OBVIOUS
  <2>3. \A s : s = <<>> => s \in Seq(Unit) /\ Len(s) <= MaxPerMAC
    BY <2>1, <2>2, Zenon
  <2>4. \A s : s = <<>> => s \in Logs
    BY <2>3, LogsAreSequences, Zenon
  <2> QED
    BY <2>4, Zenon
<1>9. CASE Prune
  BY <1>8, <1>9 DEF Prune, TypeOK, Logs
<1>10. CASE Restart
  <2>1. callback' \in Token \cup {Bare, None}
    BY <1>10, TokenAfterRestart
  <2> QED
    BY <1>8, <1>10, <2>1 DEF Restart, TypeOK, Logs
<1>11. CASE Tick
  <2>1. callback' \in Token \cup {Bare, None}
    BY <1>11, TokenAfterTick
  <2>2. phase' \in 0..(Second - 1)
    BY <1>11 DEF Tick, TypeOK
  <2> QED
    BY <1>11, <2>1, <2>2 DEF Tick, TypeOK
<1>12. CASE UNCHANGED vars
  BY <1>12 DEF vars, TypeOK
<1> QED
  BY <1>1, <1>2, <1>3, <1>4, <1>5, <1>6, <1>7, <1>9, <1>10, <1>11, <1>12 DEF Next

\* A log that was posted whole ends the log that is kept.
LEMMA LogStep == TypeOK /\ LogKeepsTheEnd /\ [Next]_vars => LogKeepsTheEnd'
<1> SUFFICES ASSUME TypeOK, LogKeepsTheEnd, [Next]_vars PROVE LogKeepsTheEnd'
  OBVIOUS
<1>1. CASE UNCHANGED <<log, lastLog>>
  BY <1>1 DEF LogKeepsTheEnd
<1>2. CASE Log
  <2> DEFINE read == IF post.size > MaxPerMAC THEN MaxPerMAC ELSE post.size
             body == SubSeq(Body(post.size), 1, read)
  <2>1. post.size \in 1..(MaxPerMAC + 1)
    BY <1>2 DEF Log, TypeOK, Request
  <2>2. read \in 1..post.size /\ post.size \in Nat \ {0}
    BY <2>1, TicksAssumption
  <2>3. body \in Seq(Unit) /\ Len(body) = read /\ body[read] = Body(post.size)[read]
    BY <2>2, BodyProperties, Beginning
  <2>4. log \in Seq(Unit)
    BY LogsAreSequences DEF TypeOK, Logs
  <2>5. ASSUME NEW b \in Seq(Unit), Len(b) = read
        PROVE  Appended(log, b) # <<>> /\ Last(Appended(log, b)) = b[read]
    BY <2>2, <2>4, <2>5, AppendedKeepsTheTail
  <2>6. log' = Appended(log, body) /\ (lastLog' = "whole" => ~(read < post.size))
    BY <1>2 DEF Log
  <2>7. lastLog' = "whole" => body[read] = "end"
    BY <2>2, <2>3, <2>6, BodyProperties
  <2> QED
    BY <2>3, <2>5, <2>6, <2>7 DEF LogKeepsTheEnd
<1>3. CASE Prune \/ Restart
  BY <1>3 DEF Prune, Restart, LogKeepsTheEnd
<1> QED
  BY <1>1, <1>2, <1>3
     DEF Next, vars, server, Boot, Fetch, Reset, Post, Done, Put, Tick

\* The two clocks of a token stay tied.
LEMMA ClocksStep == TypeOK /\ ClocksAgree /\ [Next]_vars => ClocksAgree'
<1> SUFFICES ASSUME TypeOK, ClocksAgree, [Next]_vars PROVE ClocksAgree'
  OBVIOUS
<1>1. CASE UNCHANGED callback
  BY <1>1 DEF ClocksAgree, HasToken
<1>2. CASE Fetch
  <2>1. ExpiresIn \in 0..CallbackTTL /\ ExpiresIn + Second > CallbackTTL
    BY ExpiresWithinTTL, TicksAssumption DEF TypeOK
  <2>2. HasToken' => callback'.left = ExpiresIn /\ callback'.age = 0
    BY <1>2, Fetched DEF Mint
  <2> QED
    BY <2>1, <2>2, TicksAssumption DEF ClocksAgree
<1>3. CASE Restart
  BY <1>3, TokenAfterRestart DEF ClocksAgree
<1>4. CASE Tick
  BY <1>4, TokenAfterTick, TokenTyped, TicksAssumption DEF ClocksAgree
<1> QED
  BY <1>1, <1>2, <1>3, <1>4
     DEF Next, vars, server, Boot, Reset, Post, Done, Log, Put, Prune

-----------------------------------------------------------------------------
\* An intent that is over stays over as time passes.
LEMMA LiveBefore ==
    ASSUME TypeOK, Tick, Live(intent)' PROVE Live(intent)
BY NoneAssumption, TicksAssumption DEF TypeOK, Tick, Live

\* An intent that nobody has stored is not live, and one just stored belongs to
\* no installation.
LEMMA NotBegun == (intent = None \/ runs = 0) => ~Begun
BY DEF Begun, Live

\* Where a request comes from that is refused for its token, rather than for
\* want of one: from a box with a token of before a restart.
LEMMA Refused ==
    ASSUME TypeOK, NEW what \in {"done", "log"}, NEW size \in 1..(MaxPerMAC + 1),
           Post(what, size)
    PROVE  /\ callback = Bare /\ heard' = "refused" /\ heard # "refused" =>
                setup.enforce
           /\ HasToken /\ heard' = "refused" /\ heard # "refused" => ~callback.good
           /\ heard' \in {heard, "refused", "expired"}
<1>1. HasToken => callback # Bare /\ callback.good \in BOOLEAN
  BY TokenTyped DEF HasToken
<1> QED
  BY <1>1 DEF Post, Verdict, Verify

\* Bare URLs stay what they were set up to be: only Fetch writes one.
LEMMA BareStep == TypeOK /\ BareAsSetUp /\ [Next]_vars => BareAsSetUp'
<1> SUFFICES ASSUME TypeOK, BareAsSetUp, [Next]_vars PROVE BareAsSetUp'
  OBVIOUS
<1>0. setup' = setup
  BY DEF Next, vars, Boot, Fetch, Reset, Post, Done, Log, Put, Prune, Restart, Tick
<1>1. CASE UNCHANGED callback
  BY <1>0, <1>1 DEF BareAsSetUp
<1>2. CASE Fetch
  BY <1>0, <1>2, Fetched DEF BareAsSetUp
<1>3. CASE Restart \/ Tick
  <2>1. HasToken' \/ callback' = callback
    BY <1>3, TokenAfterRestart, TokenAfterTick
  <2> QED
    BY <1>0, <2>1 DEF BareAsSetUp, HasToken
<1> QED
  BY <1>1, <1>2, <1>3
     DEF Next, vars, server, Boot, Reset, Post, Done, Log, Put, Prune

\* A box with a token of another secret and a box that runs from its disk have
\* no live intent that has installed them.
LEMMA BadTokenStep == TypeOK /\ BadTokenIsHarmless /\ [Next]_vars => BadTokenIsHarmless'
<1> SUFFICES ASSUME TypeOK, BadTokenIsHarmless, [Next]_vars PROVE BadTokenIsHarmless'
  OBVIOUS
<1>1. CASE Boot
  BY <1>1 DEF Boot, server, BadTokenIsHarmless, Begun
<1>2. CASE Fetch
  <2>1. box' = "configured"
    BY <1>2 DEF Fetch
  <2>2. HasToken' => callback'.good
    BY <1>2, Fetched DEF Mint
  <2> QED
    BY <2>1, <2>2 DEF BadTokenIsHarmless
<1>3. CASE Reset
  BY <1>3 DEF Reset, BadTokenIsHarmless
<1>4. ASSUME NEW what \in {"done", "log"}, NEW size \in 1..(MaxPerMAC + 1),
             Post(what, size)
      PROVE  BadTokenIsHarmless'
  BY <1>4 DEF Post, BadTokenIsHarmless, HasToken, Begun
<1>5. CASE Done
  <2>1. Begun' => Begun
    BY <1>5 DEF Done, Begun, Live
  <2> QED
    BY <1>5, <2>1 DEF Done, BadTokenIsHarmless, HasToken
<1>6. CASE Log \/ UNCHANGED vars
  BY <1>6 DEF Log, vars, BadTokenIsHarmless, HasToken, Begun
<1>7. CASE Put \/ Prune \/ Restart
  <2>1. ~Begun'
    BY <1>7 DEF Put, Prune, Restart, Begun, Live
  <2> QED
    BY <2>1 DEF BadTokenIsHarmless
<1>8. CASE Tick
  <2>1. Begun' => Begun
    BY <1>8, LiveBefore DEF Begun, Tick
  <2>2. box' = box /\ (HasToken' => HasToken /\ callback'.good = callback.good)
    BY <1>8, TokenAfterTick DEF Tick
  <2> QED
    BY <2>1, <2>2 DEF BadTokenIsHarmless
<1> QED
  BY <1>1, <1>2, <1>3, <1>4, <1>5, <1>6, <1>7, <1>8, TicksAssumption DEF Next

\* A live intent that has installed its box is of a box that was not heard.
LEMMA UnheardStep ==
    ASSUME TypeOK, BareAsSetUp, BadTokenIsHarmless, UnheardWhileLive, [Next]_vars
    PROVE  UnheardWhileLive'
<1>0. setup' = setup
  BY DEF Next, vars, Boot, Fetch, Reset, Post, Done, Log, Put, Prune, Restart, Tick
<1>1. CASE Boot
  BY <1>0, <1>1 DEF Boot, server, UnheardWhileLive, Begun
<1>2. CASE Fetch \/ Reset \/ Log \/ UNCHANGED vars
  BY <1>0, <1>2 DEF Fetch, Reset, Log, Answered, vars, server, UnheardWhileLive, Begun
<1>3. ASSUME NEW what \in {"done", "log"}, NEW size \in 1..(MaxPerMAC + 1),
             Post(what, size)
      PROVE  UnheardWhileLive'
  <2> SUFFICES ASSUME Begun'
               PROVE  \/ heard' \in {"nothing", "expired"}
                      \/ heard' = "refused" /\ setup.url = "bare" /\ setup.enforce
    BY <1>0 DEF UnheardWhileLive
  <2>1. Begun
    BY <1>3 DEF Post, Begun
  <2>2. CASE heard' = heard
    BY <2>1, <2>2 DEF UnheardWhileLive
  <2>3. CASE heard' # heard
    <3>1. heard' \in {"refused", "expired"}
      BY <1>3, <2>3, Refused
    <3>2. HasToken /\ heard' = "refused" => ~callback.good
      BY <1>3, <2>3, Refused
    <3>3. box = "configured" \/ box = "disk"
      BY <1>3 DEF Post
    <3>4. HasToken => heard' # "refused"
      BY <2>1, <3>2, <3>3 DEF BadTokenIsHarmless
    <3>5. ~HasToken => callback = Bare
      BY <1>3 DEF Post, HasToken
    <3> QED
      BY <1>3, <2>3, <3>1, <3>4, <3>5, Refused DEF BareAsSetUp
  <2> QED
    BY <2>2, <2>3
<1>4. CASE Done
  <2>1. ~Begun'
    BY <1>4 DEF Done, Begun, Live
  <2> QED
    BY <2>1 DEF UnheardWhileLive
<1>5. CASE Put \/ Prune \/ Restart
  <2>1. ~Begun'
    BY <1>5 DEF Put, Prune, Restart, Begun, Live
  <2> QED
    BY <2>1 DEF UnheardWhileLive
<1>6. CASE Tick
  <2>1. Begun' => Begun
    BY <1>6, LiveBefore DEF Begun, Tick
  <2> QED
    BY <1>0, <1>6, <2>1 DEF Tick, UnheardWhileLive
<1> QED
  BY <1>1, <1>2, <1>3, <1>4, <1>5, <1>6, TicksAssumption DEF Next

-----------------------------------------------------------------------------
\* The inductive invariant holds in every state that the program reaches.
THEOREM Invariant == Spec => []IInv
<1>1. Init => IInv
  <2> SUFFICES ASSUME Init PROVE IInv
    OBVIOUS
  <2>1. <<>> \in Logs
    <3>1. \A s : s = <<>> => s \in Seq(Unit) /\ Len(s) <= MaxPerMAC
      BY TicksAssumption
    <3>2. \A s : s = <<>> => s \in Logs
      BY <3>1, LogsAreSequences, Zenon
    <3> QED
      BY <3>2, Zenon
  <2>2. TypeOK
    BY <2>1, TicksAssumption, NoneAssumption DEF Init, TypeOK, Logs
  <2> QED
    BY <2>2, NoneAssumption DEF Init, IInv, LogKeepsTheEnd, ClocksAgree, BareAsSetUp,
                BadTokenIsHarmless, UnheardWhileLive, HasToken, Begun
<1>2. IInv /\ [Next]_vars => IInv'
  BY TypeStep, LogStep, ClocksStep, BareStep, BadTokenStep, UnheardStep DEF IInv
<1> QED
  BY <1>1, <1>2, PTL DEF Spec

\* The types.
THEOREM TypeCorrect == Spec => []TypeOK
<1>1. IInv => TypeOK
  BY DEF IInv
<1> QED
  BY <1>1, Invariant, PTL

\* The end of the last log that was posted whole is the end of the log kept.
THEOREM LogsKeepTheirEnd == Spec => []LogKeepsTheEnd
<1>1. IInv => LogKeepsTheEnd
  BY DEF IInv
<1> QED
  BY <1>1, Invariant, PTL

-----------------------------------------------------------------------------
\* A request that is let through has a good token younger than the TTL, and one
\* that is not has a bad one, or one older than the TTL less a second.
LEMMA PostStep ==
    ASSUME IInv, NEW what \in {"done", "log"}, NEW size \in 1..(MaxPerMAC + 1),
           Post(what, size), callback # Bare
    PROVE  IF post' # None THEN callback.good /\ callback.age < CallbackTTL
           ELSE ~callback.good \/ callback.age + Second > CallbackTTL
<1>1. HasToken
  BY DEF Post, HasToken
<1>2. [what |-> what, size |-> size, waits |-> TRUE] \in Request
  BY DEF Request
<1>3. post' # None <=> Verdict = "ok"
  BY <1>2, NoneAssumption DEF Post
<1>4. Verdict = "ok" <=> callback.good /\ callback.left # 0
  BY <1>1, TokenTyped DEF Verdict, Verify, HasToken, IInv
<1>5. /\ callback.left > 0 => callback.left + callback.age <= CallbackTTL
      /\ callback.left + callback.age + Second > CallbackTTL
  BY <1>1 DEF IInv, ClocksAgree
<1>6. callback.left \in Nat /\ callback.age \in Nat /\ callback.good \in BOOLEAN
  BY <1>1, TokenTyped, TicksAssumption DEF IInv
<1> QED
  BY <1>3, <1>4, <1>5, <1>6, TicksAssumption

\* A token is let through for its TTL at most and for its TTL less a second at
\* least, unless its secret has changed.
THEOREM TokensLiveTheirTTL == Spec => TokenLivesItsTTL
<1>1. IInv /\ [Next]_vars =>
        [\A size \in 1..(MaxPerMAC + 1), what \in {"done", "log"} :
            Post(what, size) /\ callback # Bare =>
                IF post' # None THEN callback.good /\ callback.age < CallbackTTL
                ELSE ~callback.good \/ callback.age + Second > CallbackTTL]_vars
  BY PostStep
<1> QED
  BY <1>1, Invariant, PTL DEF Spec, TokenLivesItsTTL

\* A box begins an installation only on a live intent, and if it has begun one
\* for the same PUT, it has not been heard.
LEMMA BootStep ==
    ASSUME IInv, [Next]_vars, box = "off", box' = "installer", runs > 0
    PROVE  \/ heard = "nothing"
           \/ heard = "expired"
           \/ heard = "refused" /\ setup.url = "bare" /\ setup.enforce
<1>1. Boot
  BY DEF Next, vars, Fetch, Reset, Post, Done, Log, Put, Prune, Restart, Tick
<1>2. Begun
  BY <1>1 DEF Boot, Begun
<1> QED
  BY <1>2 DEF IInv, UnheardWhileLive

\* A box is installed twice for one PUT only if nobody has heard it.
THEOREM OnlyTheUnheardReinstall == Spec => ReinstalledOnlyUnheard
<1>1. IInv /\ [Next]_vars =>
        [box = "off" /\ box' = "installer" /\ runs > 0 =>
            \/ heard = "nothing"
            \/ heard = "expired"
            \/ heard = "refused" /\ setup.url = "bare" /\ setup.enforce]_vars
  BY BootStep
<1> QED
  BY <1>1, Invariant, PTL DEF Spec, ReinstalledOnlyUnheard

=============================================================================
