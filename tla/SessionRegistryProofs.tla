------------------------ MODULE SessionRegistryProofs ------------------------
(***************************************************************************)
(* What the worker of a connection answers, proved once for the proofs of  *)
(* both front ends: the type of its sessions, that the answer to a request *)
(* tells what the session holds afterwards, when a request is misaddressed,*)
(* and that a fresh number is one that nothing uses.                       *)
(***************************************************************************)
EXTENDS SessionRegistry, FiniteSetTheorems, WellFoundedInduction, TLAPS

Ids == Nat \ {0}
Sessions == [last : Nat, shows : Presentations, typos : Nat]
Registries == UNION {[D -> Sessions] : D \in SUBSET Ids}

SessionKinds == {"Key", "Digit", "Select", "SelectTypo", "Forget", "ResetLearning",
                 "RequestTypos", "Reset", "Commit"}
Requests == [kind : SessionKinds, index : Nat]
Codes == {"ok", "Internal", "InvalidPayload", "InvalidText", "UnknownSession", "OutOfOrder", "Lost"}
Replies == [kind : {"state", "typos", "error"}, code : Codes, shows : Presentations,
            consumed : BOOLEAN, commit : BOOLEAN, typos : Nat]

\* The index of a request is one of the list it chooses from
Chooses(s, request) ==
    /\ request.kind \in {"Select", "Forget"} => request.index < s.shows.cands
    /\ request.kind = "SelectTypo" => request.index < s.typos

\* What the reply to a request on session s says of the session t it leaves
Tells(s, request, t, reply) ==
    /\ t \in Sessions /\ reply \in Replies
    /\ reply.kind = "state" => /\ reply.code = "ok"
                               /\ t.shows = reply.shows /\ t.typos = 0
    /\ reply.kind = "typos" => /\ request.kind = "RequestTypos" /\ reply.code = "ok"
                               /\ t.shows = s.shows /\ t.typos = reply.typos
                               /\ ~reply.commit
    /\ reply.kind = "error" => ~reply.commit
    /\ reply.code \notin {"UnknownSession", "OutOfOrder"}
    /\ Chooses(s, request) => ~Misaddressed(request, reply.code)

-----------------------------------------------------------------------------
(* Numbers that nothing uses                                               *)

\* A set of naturals that is not empty has a least element.
LEMMA LeastNumber ==
    ASSUME NEW T \in SUBSET Nat, T # {}
    PROVE  \E n \in T : \A m \in T : n <= m
  <1>1. PICK n \in T : \A m \in T : ~(<<m, n>> \in OpToRel(<, Nat))
    BY NatLessThanWellFounded, WFMin
  <1>2. \A m \in T : ~ m < n
    BY <1>1 DEF OpToRel
  <1>3. \A m \in T : m \in Nat
    OBVIOUS
  <1> QED  BY <1>2, <1>3

\* A fresh session id or generation differs from every number in use.
LEMMA FreshIsUnused ==
    ASSUME NEW used, IsFiniteSet(used)
    PROVE  Fresh(used) \in Ids /\ Fresh(used) \notin used
  <1> DEFINE n == Cardinality(used)
             all == 1..(n + 1)
             left == all \ used
  <1>1. n \in Nat
    BY FS_CardinalityType
  <1>2. IsFiniteSet(all) /\ Cardinality(all) = n + 1
    BY <1>1, FS_Interval
  <1>3. left # {}
    <2>1. SUFFICES ASSUME left = {} PROVE FALSE
      OBVIOUS
    <2>2. all \in SUBSET used
      BY <2>1
    <2>3. Cardinality(all) <= Cardinality(used)
      BY <2>2, FS_Subset
    <2> QED  BY <1>1, <1>2, <2>3
  <1>4. left \in SUBSET Nat
    BY <1>1
  <1>5. PICK k \in left : \A m \in left : k <= m
    <2> HIDE DEF left
    <2> QED  BY <1>3, <1>4, LeastNumber
  <1>6. Min(left) \in left
    BY <1>5 DEF Min
  <1>7. Fresh(used) = Min(left)
    BY DEF Fresh
  <1> QED  BY <1>1, <1>6, <1>7 DEF Ids

\* The numbers a finite set of contexts holds are finitely many.
LEMMA FiniteRange ==
    ASSUME NEW S, IsFiniteSet(S), NEW f, f = [x \in S |-> f[x]]
    PROVE  IsFiniteSet({f[x] : x \in S})
  <1> DEFINE T == {f[x] : x \in S}
  <1>1. f \in [S -> T]
    OBVIOUS
  <1>2. f \in Surjection(S, T)
    BY <1>1 DEF Surjection
  <1> HIDE DEF T
  <1>3. IsFiniteSet(T)
    BY <1>2, FS_Surjection
  <1> QED  BY <1>3 DEF T

-----------------------------------------------------------------------------
(* The answers of a session                                                *)

\* A session without text shows nothing.
LEMMA NothingShown == Nothing \in Presentations /\ Nothing.cands = 0 /\ ~Nothing.text
  BY RegistryAssumption DEF Nothing, Presentations

\* Every session a handler leaves is one, and its reply tells what it holds.
LEMMA ResultTells ==
    ASSUME NEW s \in Sessions, NEW request \in Requests,
           NEW r \in SessionResults(s, request)
    PROVE  /\ Tells(s, request, r.session, r.reply)
           /\ r.session.last = s.last
  <1> USE NothingShown
  <1> DEFINE Claim == /\ Tells(s, request, r.session, r.reply)
                      /\ r.session.last = s.last
  <1>1. ASSUME NEW p \in Presentations, NEW consumed \in BOOLEAN, NEW commit \in BOOLEAN,
               r = Result(Shown(s, p), StateReply(p, consumed, commit))
        PROVE  Claim
    BY <1>1 DEF Result, Shown, StateReply, Tells, Sessions, Replies, Codes, Misaddressed
  <1>2. ASSUME NEW code \in {"Internal", "InvalidText", "InvalidPayload"},
               r = Failed(s, code),
               Chooses(s, request) /\ request.kind # "Digit" => code # "InvalidPayload"
        PROVE  Claim
    BY <1>2 DEF Result, Failed, ErrorReply, Tells, Sessions, Replies, Codes, Misaddressed
  <1>3. ASSUME NEW n \in Nat, r = Result([s EXCEPT !.typos = n], TypoReply(n)),
               request.kind = "RequestTypos"
        PROVE  Claim
    BY <1>3 DEF Result, TypoReply, Tells, Sessions, Replies, Codes, Misaddressed
  <1> SUFFICES Claim
    OBVIOUS
  <1> HIDE DEF Claim
  <1>4. CASE request.kind = "Key"
    BY <1>1, <1>2, <1>4 DEF SessionResults, KeyResults
  <1>5. CASE request.kind = "Select"
    BY <1>1, <1>2, <1>5 DEF SessionResults, SelectResults, Chooses
  <1>6. CASE request.kind = "SelectTypo"
    BY <1>1, <1>2, <1>6 DEF SessionResults, SelectTypoResults, Chooses
  <1>7. CASE request.kind = "Forget"
    BY <1>1, <1>2, <1>7 DEF SessionResults, ForgetResults, Chooses
  <1>8. CASE request.kind = "ResetLearning"
    BY <1>1, <1>2, <1>8 DEF SessionResults, ResetLearningResults
  <1>9. CASE request.kind = "RequestTypos"
    <2>1. r \in RequestTyposResults(s)
      BY <1>9 DEF SessionResults
    <2>2. (IF s.shows.text THEN 0..MaxTypos ELSE {0}) \subseteq Nat
      BY RegistryAssumption
    <2>3. CASE r = Failed(s, "Internal")
      BY <1>2, <2>3
    <2>4. CASE r # Failed(s, "Internal")
      <3>1. PICK n \in Nat : r = Result([s EXCEPT !.typos = n], TypoReply(n))
        BY <2>1, <2>2, <2>4 DEF RequestTyposResults
      <3> QED  BY <1>3, <1>9, <3>1
    <2> QED  BY <2>3, <2>4
  <1>10. CASE request.kind = "Reset"
    <2>1. r = Result(Shown(s, Nothing), StateReply(Nothing, FALSE, FALSE))
      BY <1>10 DEF SessionResults, ResetResults
    <2> QED  BY <1>1, <2>1
  <1>11. CASE request.kind = "Commit"
    <2>1. s.shows.text \in BOOLEAN
      BY DEF Sessions, Presentations
    <2>2. r = Result(Shown(s, Nothing), StateReply(Nothing, s.shows.text, s.shows.text))
      BY <1>11 DEF SessionResults, CommitResults
    <2> QED  BY <1>1, <2>1, <2>2
  <1>12. CASE request.kind = "Digit"
    <2>1. r \in DigitResults(s, request.index)
      BY <1>12 DEF SessionResults
    <2>2. CASE r = Failed(s, "InvalidText")
      BY <1>2, <2>2
    <2>3. CASE r # Failed(s, "InvalidText")
      <3>1. PICK n : r \in SelectResults(s, n)
        BY <2>1, <2>3 DEF DigitResults
      <3> QED  BY <1>1, <1>2, <1>12, <3>1 DEF SelectResults
    <2> QED  BY <2>2, <2>3
  <1>13. request.kind \in SessionKinds
    BY DEF Requests
  <1> QED  BY <1>4, <1>5, <1>6, <1>7, <1>8, <1>9, <1>10, <1>11, <1>12, <1>13
           DEF SessionKinds

-----------------------------------------------------------------------------
(* The answers of the worker                                               *)

\* A registry is a function whose values are sessions.
LEMMA RegistryType ==
    ASSUME NEW registry \in Registries
    PROVE  /\ DOMAIN registry \subseteq Ids
           /\ \A k \in DOMAIN registry : registry[k] \in Sessions
           /\ registry = [k \in DOMAIN registry |-> registry[k]]
  <1>1. PICK D \in SUBSET Ids : registry \in [D -> Sessions]
    BY DEF Registries
  <1> QED  BY <1>1

\* A new connection has no sessions.
LEMMA NoSessionsType == NoSessions \in Registries /\ DOMAIN NoSessions = {}
  <1>1. NoSessions \in [{} -> Sessions] /\ {} \in SUBSET Ids
    BY DEF NoSessions
  <1> QED  BY <1>1 DEF Registries, NoSessions

\* Inserting a session changes nothing about the others.
LEMMA PutFacts ==
    ASSUME NEW registry \in Registries, NEW sid \in Ids, NEW s \in Sessions
    PROVE  LET put == Put(registry, sid, s)
           IN  /\ put \in Registries
               /\ DOMAIN put = DOMAIN registry \cup {sid}
               /\ put[sid] = s
               /\ \A k \in DOMAIN registry \ {sid} : put[k] = registry[k]
  <1> DEFINE put == Put(registry, sid, s)
             D == DOMAIN registry \cup {sid}
  <1>1. D \in SUBSET Ids /\ \A k \in DOMAIN registry : registry[k] \in Sessions
    BY RegistryType
  <1>2. put \in [D -> Sessions]
    BY <1>1 DEF Put
  <1>3. put \in Registries
    BY <1>1, <1>2 DEF Registries
  <1> QED  BY <1>3 DEF Put

\* Removing a session changes nothing about the others.
LEMMA DropFacts ==
    ASSUME NEW registry \in Registries, NEW sid
    PROVE  LET left == Drop(registry, sid)
           IN  /\ left \in Registries
               /\ DOMAIN left = DOMAIN registry \ {sid}
               /\ \A k \in DOMAIN left : left[k] = registry[k]
  <1> DEFINE left == Drop(registry, sid)
             D == DOMAIN registry \ {sid}
  <1>1. D \in SUBSET Ids /\ \A k \in DOMAIN registry : registry[k] \in Sessions
    BY RegistryType
  <1>2. left \in [D -> Sessions]
    BY <1>1 DEF Drop
  <1>3. left \in Registries
    BY <1>1, <1>2 DEF Registries
  <1> QED  BY <1>3 DEF Drop

\* A request on a registered session, with a number it has not seen, changes
\* that session only, and the reply tells what it holds.
LEMMA HandleAnswers ==
    ASSUME NEW registry \in Registries, NEW sid \in DOMAIN registry, NEW rid \in Nat,
           rid > registry[sid].last, NEW request \in Requests,
           NEW a \in Handle(registry, sid, rid, request)
    PROVE  /\ a.registry \in Registries
           /\ DOMAIN a.registry = DOMAIN registry
           /\ \A k \in DOMAIN registry \ {sid} : a.registry[k] = registry[k]
           /\ a.registry[sid].last = rid
           /\ Tells(registry[sid], request, a.registry[sid], a.reply)
  <1> DEFINE s == registry[sid]
             t == [s EXCEPT !.last = rid]
  <1>1. s \in Sessions /\ sid \in Ids
    BY RegistryType
  <1>2. /\ t \in Sessions /\ t.last = rid /\ t.shows = s.shows /\ t.typos = s.typos
        /\ s.last \in Nat
    BY <1>1 DEF Sessions
  <1>3. request.kind \in SessionKinds
    BY DEF Requests
  <1>4. PICK r \in SessionResults(t, request) :
               a = Answer(Put(registry, sid, r.session), r.reply)
    BY <1>2, <1>3 DEF Handle, SessionKinds
  <1> HIDE DEF t
  <1>5. Tells(t, request, r.session, r.reply) /\ r.session.last = rid
    BY <1>2, <1>4, ResultTells
  <1>6. r.session \in Sessions
    BY <1>5 DEF Tells
  <1>7. a.registry = Put(registry, sid, r.session) /\ a.reply = r.reply
    BY <1>4 DEF Answer
  <1>8. /\ a.registry \in Registries
        /\ DOMAIN a.registry = DOMAIN registry
        /\ a.registry[sid] = r.session
        /\ \A k \in DOMAIN registry \ {sid} : a.registry[k] = registry[k]
    BY <1>1, <1>6, <1>7, PutFacts
  <1>9. Tells(s, request, r.session, r.reply)
    BY <1>2, <1>5 DEF Tells, Chooses
  <1> QED  BY <1>5, <1>7, <1>8, <1>9

\* Ending a session removes it, whatever the answer.
LEMMA HandleEnds ==
    ASSUME NEW registry \in Registries, NEW sid \in DOMAIN registry, NEW rid \in Nat,
           rid > registry[sid].last,
           NEW a \in Handle(registry, sid, rid, Plain("End"))
    PROVE  /\ a.registry \in Registries
           /\ DOMAIN a.registry = DOMAIN registry \ {sid}
           /\ \A k \in DOMAIN a.registry : a.registry[k] = registry[k]
           /\ a.reply \in Replies /\ ~a.reply.commit /\ ~Misaddressed(Plain("End"), a.reply.code)
  <1>1. registry[sid] \in Sessions
    BY RegistryType
  <1>2. ~(rid <= registry[sid].last)
    BY <1>1 DEF Sessions
  <1>3. a \in HandleEnd(registry, sid)
    BY <1>2 DEF Handle, Plain
  <1> DEFINE done == StateReply(Nothing, FALSE, FALSE)
             failed == ErrorReply("Internal")
             left == Drop(registry, sid)
  <1>4. a.registry = left /\ a.reply \in {done, failed}
    <2> HIDE DEF done, failed, left
    <2>1. a \in {Answer(left, done), Answer(left, failed)}
      BY <1>3 DEF HandleEnd, done, failed, left
    <2> QED  BY <2>1 DEF Answer
  <1>5. a.reply \in Replies /\ ~a.reply.commit /\ ~Misaddressed(Plain("End"), a.reply.code)
    <2>1. CASE a.reply = done
      BY <2>1, NothingShown DEF StateReply, Replies, Codes, Misaddressed, Plain
    <2>2. CASE a.reply = failed
      BY <2>2, NothingShown DEF ErrorReply, Replies, Codes, Misaddressed, Plain
    <2> QED  BY <1>4, <2>1, <2>2
  <1>6. /\ left \in Registries /\ DOMAIN left = DOMAIN registry \ {sid}
        /\ \A k \in DOMAIN left : left[k] = registry[k]
    BY DropFacts
  <1> HIDE DEF left
  <1> QED  BY <1>4, <1>5, <1>6

\* Starting a session under a number the registry does not know inserts an
\* empty one, or fails and inserts nothing.
LEMMA HandleStarts ==
    ASSUME NEW registry \in Registries, NEW sid \in Ids, sid \notin DOMAIN registry,
           NEW rid \in Nat, NEW a \in Handle(registry, sid, rid, Plain("Start"))
    PROVE  /\ a.registry \in Registries
           /\ a.reply \in Replies /\ ~a.reply.commit /\ ~Misaddressed(Plain("Start"), a.reply.code)
           /\ \/ /\ a.reply.kind = "state" /\ a.reply.shows = Nothing /\ a.reply.code = "ok"
                 /\ DOMAIN a.registry = DOMAIN registry \cup {sid}
                 /\ a.registry[sid] = [last |-> rid, shows |-> Nothing, typos |-> 0]
                 /\ \A k \in DOMAIN registry : a.registry[k] = registry[k]
              \/ a.reply.kind = "error" /\ a.registry = registry
  <1> DEFINE s == [last |-> rid, shows |-> Nothing, typos |-> 0]
  <1>1. s \in Sessions
    BY NothingShown DEF Sessions
  <1>2. a \in HandleStart(registry, sid, rid)
    BY DEF Handle, Plain
  <1>3. CASE a = Answer(Put(registry, sid, s), StateReply(Nothing, FALSE, FALSE))
    <2> HIDE DEF s
    <2> DEFINE done == StateReply(Nothing, FALSE, FALSE)
    <2>1. a.registry = Put(registry, sid, s) /\ a.reply = done
      <3> HIDE DEF done
      <3>1. a = Answer(Put(registry, sid, s), done)
        BY <1>3 DEF done
      <3> QED  BY <3>1 DEF Answer
    <2>2. /\ a.registry \in Registries
          /\ DOMAIN a.registry = DOMAIN registry \cup {sid}
          /\ a.registry[sid] = s
          /\ \A k \in DOMAIN registry : a.registry[k] = registry[k]
      <3> DEFINE put == Put(registry, sid, s)
      <3> HIDE DEF done, put
      <3>1. a.registry = put
        BY <2>1 DEF put
      <3>2. /\ put \in Registries /\ DOMAIN put = DOMAIN registry \cup {sid}
            /\ put[sid] = s
            /\ \A k \in DOMAIN registry \ {sid} : put[k] = registry[k]
        BY ZenonT(30), <1>1, PutFacts DEF put
      <3> QED  BY <3>1, <3>2
    <2>3. /\ a.reply \in Replies /\ ~a.reply.commit /\ ~Misaddressed(Plain("Start"), a.reply.code)
          /\ a.reply.kind = "state" /\ a.reply.shows = Nothing /\ a.reply.code = "ok"
      BY <2>1, NothingShown DEF StateReply, Replies, Codes, Misaddressed, Plain
    <2> QED  BY <2>2, <2>3 DEF s
  <1>4. ASSUME NEW code \in {"Internal", "InvalidText"}, a = Answer(registry, ErrorReply(code))
        PROVE  /\ a.registry = registry /\ a.reply \in Replies /\ ~a.reply.commit
               /\ ~Misaddressed(Plain("Start"), a.reply.code) /\ a.reply.kind = "error"
    <2> DEFINE failed == ErrorReply(code)
    <2>1. a.registry = registry /\ a.reply = failed
      <3> HIDE DEF failed
      <3>1. a = Answer(registry, failed)
        BY <1>4 DEF failed
      <3> QED  BY <3>1 DEF Answer
    <2>2. /\ a.reply \in Replies /\ ~a.reply.commit /\ ~Misaddressed(Plain("Start"), a.reply.code)
          /\ a.reply.kind = "error"
      BY <2>1, NothingShown DEF ErrorReply, Replies, Codes, Misaddressed, Plain
    <2> QED  BY <2>1, <2>2
  <1> QED  BY <1>2, <1>3, <1>4 DEF HandleStart

=============================================================================
