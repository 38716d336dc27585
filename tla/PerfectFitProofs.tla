-------------------------- MODULE PerfectFitProofs --------------------------
(***************************************************************************)
(* Theorems about the edit session, and about the fit that drives one.     *)
(*                                                                         *)
(* The edit session first: Spec is that of EditSession, in which reviews   *)
(* are answered one call at a time.                                        *)
(*                                                                         *)
(* Then what a fit may cut, for every resume, job, word list and budget:   *)
(* the rankers, what is chosen scores lowest; the plan of a fit, what its  *)
(* changes make of the resume and its ledger, and the budgets.  Two        *)
(* invariants carry this through the call: FitInv, for the order of the    *)
(* scores, and PlanInv, for the rest: at every step of it the session in   *)
(* flight answers the plan that was made of the resume.                    *)
(***************************************************************************)
EXTENDS PerfectFit, ChangeProofs

-----------------------------------------------------------------------------
(* The edit session.                                                       *)

\* A review in order: see ReviewController.
InOrder(s) ==
    Reviewed(s) => /\ NothingSkipped(s.changes, s.logged, s.cursor)
                   /\ DecidedBehind(s.changes, s.logged, s.cursor)
                   /\ Answerable(s.changes, s.logged, s.cursor)

\* The session an open_session in flight is about to write is in order, and what
\* is left to resolve are changes of that session, in auto mode only.
ResolvesInOrder ==
    step.at = "resolve" =>
        /\ InOrder(step.session)
        /\ Reviewed(step.session) => step.todo = <<>>
        /\ \A i \in DOMAIN step.todo :
               \E k \in Keys(step.session.changes) : step.session.changes[k] = step.todo[i]

\* The session a commit in flight is about to publish was decided at the gate.
CommitsDecided ==
    step.at \in {"grow", "write_tailored"} => FullyDecided(step.commit.session)

\* The inductive invariant behind the theorems below.
Inv == /\ TypeOK
       /\ InOrder(session)
       /\ ResolvesInOrder
       /\ CommitsDecided
       /\ CommittedMeansDecided

-----------------------------------------------------------------------------
(* Types of what the actions compute.                                       *)

LEMMA ChangesOfSession ==
    ASSUME NEW changes \in Seq(Change)
    PROVE  /\ Len(changes) \in Nat
           /\ Keys(changes) = 1 .. Len(changes)
           /\ changes = <<>> <=> Len(changes) = 0
           /\ \A k \in Keys(changes) : /\ changes[k] \in Change
                                       /\ KeySection(changes, k) \in Section
                                       /\ KeySection(changes, k) # NoSection
<1>1. \A c \in Change : SectionOf(c) \in Section /\ SectionOf(c) # NoSection
    BY FieldAssumption, NoSectionAssumption DEF Change, SectionOf, Section
<1>2. /\ Len(changes) \in Nat
      /\ Keys(changes) = 1 .. Len(changes)
      /\ changes = <<>> <=> Len(changes) = 0
      /\ \A k \in Keys(changes) : changes[k] \in Change
    BY DEF Keys
<1> QED
    BY <1>1, <1>2 DEF KeySection

\* The cursor only ever names a section of the resume, or none.
LEMMA HeldCursorType ==
    ASSUME NEW changes \in Seq(Change), NEW logged, NEW action,
           NEW cursor \in Section \cup {NoSection}
    PROVE  HeldCursor(changes, logged, cursor, action) \in Section \cup {NoSection}
<1>1. LaterOpeners(changes, cursor) \in SUBSET Nat
      /\ LaterOpeners(changes, cursor) \subseteq Keys(changes)
    BY ChangesOfSession DEF LaterOpeners
<1>2. LaterOpeners(changes, cursor) # {} =>
        Least(LaterOpeners(changes, cursor)) \in Keys(changes)
    BY <1>1, LeastOfNaturals
<1>3. NextSection(changes, cursor) \in Section \cup {NoSection}
    BY <1>2, ChangesOfSession DEF NextSection
<1> QED
    BY <1>3 DEF HeldCursor, AdvancedCursor

\* Recording a decision yields a session again.
LEMMA WithDecisionType ==
    ASSUME NEW s \in Session, s.logged \subseteq Keys(s.changes),
           NEW c \in Change, NEW action \in ReviewAction, NEW content \in Value
    PROVE  LET t == WithDecision(s, c, action, content)
           IN  /\ t \in Session
               /\ t.logged \subseteq Keys(t.changes)
               /\ t.changes = s.changes
               /\ t.mode = s.mode
<1> DEFINE logged == IF action \in Terminal
                     THEN s.logged \cup KeyFor(s.changes, c, s.logged) ELSE s.logged
           t == WithDecision(s, c, action, content)
<1>1. s.changes \in Seq(Change) /\ s.cursor \in Section \cup {NoSection}
    BY DEF Session
<1>2. KeyFor(s.changes, c, s.logged) \subseteq Keys(s.changes)
    BY <1>1, ChangesOfSession, KeyForStaysInSection
<1>3. logged \subseteq Keys(s.changes) /\ logged \in SUBSET Nat
    BY <1>1, <1>2, ChangesOfSession
<1>4. HeldCursor(s.changes, logged, s.cursor, action) \in Section \cup {NoSection}
    BY <1>1, HeldCursorType
<1>5. Decision(c, action, content) \in DecisionRecord
    BY DEF Decision, DecisionRecord
<1>6. Append(s.decisions, Decision(c, action, content)) \in Seq(DecisionRecord)
    BY <1>5 DEF Session
<1>7. t = [s EXCEPT !.decisions = Append(@, Decision(c, action, content)),
                    !.logged = logged,
                    !.cursor = HeldCursor(s.changes, logged, s.cursor, action)]
    BY DEF WithDecision
<1>8. t \in Session /\ t.changes = s.changes /\ t.logged = logged /\ t.mode = s.mode
    BY <1>3, <1>4, <1>6, <1>7 DEF Session
<1> QED
    BY <1>3, <1>8

LEMMA FeedbackRecordType ==
    ASSUME NEW s \in Session, NEW k \in Nat, NEW action \in ReviewAction
    PROVE  FeedbackRecord(s, k, action) \in Line
<1>1. s.id \in Nat
    BY SessionAssumption DEF Session
<1>2. FeedbackOutcome(action) \in Outcome
    BY DEF FeedbackOutcome, Outcome
<1> QED
    BY <1>1, <1>2 DEF FeedbackRecord, Line

LEMMA NoSessionType ==
    /\ NoSession \in Session
    /\ NoSession.logged \subseteq Keys(NoSession.changes)
    /\ InOrder(NoSession)
<1>1. NoSession \in Session
    BY SessionAssumption DEF NoSession, Session, Mode
<1>2. NoSession.logged = {} /\ Keys(NoSession.changes) = {} /\ NoSession.cursor = NoSection
    BY DEF NoSession, Keys
<1> QED
    BY <1>1, <1>2 DEF InOrder, NothingSkipped, DecidedBehind, Answerable

LEMMA InitEstablishesInv == Init => Inv
<1> SUFFICES ASSUME Init PROVE Inv
    OBVIOUS
<1>1. step = Idle /\ step.at = "idle"
    BY DEF Init, Idle
<1>2. TypeOK
    BY <1>1, NoSessionType, SessionAssumption DEF Init, TypeOK, Step
<1>3. InOrder(session)
    BY NoSessionType DEF Init
<1>4. CommittedMeansDecided
    BY DEF Init, CommittedMeansDecided
<1> QED
    BY <1>1, <1>2, <1>3, <1>4 DEF Inv, ResolvesInOrder, CommitsDecided

-----------------------------------------------------------------------------
(* One lemma for every action that does more than move on.                  *)

LEMMA OpenSessionKeepsInv ==
    ASSUME Inv, NEW mode \in Modes, NEW proposal \in Proposals, OpenSession(mode, proposal)
    PROVE  Inv'
<1> DEFINE fresh == NewSession(mode, proposal)
           todo  == IF mode = "auto" THEN proposal.changes ELSE <<>>
<1>1. proposal.changes \in Seq(Change) /\ mode \in Mode
    BY SessionAssumption
<1>2. InitialCursor(proposal.changes) \in Section \cup {NoSection}
    BY <1>1, ChangesOfSession DEF InitialCursor, FirstSection
<1>3. opened + 1 \in 0 .. MaxSessions
    BY SessionAssumption DEF Inv, TypeOK, OpenSession
<1>4. fresh \in Session /\ fresh.logged = {} /\ fresh.changes = proposal.changes
      /\ fresh.cursor = InitialCursor(proposal.changes) /\ fresh.mode = mode
    BY <1>1, <1>2, <1>3 DEF NewSession, Session, Inv, TypeOK
<1>5. step' = [at |-> "resolve", session |-> fresh, records |-> <<>>, todo |-> todo]
    BY DEF OpenSession
<1>6. todo \in Seq(Change)
    BY <1>1
<1>7. step' \in Step /\ step'.at = "resolve"
    BY <1>4, <1>5, <1>6 DEF Step
<1>8. session' = NoSession /\ UNCHANGED <<config, feedback, tailored>> /\ opened' = opened + 1
    BY DEF OpenSession
<1>9. archive' \subseteq Session
    BY DEF OpenSession, Inv, TypeOK
<1>10. TypeOK'
    BY <1>3, <1>4, <1>5, <1>7, <1>8, <1>9, NoSessionType DEF TypeOK, Inv
<1>11. InOrder(fresh)
    BY <1>1, <1>4, ChangesOfSession, InitialCursorStartsReview DEF InOrder
<1>12. ResolvesInOrder'
    <2>1. Reviewed(fresh) => todo = <<>>
        BY <1>4 DEF Reviewed
    <2>2. \A i \in DOMAIN todo : \E k \in Keys(fresh.changes) : fresh.changes[k] = todo[i]
        BY <1>1, <1>4 DEF Keys
    <2> QED
        BY <1>5, <1>11, <2>1, <2>2 DEF ResolvesInOrder
<1>13. CommitsDecided' /\ CommittedMeansDecided'
    BY <1>7, <1>8 DEF CommitsDecided, CommittedMeansDecided, Inv
<1>14. InOrder(session')
    BY <1>8, NoSessionType
<1> QED
    BY <1>10, <1>12, <1>13, <1>14 DEF Inv

LEMMA AutoResolveKeepsInv ==
    ASSUME Inv, AutoResolve
    PROVE  Inv'
<1> DEFINE s == step.session
           c == Head(step.todo)
           k == Least(KeyFor(s.changes, c, {}))
           moved == [s EXCEPT !.cursor = SectionOf(c)]
<1>1. step \in Step /\ step.at = "resolve" /\ step.todo # <<>>
    BY DEF AutoResolve, Inv, TypeOK
<1>2. /\ s \in Session
      /\ step.todo \in Seq(Change)
      /\ step.records \in Seq(Line)
      /\ step \in [at : {"resolve"}, session : Session, records : Seq(Line), todo : Seq(Change)]
    BY <1>1 DEF Step, Idle
<1>3. c \in Change /\ Tail(step.todo) \in Seq(Change)
    BY <1>1, <1>2
<1>4. s.logged \subseteq Keys(s.changes) /\ s.changes \in Seq(Change)
    BY <1>1, <1>2 DEF Inv, TypeOK, Session
<1>5. ~Reviewed(s)
    BY <1>1 DEF Inv, ResolvesInOrder
<1>6. moved \in Session /\ moved.logged = s.logged /\ moved.changes = s.changes
      /\ moved.mode = s.mode
    <2>1. SectionOf(c) \in Section
        BY <1>3, FieldAssumption DEF Change, SectionOf, Section
    <2> HIDE DEF s, c
    <2> QED
        BY <1>2, <2>1 DEF Session
<1>7. Null \in Value /\ "approve" \in ReviewAction
    BY DEF Value, ReviewAction, Terminal
<1> DEFINE t == AutoResolved(s, c)
<1>8. /\ t \in Session
      /\ t.logged \subseteq Keys(t.changes)
      /\ t.changes = s.changes
      /\ t.mode = s.mode
    <2>1. t = WithDecision(moved, c, "approve", Null)
        BY DEF AutoResolved
    <2>2. moved.logged \subseteq Keys(moved.changes)
        BY <1>4, <1>6
    <2> HIDE DEF t, moved, s, c
    <2> QED
        BY <1>3, <1>6, <1>7, <2>1, <2>2, WithDecisionType
<1>9. k \in Nat
    <2>1. \E j \in Keys(s.changes) : s.changes[j] = c
        <3>1. 1 \in DOMAIN step.todo /\ c = step.todo[1]
            BY <1>1, <1>2
        <3> QED
            BY <1>1, <3>1 DEF Inv, ResolvesInOrder
    <2>2. KeyFor(s.changes, c, {}) # {}
        BY <2>1 DEF KeyFor
    <2>3. KeyFor(s.changes, c, {}) \in SUBSET Nat
        <3>1. /\ Len(s.changes) \in Nat
              /\ Keys(s.changes) = 1 .. Len(s.changes)
            BY <1>4, ChangesOfSession
        <3>2. \A j \in KeyFor(s.changes, c, {}) : j \in Keys(s.changes) \ {}
            BY <3>1, KeyForStaysInSection
        <3> HIDE DEF s, c
        <3> QED
            BY <3>1, <3>2
    <2> QED
        BY <2>2, <2>3, LeastOfNaturals
<1>10. Append(step.records, FeedbackRecord(s, k, "approve")) \in Seq(Line)
    BY <1>2, <1>7, <1>9, FeedbackRecordType
<1>11. /\ step' \in [at : {"resolve"}, session : Session, records : Seq(Line), todo : Seq(Change)]
       /\ step'.session \in {s, t}
       /\ step'.todo = Tail(step.todo)
    BY <1>2, <1>3, <1>8, <1>10 DEF AutoResolve
<1>12. UNCHANGED <<config, session, archive, tailored, feedback, opened>>
    BY DEF AutoResolve, files
<1>13. TypeOK'
    BY <1>4, <1>8, <1>11, <1>12 DEF Inv, TypeOK, Step
<1>14. ResolvesInOrder'
    <2>1. ~Reviewed(step'.session) /\ step'.session.changes = s.changes
        BY <1>5, <1>8, <1>11 DEF Reviewed
    <2>2. \A i \in DOMAIN Tail(step.todo) :
             \E j \in DOMAIN step.todo : Tail(step.todo)[i] = step.todo[j]
        <3>1. \A i \in DOMAIN Tail(step.todo) :
                 i + 1 \in DOMAIN step.todo /\ Tail(step.todo)[i] = step.todo[i + 1]
            BY <1>1, <1>2
        <3> QED
            BY <3>1
    <2> QED
        BY <1>1, <1>11, <2>1, <2>2 DEF Inv, ResolvesInOrder, InOrder
<1> QED
    BY <1>11, <1>12, <1>13, <1>14
    DEF Inv, InOrder, CommitsDecided, CommittedMeansDecided

LEMMA AfterSessionWriteType ==
    ASSUME NEW records \in Seq(Line)
    PROVE  /\ AfterSessionWrite(records) \in Step
           /\ AfterSessionWrite(records).at \in {"idle", "feedback"}
    BY DEF AfterSessionWrite, Step, Idle

LEMMA WriteSessionKeepsInv ==
    ASSUME Inv, WriteSession
    PROVE  Inv'
<1>1. step \in Step /\ step.at = "resolve"
    BY DEF WriteSession, Inv, TypeOK
<1>2. step.session \in Session /\ step.records \in Seq(Line)
    BY <1>1 DEF Step, Idle
<1>3. /\ session' = step.session
      /\ step' = AfterSessionWrite(step.records)
      /\ UNCHANGED <<config, archive, tailored, feedback, opened>>
    BY DEF WriteSession
<1>4. step' \in Step /\ step'.at \in {"idle", "feedback"}
    BY <1>2, <1>3, AfterSessionWriteType
<1>5. InOrder(step.session) /\ step.session.logged \subseteq Keys(step.session.changes)
    BY <1>1 DEF Inv, TypeOK, ResolvesInOrder
<1>6. TypeOK'
    BY <1>2, <1>3, <1>4, <1>5 DEF Inv, TypeOK
<1> QED
    BY <1>3, <1>4, <1>5, <1>6
    DEF Inv, InOrder, ResolvesInOrder, CommitsDecided, CommittedMeansDecided

LEMMA AppendFeedbackKeepsInv ==
    ASSUME Inv, AppendFeedback
    PROVE  Inv'
<1>1. step \in Step /\ step.at = "feedback"
    BY DEF AppendFeedback, Inv, TypeOK
<1>2. step.records \in Seq(Line) /\ step.records # <<>>
    BY <1>1 DEF Step, Idle
<1>3. Head(step.records) \in Line /\ Tail(step.records) \in Seq(Line)
    BY <1>2
<1>4. /\ feedback' = Append(feedback, Head(step.records))
      /\ step' = AfterSessionWrite(Tail(step.records))
      /\ UNCHANGED <<config, session, archive, tailored, opened>>
    BY DEF AppendFeedback
<1>5. step' \in Step /\ step'.at \in {"idle", "feedback"}
    BY <1>3, <1>4, AfterSessionWriteType
<1>6. feedback' \in Seq(Line)
    BY <1>3, <1>4 DEF Inv, TypeOK
<1>7. TypeOK'
    BY <1>4, <1>5, <1>6 DEF Inv, TypeOK
<1> QED
    BY <1>4, <1>5, <1>7
    DEF Inv, InOrder, ResolvesInOrder, CommitsDecided, CommittedMeansDecided

LEMMA RecordDecisionKeepsInv ==
    ASSUME Inv, NEW k \in Keys(session.changes), NEW a \in Answers,
           RecordDecision(k, a.action, a.content)
    PROVE  Inv'
<1> DEFINE c == session.changes[k]
           after == IF a.action \in Terminal
                    THEN session.logged \cup KeyFor(session.changes, c, session.logged)
                    ELSE session.logged
<1>1. a.action \in ReviewAction /\ a.content \in Value
    BY SessionAssumption
<1>2. session \in Session /\ session.changes \in Seq(Change)
      /\ session.logged \subseteq Keys(session.changes)
    BY DEF Inv, TypeOK, Session
<1>3. /\ Len(session.changes) \in Nat
      /\ Keys(session.changes) = 1 .. Len(session.changes)
      /\ c \in Change
      /\ \A j \in Keys(session.changes) : KeySection(session.changes, j) # NoSection
    BY <1>2, ChangesOfSession
<1>4. /\ session' = WithDecision(session, c, a.action, a.content)
      /\ session.cursor = KeySection(session.changes, k)
      /\ step' = [at |-> "feedback", records |-> <<FeedbackRecord(session', k, a.action)>>]
      /\ UNCHANGED <<config, archive, tailored, feedback, opened>>
    BY DEF RecordDecision
<1>5. /\ session' \in Session
      /\ session'.logged \subseteq Keys(session'.changes)
      /\ session'.changes = session.changes
      /\ session'.mode = session.mode
    BY <1>1, <1>2, <1>3, <1>4, WithDecisionType
<1>6. FeedbackRecord(session', k, a.action) \in Line
    BY <1>1, <1>3, <1>5, FeedbackRecordType
<1>7. step' \in Step /\ step'.at = "feedback"
    BY <1>4, <1>6 DEF Step
<1>8. TypeOK'
    BY <1>4, <1>5, <1>7 DEF Inv, TypeOK
<1>9. InOrder(session')
    <2> SUFFICES ASSUME Reviewed(session') PROVE InOrder(session')
        BY DEF InOrder
    <2>1. /\ NothingSkipped(session.changes, session.logged, session.cursor)
          /\ DecidedBehind(session.changes, session.logged, session.cursor)
          /\ Answerable(session.changes, session.logged, session.cursor)
        BY <1>5 DEF Inv, InOrder, Reviewed
    <2>2. session.cursor # NoSection
        BY <1>3, <1>4
    <2> DEFINE held == HeldCursor(session.changes, after, session.cursor, a.action)
    <2>3. /\ NothingSkipped(session.changes, after, held)
          /\ DecidedBehind(session.changes, after, held)
          /\ Answerable(session.changes, after, held)
        <3> HIDE DEF after
        <3>1. after = IF a.action \in Terminal
                      THEN session.logged \cup KeyFor(session.changes, c, session.logged)
                      ELSE session.logged
            BY DEF after
        <3> QED
            BY <1>1, <1>2, <1>3, <1>4, <2>1, <2>2, <3>1, HeldCursorKeepsReview
    <2>4. session'.logged = after /\ session'.cursor = held
        BY <1>2, <1>4 DEF WithDecision, Session
    <2> QED
        BY <1>5, <2>3, <2>4 DEF InOrder
<1> QED
    BY <1>4, <1>7, <1>8, <1>9 DEF Inv, ResolvesInOrder, CommitsDecided, CommittedMeansDecided

LEMMA DecideKeepsInv ==
    ASSUME Inv, NEW a \in Answers, NEW k \in Keys(session.changes),
           \/ DecideById(k, a.action, a.content)
           \/ DecideByPath(session.changes[k].path, a.action, a.content)
    PROVE  Inv'
<1>1. CASE DecideById(k, a.action, a.content)
    BY <1>1, RecordDecisionKeepsInv DEF DecideById
<1>2. CASE DecideByPath(session.changes[k].path, a.action, a.content)
    <2> DEFINE matches == {j \in Keys(session.changes) :
                              session.changes[j].path = session.changes[k].path}
               undecided == matches \ session.logged
               chosen == IF undecided = {} THEN matches ELSE undecided
    <2>1. chosen \in SUBSET Nat /\ chosen # {} /\ chosen \subseteq Keys(session.changes)
        <3>1. Keys(session.changes) \subseteq Nat
            BY ChangesOfSession DEF Inv, TypeOK, Session
        <3> QED
            BY <3>1
    <2>2. Least(chosen) \in Keys(session.changes)
        BY <2>1, LeastOfNaturals
    <2>3. RecordDecision(Least(chosen), a.action, a.content)
        BY <1>2 DEF DecideByPath
    <2> QED
        BY <2>2, <2>3, RecordDecisionKeepsInv
<1> QED
    BY <1>1, <1>2

\* The gate lets only a decided session through: in a finished review nothing is
\* undecided, so its cursor has no section left to name.
LEMMA CommitSessionKeepsInv ==
    ASSUME Inv, NEW freedom, CommitSession(freedom)
    PROVE  Inv'
<1>1. /\ UnloggedKeys(session) = {}
      /\ step'.at = "grow"
      /\ step'.commit.session = session
      /\ UNCHANGED <<config, session, archive, tailored, feedback, opened>>
    BY DEF CommitSession, files
<1>2. session.logged \subseteq Keys(session.changes)
    BY DEF Inv, TypeOK
<1>3. FullyDecided(session)
    <2>1. CASE Reviewed(session)
        <3>1. Keys(session.changes) \ session.logged = {}
            BY <1>1, <2>1 DEF UnloggedKeys, Reviewed
        <3>2. session.logged = Keys(session.changes)
            BY <1>2, <3>1
        <3>3. session.cursor = NoSection
            BY <2>1, <3>2 DEF Inv, InOrder, Answerable, HasUndecided
        <3> QED
            BY <3>2, <3>3 DEF FullyDecided
    <2>2. CASE ~Reviewed(session)
        BY <1>1, <2>2 DEF UnloggedKeys, Reviewed, FullyDecided
    <2> QED
        BY <2>1, <2>2
<1>4. TypeOK'
    BY <1>1 DEF Inv, TypeOK
<1>5. CommitsDecided'
    BY <1>1, <1>3 DEF CommitsDecided
<1> QED
    BY <1>1, <1>4, <1>5 DEF Inv, InOrder, ResolvesInOrder, CommittedMeansDecided

\* A commit in flight carries the session on disk.
LEMMA CommitInFlight ==
    ASSUME Inv, step.at \in {"grow", "write_tailored"}
    PROVE  step.commit.session = session /\ FullyDecided(session)
<1>1. step \notin Step
    BY DEF Step, Idle
<1> QED
    BY <1>1 DEF Inv, TypeOK, CommitsDecided

LEMMA GrowAliasKeepsInv ==
    ASSUME Inv, GrowAlias
    PROVE  Inv'
<1>1. /\ step'.at = "grow"
      /\ step'.commit = step.commit
      /\ UNCHANGED <<config, session, archive, tailored, feedback, opened>>
    BY DEF GrowAlias, files
<1>2. step.commit.session = session /\ FullyDecided(session)
    BY CommitInFlight DEF GrowAlias
<1>3. TypeOK'
    BY <1>1, <1>2 DEF Inv, TypeOK
<1> QED
    BY <1>1, <1>2, <1>3
    DEF Inv, InOrder, ResolvesInOrder, CommitsDecided, CommittedMeansDecided

LEMMA WriteAliasesKeepsInv ==
    ASSUME Inv, WriteAliases
    PROVE  Inv'
<1>1. /\ step'.at = "write_tailored"
      /\ step'.commit = step.commit
      /\ UNCHANGED <<config, session, archive, tailored, feedback, opened>>
    BY DEF WriteAliases
<1>2. step.commit.session = session /\ FullyDecided(session)
    BY CommitInFlight DEF WriteAliases
<1>3. TypeOK'
    BY <1>1, <1>2 DEF Inv, TypeOK
<1> QED
    BY <1>1, <1>2, <1>3
    DEF Inv, InOrder, ResolvesInOrder, CommitsDecided, CommittedMeansDecided

LEMMA WriteTailoredKeepsInv ==
    ASSUME Inv, WriteTailored
    PROVE  Inv'
<1> DEFINE f == WorkingFile[step.commit.session.resume]
<1>1. /\ tailored' = [tailored EXCEPT ![f] = step.commit]
      /\ session' = step.commit.session
      /\ step' = Idle
      /\ UNCHANGED <<config, archive, feedback, opened>>
    BY DEF WriteTailored
<1>2. step.commit.session = session /\ FullyDecided(session)
    BY CommitInFlight DEF WriteTailored
<1>3. step' \in Step /\ step'.at = "idle"
    BY <1>1 DEF Step, Idle
<1>4. TypeOK'
    BY <1>1, <1>2, <1>3 DEF Inv, TypeOK
<1>5. CommittedMeansDecided'
    <2>1. \A w \in DOMAIN tailored' :
              w \in DOMAIN tailored /\ tailored'[w] \in {tailored[w], step.commit}
        BY <1>1
    <2> QED
        BY <1>2, <2>1 DEF Inv, CommittedMeansDecided
<1> QED
    BY <1>1, <1>2, <1>3, <1>4, <1>5 DEF Inv, InOrder, ResolvesInOrder, CommitsDecided

\* A crash, a pointer that moves and a resume that is rewritten leave the session be.
LEMMA OtherStepsKeepInv ==
    ASSUME Inv,
           \/ Crash
           \/ \E resume \in Resume, job \in Job : SetActive(resume, job)
           \/ \E resume \in Resume : \E doc \in Revisions[resume] : RewriteResume(resume, doc)
           \/ UNCHANGED vars
    PROVE  Inv'
<1>1. CASE Crash
    <2>1. /\ step' \in Step
          /\ step'.at = "idle"
          /\ UNCHANGED <<config, session, archive, tailored, feedback, opened>>
        BY <1>1 DEF Crash, files, Step, Idle
    <2>2. TypeOK'
        BY <2>1 DEF Inv, TypeOK
    <2> QED
        BY <2>1, <2>2 DEF Inv, InOrder, ResolvesInOrder, CommitsDecided, CommittedMeansDecided
<1>2. CASE \E resume \in Resume, job \in Job : SetActive(resume, job)
    <2> PICK resume \in Resume, job \in Job : SetActive(resume, job)
        BY <1>2
    <2>1. /\ config' = [config EXCEPT !.resume = resume, !.job = job]
          /\ UNCHANGED <<session, archive, tailored, feedback, opened, step>>
        BY DEF SetActive, files
    <2>2. config' \in [resume : Resume \cup {NoDocument}, job : Job \cup {NoDocument},
                       aliasFile : AliasConfigured]
        BY <2>1 DEF Inv, TypeOK
    <2>3. TypeOK'
        BY <2>1, <2>2 DEF Inv, TypeOK
    <2> QED
        BY <2>1, <2>3 DEF Inv, InOrder, ResolvesInOrder, CommitsDecided, CommittedMeansDecided
<1>3. CASE \E resume \in Resume : \E doc \in Revisions[resume] : RewriteResume(resume, doc)
    BY <1>3 DEF RewriteResume, Inv, TypeOK, InOrder, ResolvesInOrder, CommitsDecided,
                CommittedMeansDecided
<1>4. CASE UNCHANGED vars
    BY <1>4 DEF vars, Inv, TypeOK, InOrder, ResolvesInOrder, CommitsDecided,
                CommittedMeansDecided
<1> QED
    BY <1>1, <1>2, <1>3, <1>4

LEMMA NextKeepsInv == Inv /\ [Next]_vars => Inv'
<1> SUFFICES ASSUME Inv, [Next]_vars PROVE Inv'
    OBVIOUS
<1>1. CASE \E mode \in Modes, proposal \in Proposals : OpenSession(mode, proposal)
    BY <1>1, OpenSessionKeepsInv
<1>2. CASE AutoResolve
    BY <1>2, AutoResolveKeepsInv
<1>3. CASE WriteSession
    BY <1>3, WriteSessionKeepsInv
<1>4. CASE AppendFeedback
    BY <1>4, AppendFeedbackKeepsInv
<1>5. CASE \E a \in Answers, k \in Keys(session.changes) :
              \/ DecideById(k, a.action, a.content)
              \/ DecideByPath(session.changes[k].path, a.action, a.content)
    BY <1>5, DecideKeepsInv
<1>6. CASE \E freedom \in CommitFreedoms : CommitSession(freedom)
    BY <1>6, CommitSessionKeepsInv
<1>7. CASE GrowAlias
    BY <1>7, GrowAliasKeepsInv
<1>8. CASE WriteAliases
    BY <1>8, WriteAliasesKeepsInv
<1>9. CASE WriteTailored
    BY <1>9, WriteTailoredKeepsInv
<1> QED
    BY <1>1, <1>2, <1>3, <1>4, <1>5, <1>6, <1>7, <1>8, <1>9, OtherStepsKeepInv DEF Next

LEMMA InvHolds == Spec => []Inv
<1>1. Init => Inv
    BY InitEstablishesInv
<1>2. Inv /\ [Next]_vars => Inv'
    BY NextKeepsInv
<1> QED
    BY <1>1, <1>2, PTL DEF Spec

-----------------------------------------------------------------------------
(* Alias growth.                                                            *)

\* The mapping a commit in flight will write grows out of the file.
GrowsAliases == step.at = "grow" => Grows(aliases, step.project)

LEMMA NextGrowsAliases == Inv /\ GrowsAliases /\ [Next]_vars => GrowsAliases'
<1> SUFFICES ASSUME Inv, GrowsAliases, [Next]_vars, step'.at = "grow"
             PROVE  Grows(aliases', step'.project)
    BY DEF GrowsAliases
<1>1. CASE \E freedom \in CommitFreedoms : CommitSession(freedom)
    <2>1. step'.project = aliases /\ aliases' = aliases
        BY <1>1 DEF CommitSession, files
    <2> QED
        BY <2>1, GrowsIsReflexive
<1>2. CASE GrowAlias
    <2>1. /\ step.at = "grow"
          /\ step'.project = GrowOne(step.project, Head(step.todo))
          /\ aliases' = aliases
        BY <1>2 DEF GrowAlias, files
    <2> QED
        BY <2>1, GrowOneGrows, GrowsIsTransitive DEF GrowsAliases
<1>3. CASE AutoResolve
    <2>1. step \in Step /\ step.at = "resolve"
        BY <1>3 DEF AutoResolve, Inv, TypeOK
    <2>2. step \in [at : {"resolve"}, session : Session, records : Seq(Line), todo : Seq(Change)]
        BY <2>1 DEF Step, Idle
    <2>3. step'.at = "resolve"
        BY <1>3, <2>2 DEF AutoResolve
    <2> QED
        BY <2>3
<1>4. CASE \E mode \in Modes, proposal \in Proposals : OpenSession(mode, proposal)
    BY <1>4 DEF OpenSession
<1>5. CASE WriteSession \/ AppendFeedback
    <2>1. step'.at \in {"idle", "feedback"}
        BY <1>5 DEF WriteSession, AppendFeedback, AfterSessionWrite, Idle
    <2> QED
        BY <2>1
<1>6. CASE \E a \in Answers, k \in Keys(session.changes) :
              \/ DecideById(k, a.action, a.content)
              \/ DecideByPath(session.changes[k].path, a.action, a.content)
    BY <1>6 DEF DecideById, DecideByPath, RecordDecision
<1>7. CASE WriteAliases \/ WriteTailored \/ Crash
    BY <1>7 DEF WriteAliases, WriteTailored, Crash, Idle
<1>8. CASE \/ \E resume \in Resume, job \in Job : SetActive(resume, job)
           \/ \E resume \in Resume : \E doc \in Revisions[resume] : RewriteResume(resume, doc)
           \/ UNCHANGED vars
    <2>1. UNCHANGED <<step, aliases>>
        BY <1>8 DEF SetActive, RewriteResume, vars, files
    <2> QED
        BY <2>1 DEF GrowsAliases
<1> QED
    BY <1>1, <1>2, <1>3, <1>4, <1>5, <1>6, <1>7, <1>8 DEF Next

LEMMA StepKeepsIndex ==
    ASSUME GrowsAliases, [Next]_vars
    PROVE  KeepsIndex(Effective(aliases), Effective(aliases'))
<1>1. CASE WriteAliases
    BY <1>1, GrowsKeepsIndex DEF WriteAliases, GrowsAliases
<1>2. CASE ~WriteAliases
    <2>1. UNCHANGED aliases
        BY <1>2 DEF Next, OpenSession, AutoResolve, WriteSession, AppendFeedback, DecideById,
                    DecideByPath, RecordDecision, CommitSession, GrowAlias, WriteTailored,
                    Crash, SetActive, RewriteResume, vars, files
    <2> QED
        BY <2>1, GrowsIsReflexive, GrowsKeepsIndex
<1> QED
    BY <1>1, <1>2

-----------------------------------------------------------------------------
(* Refuted text.                                                            *)

CarriesNothingRefuted(commit) ==
    \A c \in CollectClaims(commit.doc), ev \in commit.session.evidence :
        \A v \in ev.refuted : Fold(c.words) # Fold(v)

\* What a commit in flight will write passed the truth gate.
CommitsNothingRefuted ==
    step.at \in {"grow", "write_tailored"} => CarriesNothingRefuted(step.commit)

LEMMA ClaimsAreNotEmpty ==
    ASSUME NEW doc, NEW c \in CollectClaims(doc)
    PROVE  c.words # <<>>
    BY DEF CollectClaims, Claim

\* A claim spelt as a refuted value is contradicted, whatever the lexicon says
\* and whatever else supports it.
LEMMA RefutedIsContradicted ==
    ASSUME NEW doc, NEW evidence, NEW index, NEW c \in CollectClaims(doc),
           NEW ev \in evidence, NEW v \in ev.refuted, v # <<>>,
           Fold(c.words) = Fold(v)
    PROVE  c \in ContradictedClaims(doc, evidence, index)
<1>1. TermsMatch(index, c.words, v)
    BY ClaimsAreNotEmpty DEF TermsMatch
<1>2. Refuted(c.words, evidence, index)
    BY <1>1 DEF Refuted
<1>3. Classify(c.words, evidence, index) = "contradicted"
    BY <1>2 DEF Classify
<1>4. ClaimStatus(doc, c, evidence, index) = "contradicted"
    BY <1>3 DEF ClaimStatus
<1> QED
    BY <1>4 DEF ContradictedClaims

LEMMA CommitGateRefusesRefuted ==
    ASSUME Inv, NEW freedom, CommitSession(freedom)
    PROVE  CarriesNothingRefuted(step'.commit)
<1>1. PICK assembled :
        /\ ContradictedClaims(assembled, session.evidence, GateIndex) = {}
        /\ step'.commit.doc = assembled
        /\ step'.commit.session = session
    BY DEF CommitSession
<1>2. \A ev \in session.evidence : <<>> \notin ev.refuted
    BY SessionAssumption DEF Inv, TypeOK, Session
<1> SUFFICES ASSUME NEW c \in CollectClaims(assembled), NEW ev \in session.evidence,
                    NEW v \in ev.refuted, Fold(c.words) = Fold(v)
             PROVE  FALSE
    BY <1>1 DEF CarriesNothingRefuted
<1>3. c \in ContradictedClaims(assembled, session.evidence, GateIndex)
    BY <1>2, RefutedIsContradicted
<1> QED
    BY <1>1, <1>3

LEMMA NextWritesNothingRefuted ==
    Inv /\ CommitsNothingRefuted /\ RefutedTextNeverWritten /\ [Next]_vars
        => CommitsNothingRefuted' /\ RefutedTextNeverWritten'
<1> SUFFICES ASSUME Inv, CommitsNothingRefuted, RefutedTextNeverWritten, [Next]_vars
             PROVE  CommitsNothingRefuted' /\ RefutedTextNeverWritten'
    OBVIOUS
<1>1. CASE \E freedom \in CommitFreedoms : CommitSession(freedom)
    <2>1. tailored' = tailored
        BY <1>1 DEF CommitSession, files
    <2> QED
        BY <1>1, <2>1, CommitGateRefusesRefuted
        DEF CommitsNothingRefuted, RefutedTextNeverWritten, CarriesNothingRefuted
<1>2. CASE GrowAlias \/ WriteAliases
    <2>1. /\ step.at = "grow"
          /\ step'.commit = step.commit
          /\ tailored' = tailored
        BY <1>2 DEF GrowAlias, WriteAliases, files
    <2> QED
        BY <2>1 DEF CommitsNothingRefuted, RefutedTextNeverWritten, CarriesNothingRefuted
<1>3. CASE WriteTailored
    <2>1. /\ CarriesNothingRefuted(step.commit)
          /\ step'.at = "idle"
        BY <1>3 DEF WriteTailored, CommitsNothingRefuted, Idle
    <2>2. \A w \in DOMAIN tailored' :
              w \in DOMAIN tailored /\ tailored'[w] \in {tailored[w], step.commit}
        BY <1>3 DEF WriteTailored
    <2> QED
        BY <2>1, <2>2 DEF CommitsNothingRefuted, RefutedTextNeverWritten, CarriesNothingRefuted
<1>4. CASE AutoResolve
    <2>1. step \in [at : {"resolve"}, session : Session, records : Seq(Line), todo : Seq(Change)]
        BY <1>4 DEF AutoResolve, Inv, TypeOK, Step, Idle
    <2>2. step'.at = "resolve" /\ tailored' = tailored
        BY <1>4, <2>1 DEF AutoResolve, files
    <2> QED
        BY <2>2 DEF CommitsNothingRefuted, RefutedTextNeverWritten
<1>5. CASE WriteSession \/ AppendFeedback
    <2>1. step'.at \in {"idle", "feedback"} /\ tailored' = tailored
        BY <1>5 DEF WriteSession, AppendFeedback, AfterSessionWrite, Idle
    <2> QED
        BY <2>1 DEF CommitsNothingRefuted, RefutedTextNeverWritten
<1>6. CASE \/ \E mode \in Modes, proposal \in Proposals : OpenSession(mode, proposal)
           \/ \E a \in Answers, k \in Keys(session.changes) :
                  \/ DecideById(k, a.action, a.content)
                  \/ DecideByPath(session.changes[k].path, a.action, a.content)
    <2>1. CASE \E mode \in Modes, proposal \in Proposals : OpenSession(mode, proposal)
        BY <2>1 DEF OpenSession, CommitsNothingRefuted, RefutedTextNeverWritten
    <2>2. CASE \E k, action, content : RecordDecision(k, action, content)
        BY <2>2 DEF RecordDecision, CommitsNothingRefuted, RefutedTextNeverWritten
    <2> QED
        BY <1>6, <2>1, <2>2 DEF DecideById, DecideByPath
<1>7. CASE Crash
    BY <1>7 DEF Crash, files, Idle, CommitsNothingRefuted, RefutedTextNeverWritten
<1>8. CASE \/ \E resume \in Resume, job \in Job : SetActive(resume, job)
           \/ \E resume \in Resume : \E doc \in Revisions[resume] : RewriteResume(resume, doc)
           \/ UNCHANGED vars
    <2>1. UNCHANGED <<step, tailored>>
        BY <1>8 DEF SetActive, RewriteResume, vars, files
    <2> QED
        BY <2>1 DEF CommitsNothingRefuted, RefutedTextNeverWritten, CarriesNothingRefuted
<1> QED
    BY <1>1, <1>2, <1>3, <1>4, <1>5, <1>6, <1>7, <1>8 DEF Next

-----------------------------------------------------------------------------
(* Decisions are kept.                                                      *)

\* While a new session is resolved in memory the prior one is in the archive.
ResolvesAlone == step.at = "resolve" => session = NoSession

LEMMA NextResolvesAlone == ResolvesAlone /\ [Next]_vars => ResolvesAlone'
<1> SUFFICES ASSUME ResolvesAlone, [Next]_vars, step'.at = "resolve"
             PROVE  session' = NoSession
    BY DEF ResolvesAlone
<1>1. CASE \E mode \in Modes, proposal \in Proposals : OpenSession(mode, proposal)
    BY <1>1 DEF OpenSession
<1>2. CASE AutoResolve
    BY <1>2 DEF AutoResolve, files, ResolvesAlone
<1>3. CASE WriteSession \/ AppendFeedback
    <2>1. step'.at \in {"idle", "feedback"}
        BY <1>3 DEF WriteSession, AppendFeedback, AfterSessionWrite, Idle
    <2> QED
        BY <2>1
<1>4. CASE \E a \in Answers, k \in Keys(session.changes) :
              \/ DecideById(k, a.action, a.content)
              \/ DecideByPath(session.changes[k].path, a.action, a.content)
    BY <1>4 DEF DecideById, DecideByPath, RecordDecision
<1>5. CASE \E freedom \in CommitFreedoms : CommitSession(freedom)
    <2>1. step'.at = "grow"
        BY <1>5 DEF CommitSession
    <2> QED
        BY <2>1
<1>6. CASE GrowAlias \/ WriteAliases \/ WriteTailored \/ Crash
    BY <1>6 DEF GrowAlias, WriteAliases, WriteTailored, Crash, Idle
<1>7. CASE \/ \E resume \in Resume, job \in Job : SetActive(resume, job)
           \/ \E resume \in Resume : \E doc \in Revisions[resume] : RewriteResume(resume, doc)
           \/ UNCHANGED vars
    <2>1. UNCHANGED <<step, session>>
        BY <1>7 DEF SetActive, RewriteResume, vars, files
    <2> QED
        BY <2>1 DEF ResolvesAlone
<1> QED
    BY <1>1, <1>2, <1>3, <1>4, <1>5, <1>6, <1>7 DEF Next

LEMMA PrefixOfItself ==
    ASSUME NEW s
    PROVE  Len(s) \in Nat => IsPrefix(s, s)
    BY DEF IsPrefix

LEMMA AppendKeepsPrefix ==
    ASSUME NEW S, NEW s \in Seq(S), NEW e
    PROVE  IsPrefix(s, Append(s, e))
<1> DEFINE T == S \cup {e}
<1>1. s \in Seq(T) /\ e \in T
    OBVIOUS
<1>2. Append(s, e) \in Seq(T) /\ Len(Append(s, e)) = Len(s) + 1
    BY <1>1
<1>3. \A i \in 1 .. Len(s) : Append(s, e)[i] = s[i]
    BY <1>1
<1>4. SubSeq(s, 1, Len(s)) = SubSeq(Append(s, e), 1, Len(s))
    BY <1>1, <1>2, <1>3
<1> QED
    BY <1>1, <1>2, <1>4 DEF IsPrefix

\* What a step that keeps the sessions on disk, or more, does to their decisions.
LEMMA KeptSessionsKeepDecisions ==
    ASSUME Inv, Sessions \subseteq Sessions'
    PROVE  \A s \in Sessions : \E t \in Sessions' : t.id = s.id /\ IsPrefix(s.decisions, t.decisions)
<1>1. Sessions \subseteq Session
    BY DEF Inv, TypeOK, Sessions
<1>2. \A s \in Session : Len(s.decisions) \in Nat
    BY DEF Session
<1> QED
    BY <1>1, <1>2, PrefixOfItself

LEMMA DecideAppends ==
    ASSUME Inv, NEW k, NEW action, NEW content, RecordDecision(k, action, content)
    PROVE  \A s \in Sessions : \E t \in Sessions' : t.id = s.id /\ IsPrefix(s.decisions, t.decisions)
<1>1. /\ session \in Session
      /\ archive \subseteq Session
    BY DEF Inv, TypeOK
<1>2. /\ session.id # 0
      /\ archive' = archive
      /\ session' = WithDecision(session, session.changes[k], action, content)
    BY DEF RecordDecision
<1>3. /\ session'.id = session.id
      /\ session'.decisions
            = Append(session.decisions, Decision(session.changes[k], action, content))
    BY <1>1, <1>2 DEF WithDecision, Session
<1>4. IsPrefix(session.decisions, session'.decisions)
    BY <1>1, <1>3, AppendKeepsPrefix DEF Session
<1>5. \A s \in archive : IsPrefix(s.decisions, s.decisions)
    BY <1>1, PrefixOfItself DEF Session
<1>6. Sessions = archive \cup {session} /\ Sessions' = archive \cup {session'}
    BY <1>2, <1>3 DEF Sessions
<1> QED
    BY <1>3, <1>4, <1>5, <1>6

LEMMA StepKeepsDecisions ==
    Inv /\ ResolvesAlone /\ [Next]_vars =>
        \A s \in Sessions : \E t \in Sessions' : t.id = s.id /\ IsPrefix(s.decisions, t.decisions)
<1> SUFFICES ASSUME Inv, ResolvesAlone, [Next]_vars
             PROVE  \A s \in Sessions :
                        \E t \in Sessions' : t.id = s.id /\ IsPrefix(s.decisions, t.decisions)
    OBVIOUS
<1>1. CASE \E a \in Answers, k \in Keys(session.changes) :
              \/ DecideById(k, a.action, a.content)
              \/ DecideByPath(session.changes[k].path, a.action, a.content)
    <2>1. \E k, action, content : RecordDecision(k, action, content)
        BY <1>1 DEF DecideById, DecideByPath
    <2> QED
        BY <2>1, DecideAppends
<1>2. CASE \E mode \in Modes, proposal \in Proposals : OpenSession(mode, proposal)
    <2>1. Sessions \subseteq Sessions'
        BY <1>2 DEF OpenSession, Sessions
    <2> QED
        BY <2>1, KeptSessionsKeepDecisions
<1>3. CASE WriteSession
    <2>1. session.id = 0 /\ archive' = archive
        BY <1>3 DEF WriteSession, ResolvesAlone, NoSession
    <2>2. Sessions \subseteq Sessions'
        BY <2>1 DEF Sessions
    <2> QED
        BY <2>2, KeptSessionsKeepDecisions
<1>4. CASE WriteTailored
    <2>1. session' = session /\ archive' = archive
        BY <1>4, CommitInFlight DEF WriteTailored
    <2>2. Sessions \subseteq Sessions'
        BY <2>1 DEF Sessions
    <2> QED
        BY <2>2, KeptSessionsKeepDecisions
<1>5. CASE \/ AutoResolve \/ AppendFeedback \/ GrowAlias \/ WriteAliases \/ Crash
           \/ \E freedom \in CommitFreedoms : CommitSession(freedom)
           \/ \E resume \in Resume, job \in Job : SetActive(resume, job)
           \/ \E resume \in Resume : \E doc \in Revisions[resume] : RewriteResume(resume, doc)
           \/ UNCHANGED vars
    <2>1. session' = session /\ archive' = archive
        BY <1>5 DEF AutoResolve, AppendFeedback, GrowAlias, WriteAliases, Crash, CommitSession,
                    SetActive, RewriteResume, vars, files
    <2>2. Sessions \subseteq Sessions'
        BY <2>1 DEF Sessions
    <2> QED
        BY <2>2, KeptSessionsKeepDecisions
<1> QED
    BY <1>1, <1>2, <1>3, <1>4, <1>5 DEF Next

-----------------------------------------------------------------------------
(* The write gate.                                                          *)

\* The session on disk is the one drawn last, the one being resolved takes its
\* place, and a commit in flight has all the gate asked of it.
GateInv ==
    /\ DOMAIN tailored = TailoredFiles
    /\ session.id # 0 => session.id = opened /\ session.resume \in Resume
    /\ step.at = "resolve" => /\ session = NoSession
                              /\ step.session.id = opened /\ opened # 0
                              /\ step.session.resume \in Resume
    /\ step.at \in {"grow", "write_tailored"} =>
          /\ session.id # 0
          /\ UnloggedKeys(session) = {}
          /\ AnyAccepted(session)
          /\ step.commit # Absent

Abstract == <<opened, session, tailored>>

LEMMA InitGateInv == Init => GateInv /\ Gate!Init
<1> SUFFICES ASSUME Init PROVE GateInv /\ Gate!Init
    OBVIOUS
<1>1. session = NoSession /\ session.id = 0 /\ step.at = "idle" /\ opened = 0
      /\ tailored = [w \in TailoredFiles |-> Absent]
    BY DEF Init, NoSession, Idle
<1>2. GateInv
    BY <1>1 DEF GateInv
<1>3. UnloggedKeys(session) = {}
    BY <1>1 DEF UnloggedKeys, NoSession, Keys
<1>4. GrantedSlots(session) = {}
    BY <1>1 DEF GrantedSlots, NoSession
<1>5. Published = [w \in TailoredFiles |-> [review |-> 0, granted |-> {}]]
    BY <1>1 DEF Published, WrittenBy
<1> QED
    BY <1>1, <1>2, <1>3, <1>4, <1>5 DEF Gate!Init, Gate!Unpublished, OpenTarget

LEMMA StutterOfGate ==
    ASSUME UNCHANGED Abstract
    PROVE  UNCHANGED Gate!gateVars
    BY DEF Abstract, Gate!gateVars, OpenTarget, Published

LEMMA OpenSessionRetires ==
    ASSUME Inv, GateInv, NEW mode \in Modes, NEW proposal \in Proposals,
           OpenSession(mode, proposal)
    PROVE  GateInv' /\ Gate!Retire
<1>1. /\ opened' = opened + 1
      /\ session' = NoSession
      /\ session'.id = 0
      /\ tailored' = tailored
      /\ step'.at = "resolve"
      /\ step'.session = NewSession(mode, proposal)
      /\ config.resume \in Resume
    BY DEF OpenSession, NoSession, Inv, TypeOK
<1>2. opened \in Nat
    BY SessionAssumption DEF Inv, TypeOK
<1>3. GateInv'
    BY <1>1, <1>2 DEF GateInv, NewSession
<1>4. UnloggedKeys(session') = {} /\ GrantedSlots(session') = {}
    BY <1>1 DEF UnloggedKeys, GrantedSlots, NoSession, Keys
<1>5. OpenTarget' = NoDocument /\ Published' = Published
    BY <1>1 DEF OpenTarget, Published
<1> QED
    BY <1>1, <1>3, <1>4, <1>5 DEF Gate!Retire

LEMMA WriteSessionBegins ==
    ASSUME Inv, GateInv, WriteSession
    PROVE  GateInv' /\ Gate!Begin
<1>1. /\ step.at = "resolve"
      /\ session = NoSession
      /\ step.session.id = opened /\ opened # 0
      /\ step.session.resume \in Resume
    BY DEF GateInv, WriteSession
<1>2. /\ session' = step.session
      /\ UNCHANGED <<tailored, opened>>
      /\ step'.at \in {"idle", "feedback"}
    BY DEF WriteSession, AfterSessionWrite, Idle
<1>3. GateInv'
    BY <1>1, <1>2 DEF GateInv
<1>4. OpenTarget = NoDocument /\ OpenTarget' = WorkingFile[session'.resume]
    BY <1>1, <1>2 DEF OpenTarget, NoSession
<1>5. OpenTarget' \in TailoredFiles
    BY <1>1, <1>2, <1>4 DEF TailoredFiles
<1> QED
    BY <1>2, <1>3, <1>4, <1>5 DEF Gate!Begin, Published

\* One decision settles at most one key and grants at most one slot.
LEMMA DecisionAnswers ==
    ASSUME NEW s \in Session, NEW c, NEW action, NEW content
    PROVE  LET t == WithDecision(s, c, action, content)
           IN  /\ UnloggedKeys(t) \subseteq UnloggedKeys(s)
               /\ Gate!AtMostOne(UnloggedKeys(s) \ UnloggedKeys(t))
               /\ GrantedSlots(s) \subseteq GrantedSlots(t)
               /\ Gate!AtMostOne(GrantedSlots(t) \ GrantedSlots(s))
<1> DEFINE t == WithDecision(s, c, action, content)
           d == Decision(c, action, content)
           K == KeyFor(s.changes, c, s.logged)
<1>1. /\ t.changes = s.changes /\ t.mode = s.mode /\ t.provenance = s.provenance
      /\ t.logged = IF action \in Terminal THEN s.logged \cup K ELSE s.logged
      /\ t.decisions = Append(s.decisions, d)
    BY DEF WithDecision, Session
<1> HIDE DEF t
<1>2. \A change : AutoCanApply(t, change) <=> AutoCanApply(s, change)
    BY <1>1 DEF AutoCanApply, MatchingProvenance
<1>3. /\ UnloggedKeys(t) \subseteq UnloggedKeys(s)
      /\ UnloggedKeys(s) \ UnloggedKeys(t) \subseteq K
    <2> HIDE DEF K
    <2> QED
        BY <1>1, <1>2 DEF UnloggedKeys
<1>4. PICK x : K \subseteq {x}
    BY DEF KeyFor
<1>5. Gate!AtMostOne(UnloggedKeys(s) \ UnloggedKeys(t))
    <2> HIDE DEF K
    <2> QED
        BY <1>3, <1>4 DEF Gate!AtMostOne
<1>6. /\ DOMAIN s.decisions = 1 .. Len(s.decisions)
      /\ DOMAIN t.decisions = 1 .. Len(s.decisions) + 1
      /\ \A i \in 1 .. Len(s.decisions) : t.decisions[i] = s.decisions[i]
      /\ t.decisions[Len(s.decisions) + 1] = d
      /\ Len(s.decisions) \in Nat
    <2>1. s.decisions \in Seq(DecisionRecord \cup {d}) /\ d \in DecisionRecord \cup {d}
        BY DEF Session
    <2> HIDE DEF d
    <2> QED
        BY <1>1, <2>1
<1>7. /\ GrantedSlots(s) \subseteq GrantedSlots(t)
      /\ GrantedSlots(t) \ GrantedSlots(s) \subseteq {Slot(d.change)}
    <2> HIDE DEF d
    <2> QED
        BY <1>6 DEF GrantedSlots
<1>8. Gate!AtMostOne(GrantedSlots(t) \ GrantedSlots(s))
    BY <1>7 DEF Gate!AtMostOne
<1> QED
    BY <1>3, <1>5, <1>7, <1>8 DEF t

LEMMA RecordDecisionAnswers ==
    ASSUME Inv, GateInv, NEW k, NEW action, NEW content, RecordDecision(k, action, content)
    PROVE  GateInv' /\ Gate!Answer
<1>1. /\ session.id # 0
      /\ session' = WithDecision(session, session.changes[k], action, content)
      /\ step'.at = "feedback"
      /\ UNCHANGED <<tailored, opened>>
    BY DEF RecordDecision
<1>2. session \in Session
    BY DEF Inv, TypeOK
<1>3. session'.id = session.id /\ session'.resume = session.resume
    BY <1>1, <1>2 DEF WithDecision, Session
<1>4. GateInv'
    BY <1>1, <1>3 DEF GateInv
<1>5. OpenTarget # NoDocument /\ OpenTarget' = OpenTarget /\ Published' = Published
    BY <1>1, <1>3, SessionAssumption DEF OpenTarget, Published, GateInv
<1>6. /\ UnloggedKeys(session') \subseteq UnloggedKeys(session)
      /\ Gate!AtMostOne(UnloggedKeys(session) \ UnloggedKeys(session'))
      /\ GrantedSlots(session) \subseteq GrantedSlots(session')
      /\ Gate!AtMostOne(GrantedSlots(session') \ GrantedSlots(session))
    BY <1>1, <1>2, DecisionAnswers
<1> QED
    BY <1>1, <1>4, <1>5, <1>6 DEF Gate!Answer

LEMMA CommitPassesTheGate ==
    ASSUME Inv, GateInv, NEW freedom, CommitSession(freedom)
    PROVE  GateInv'
<1>1. /\ session.id # 0
      /\ UnloggedKeys(session) = {}
      /\ AnyAccepted(session)
      /\ step'.at = "grow"
      /\ UNCHANGED <<session, tailored, opened>>
    BY DEF CommitSession, files
<1>2. step'.commit # Absent
    <2>1. PICK assembled, source :
              step'.commit = [doc |-> assembled, source |-> source, session |-> session]
        BY DEF CommitSession
    <2>2. "doc" \in DOMAIN step'.commit /\ "doc" \notin DOMAIN Absent
        BY <2>1 DEF Absent
    <2> QED
        BY <2>2
<1> QED
    BY <1>1, <1>2 DEF GateInv

LEMMA WriteTailoredPublishes ==
    ASSUME Inv, GateInv, WriteTailored
    PROVE  GateInv' /\ Gate!Publish
<1> DEFINE f == WorkingFile[session.resume]
<1>1. /\ step.at = "write_tailored"
      /\ step.commit.session = session
      /\ step.commit # Absent
      /\ session.id = opened /\ session.id # 0 /\ session.resume \in Resume
      /\ UnloggedKeys(session) = {}
      /\ AnyAccepted(session)
      /\ DOMAIN tailored = TailoredFiles
    BY CommitInFlight DEF WriteTailored, GateInv
<1>2. /\ tailored' = [tailored EXCEPT ![f] = step.commit]
      /\ session' = session
      /\ step'.at = "idle"
      /\ opened' = opened
    BY <1>1 DEF WriteTailored, Idle
<1>3. GateInv'
    BY <1>1, <1>2 DEF GateInv
<1>4. f \in TailoredFiles /\ OpenTarget = f /\ OpenTarget' = f /\ f # NoDocument
    BY <1>1, <1>2, SessionAssumption DEF TailoredFiles, OpenTarget
<1>5. WrittenBy(step.commit) = [review |-> opened, granted |-> GrantedSlots(session)]
    BY <1>1 DEF WrittenBy
<1>6. Published' = [Published EXCEPT ![f] = [review |-> opened, granted |-> GrantedSlots(session)]]
    <2>1. \A w \in TailoredFiles : tailored'[w] = IF w = f THEN step.commit ELSE tailored[w]
        BY <1>1, <1>2
    <2>2. Published' = [w \in TailoredFiles |-> WrittenBy(tailored'[w])]
        BY DEF Published
    <2> QED
        BY <1>4, <1>5, <2>1, <2>2 DEF Published
<1>7. GrantedSlots(session) # {}
    BY <1>1 DEF GrantedSlots, AnyAccepted
<1> QED
    BY <1>1, <1>2, <1>3, <1>4, <1>6, <1>7 DEF Gate!Publish

LEMMA StepRefinesGate ==
    Inv /\ GateInv /\ [Next]_vars => GateInv' /\ [Gate!Next]_Gate!gateVars
<1> SUFFICES ASSUME Inv, GateInv, [Next]_vars
             PROVE  GateInv' /\ [Gate!Next]_Gate!gateVars
    OBVIOUS
<1>1. CASE \E mode \in Modes, proposal \in Proposals : OpenSession(mode, proposal)
    BY <1>1, OpenSessionRetires DEF Gate!Next
<1>2. CASE WriteSession
    BY <1>2, WriteSessionBegins DEF Gate!Next
<1>3. CASE \E a \in Answers, k \in Keys(session.changes) :
              \/ DecideById(k, a.action, a.content)
              \/ DecideByPath(session.changes[k].path, a.action, a.content)
    <2>1. \E k, action, content : RecordDecision(k, action, content)
        BY <1>3 DEF DecideById, DecideByPath
    <2> QED
        BY <2>1, RecordDecisionAnswers DEF Gate!Next
<1>4. CASE WriteTailored
    BY <1>4, WriteTailoredPublishes DEF Gate!Next
<1>5. CASE \E freedom \in CommitFreedoms : CommitSession(freedom)
    <2>1. UNCHANGED Abstract
        BY <1>5 DEF CommitSession, files, Abstract
    <2> QED
        BY <1>5, <2>1, CommitPassesTheGate, StutterOfGate
<1>6. CASE AutoResolve
    <2>1. step \in [at : {"resolve"}, session : Session, records : Seq(Line), todo : Seq(Change)]
        BY <1>6 DEF AutoResolve, Inv, TypeOK, Step, Idle
    <2>2. /\ step'.at = "resolve"
          /\ step'.session.id = step.session.id
          /\ step'.session.resume = step.session.resume
        BY <1>6, <2>1 DEF AutoResolve, AutoResolved, WithDecision, Session
    <2>3. UNCHANGED Abstract
        BY <1>6 DEF AutoResolve, files, Abstract
    <2>4. GateInv'
        BY <2>1, <2>2, <2>3 DEF GateInv, Abstract
    <2> QED
        BY <2>3, <2>4, StutterOfGate
<1>7. CASE GrowAlias \/ WriteAliases
    <2>1. /\ step.at = "grow" /\ step'.at \in {"grow", "write_tailored"}
          /\ step'.commit = step.commit
          /\ UNCHANGED Abstract
        BY <1>7 DEF GrowAlias, WriteAliases, files, Abstract
    <2>2. GateInv'
        BY <2>1 DEF GateInv, Abstract
    <2> QED
        BY <2>1, <2>2, StutterOfGate
<1>8. CASE AppendFeedback \/ Crash
    <2>1. step'.at \in {"idle", "feedback"} /\ UNCHANGED Abstract
        BY <1>8 DEF AppendFeedback, AfterSessionWrite, Crash, Idle, files, Abstract
    <2>2. GateInv'
        BY <2>1 DEF GateInv, Abstract
    <2> QED
        BY <2>1, <2>2, StutterOfGate
<1>9. CASE \/ \E resume \in Resume, job \in Job : SetActive(resume, job)
           \/ \E resume \in Resume : \E doc \in Revisions[resume] : RewriteResume(resume, doc)
           \/ UNCHANGED vars
    <2>1. UNCHANGED step /\ UNCHANGED Abstract
        BY <1>9 DEF SetActive, RewriteResume, vars, files, Abstract
    <2>2. GateInv'
        BY <2>1 DEF GateInv, Abstract
    <2> QED
        BY <2>1, <2>2, StutterOfGate
<1> QED
    BY <1>1, <1>2, <1>3, <1>4, <1>5, <1>6, <1>7, <1>8, <1>9 DEF Next

-----------------------------------------------------------------------------
(* The records of a decision.                                               *)

\* The decision list settles the keys kept with the session.
Recomputed(s) == s.logged = TerminalKeys(s.changes, s.decisions)

KeysRecomputed ==
    /\ Recomputed(session)
    /\ \A s \in archive : Recomputed(s)
    /\ step.at = "resolve" => Recomputed(step.session)

\* The feedback log with the lines of the capability in flight.
Pending == IF step.at = "feedback" THEN feedback \o step.records ELSE feedback

\* Ids are drawn in order, the records of a session being resolved repeat its
\* decisions one by one, and every session is followed by the log, the lines still
\* to be written included.
LinesPending ==
    /\ \A s \in archive : s.id <= opened
    /\ session.id # 0 => \A s \in archive : s.id < session.id
    /\ step.at = "resolve" =>
          /\ \A s \in archive : s.id < opened
          /\ Len(step.records) = Len(step.session.decisions)
          /\ \A i \in 1 .. Len(step.records) :
                /\ step.records[i].session = step.session.id
                /\ Describes(step.session, step.records[i], step.session.decisions[i])
    /\ \A i \in DOMAIN Pending : \E s \in Sessions : s.id = Pending[i].session
    /\ \A s \in Sessions : Follows(s, Pending)

\* What a step does to the records: one of five actions, or nothing but to drop the
\* lines it still had to write.
DropsAtMost ==
    /\ UNCHANGED <<session, archive, feedback, opened>>
    /\ UNCHANGED step \/ step'.at \in {"idle", "grow", "write_tailored"}

RecordsStep ==
    \/ \E mode \in Modes, proposal \in Proposals : OpenSession(mode, proposal)
    \/ AutoResolve
    \/ WriteSession
    \/ AppendFeedback
    \/ \E a \in Answers, k \in Keys(session.changes) : RecordDecision(k, a.action, a.content)
    \/ DropsAtMost

LEMMA StepsOfTheRecords == ASSUME Inv, [Next]_vars PROVE RecordsStep
<1>1. CASE \E a \in Answers, k \in Keys(session.changes) :
              \/ DecideById(k, a.action, a.content)
              \/ DecideByPath(session.changes[k].path, a.action, a.content)
    <2>1. PICK a \in Answers, k \in Keys(session.changes) :
              \/ DecideById(k, a.action, a.content)
              \/ DecideByPath(session.changes[k].path, a.action, a.content)
        BY <1>1
    <2>2. CASE DecideById(k, a.action, a.content)
        BY <2>2 DEF DecideById, RecordsStep
    <2>3. CASE DecideByPath(session.changes[k].path, a.action, a.content)
        <3> DEFINE matches == {j \in Keys(session.changes) :
                                  session.changes[j].path = session.changes[k].path}
                   undecided == matches \ session.logged
                   chosen == IF undecided = {} THEN matches ELSE undecided
        <3>1. chosen \in SUBSET Nat /\ chosen # {} /\ chosen \subseteq Keys(session.changes)
            <4>1. Keys(session.changes) \subseteq Nat
                BY ChangesOfSession DEF Inv, TypeOK, Session
            <4> QED
                BY <4>1
        <3>2. Least(chosen) \in Keys(session.changes)
            BY <3>1, LeastOfNaturals
        <3>3. RecordDecision(Least(chosen), a.action, a.content)
            BY <2>3 DEF DecideByPath
        <3> QED
            BY <3>2, <3>3 DEF RecordsStep
    <2> QED
        BY <2>1, <2>2, <2>3
<1>2. CASE \/ Crash
           \/ \E freedom \in CommitFreedoms : CommitSession(freedom)
           \/ \E resume \in Resume, job \in Job : SetActive(resume, job)
           \/ \E resume \in Resume : \E doc \in Revisions[resume] : RewriteResume(resume, doc)
           \/ UNCHANGED vars
    <2>1. CASE \E freedom \in CommitFreedoms : CommitSession(freedom)
        <3>1. step'.at = "grow" /\ UNCHANGED files /\ UNCHANGED opened
            BY <2>1 DEF CommitSession
        <3> QED
            BY <3>1 DEF files, DropsAtMost, RecordsStep
    <2>2. CASE Crash
        BY <2>2 DEF Crash, files, Idle, DropsAtMost, RecordsStep
    <2>3. CASE \/ \E resume \in Resume, job \in Job : SetActive(resume, job)
               \/ \E resume \in Resume : \E doc \in Revisions[resume] : RewriteResume(resume, doc)
               \/ UNCHANGED vars
        BY <2>3 DEF SetActive, RewriteResume, vars, files, DropsAtMost, RecordsStep
    <2> QED
        BY <1>2, <2>1, <2>2, <2>3
<1>3. CASE GrowAlias \/ WriteAliases
    BY <1>3 DEF GrowAlias, WriteAliases, files, DropsAtMost, RecordsStep
<1>4. CASE WriteTailored
    <2>1. session' = session
        BY <1>4, CommitInFlight DEF WriteTailored
    <2> QED
        BY <1>4, <2>1 DEF WriteTailored, Idle, DropsAtMost, RecordsStep
<1>5. CASE \/ \E mode \in Modes, proposal \in Proposals : OpenSession(mode, proposal)
           \/ AutoResolve \/ WriteSession \/ AppendFeedback
    BY <1>5 DEF RecordsStep
<1> QED
    BY <1>1, <1>2, <1>3, <1>4, <1>5 DEF Next

\* Recording a decision settles the key the replay of _terminal_decision_keys will.
LEMMA DecisionIsRecomputed ==
    ASSUME NEW s \in Session, Recomputed(s), NEW c \in Change, NEW action \in ReviewAction,
           NEW content \in Value
    PROVE  Recomputed(WithDecision(s, c, action, content))
<1> DEFINE t == WithDecision(s, c, action, content)
           d == Decision(c, action, content)
<1>1. s.changes \in Seq(Change) /\ s.decisions \in Seq(DecisionRecord)
    BY DEF Session
<1>2. Len(s.changes) \in Nat /\ Keys(s.changes) = 1 .. Len(s.changes)
    BY <1>1, ChangesOfSession
<1>3. d \in DecisionRecord /\ d.action = action /\ d.change = c
    BY DEF Decision, DecisionRecord
<1>4. /\ t.changes = s.changes
      /\ t.decisions = Append(s.decisions, d)
      /\ t.logged = IF action \in Terminal THEN s.logged \cup KeyFor(s.changes, c, s.logged)
                    ELSE s.logged
    BY DEF WithDecision, Session
<1> HIDE DEF t, d
<1>5. TerminalKeys(s.changes, Append(s.decisions, d))
        = Settling(s.changes, TerminalKeys(s.changes, s.decisions), d)
    BY <1>1, <1>2, <1>3, TerminalKeysAppend
<1>6. t.logged = Settling(s.changes, s.logged, d)
    BY <1>3, <1>4 DEF Settling
<1>7. Recomputed(t)
    BY <1>4, <1>5, <1>6 DEF Recomputed
<1> QED
    BY <1>7 DEF t

LEMMA NothingIsRecomputed ==
    ASSUME NEW s, s.decisions = <<>>, s.logged = {}, s.changes \in Seq(Change)
    PROVE  Recomputed(s)
<1>1. Len(s.changes) \in Nat /\ Keys(s.changes) = 1 .. Len(s.changes)
    BY ChangesOfSession
<1>2. DOMAIN s.decisions = 1 .. 0
    OBVIOUS
<1>3. PICK h : /\ SettlingRun(h, s.changes, s.decisions, 0)
               /\ TerminalKeys(s.changes, s.decisions) = h[0]
    BY <1>1, <1>2, TerminalKeysRun
<1> QED
    BY <1>3 DEF SettlingRun, Recomputed

LEMMA InitKeysRecomputed == Init => KeysRecomputed
<1> SUFFICES ASSUME Init PROVE KeysRecomputed
    OBVIOUS
<1>1. session = NoSession /\ archive = {} /\ step.at = "idle"
    BY DEF Init, Idle
<1>2. NoSession.decisions = <<>> /\ NoSession.logged = {} /\ NoSession.changes \in Seq(Change)
    BY DEF NoSession
<1> QED
    BY <1>1, <1>2, NothingIsRecomputed DEF KeysRecomputed

LEMMA NextKeysRecomputed == Inv /\ KeysRecomputed /\ [Next]_vars => KeysRecomputed'
<1> SUFFICES ASSUME Inv, KeysRecomputed, [Next]_vars PROVE KeysRecomputed'
    OBVIOUS
<1>1. ASSUME NEW mode \in Modes, NEW proposal \in Proposals, OpenSession(mode, proposal)
      PROVE  KeysRecomputed'
    <2> DEFINE fresh == NewSession(mode, proposal)
    <2>1. /\ step'.at = "resolve" /\ step'.session = fresh
          /\ session' = NoSession
          /\ archive' \subseteq archive \cup {session}
        BY <1>1 DEF OpenSession
    <2>2. Recomputed(fresh)
        <3>1. fresh.decisions = <<>> /\ fresh.logged = {} /\ fresh.changes \in Seq(Change)
            BY SessionAssumption DEF NewSession
        <3> HIDE DEF fresh
        <3> QED
            BY <3>1, NothingIsRecomputed
    <2>3. Recomputed(NoSession)
        <3>1. NoSession.decisions = <<>> /\ NoSession.logged = {} /\ NoSession.changes \in Seq(Change)
            BY DEF NoSession
        <3> QED
            BY <3>1, NothingIsRecomputed
    <2> HIDE DEF fresh
    <2> QED
        BY <2>1, <2>2, <2>3 DEF KeysRecomputed
<1>2. CASE AutoResolve
    <2> DEFINE s == step.session
               c == Head(step.todo)
               moved == [s EXCEPT !.cursor = SectionOf(c)]
    <2>1. /\ step \in [at : {"resolve"}, session : Session, records : Seq(Line), todo : Seq(Change)]
          /\ step.at = "resolve" /\ step.todo # <<>>
        BY <1>2 DEF AutoResolve, Inv, TypeOK, Step, Idle
    <2>2. s \in Session /\ c \in Change /\ Recomputed(s)
        BY <2>1 DEF KeysRecomputed
    <2>3. moved \in Session /\ Recomputed(moved)
        <3>1. SectionOf(c) \in Section
            BY <2>2, FieldAssumption DEF Change, SectionOf, Section
        <3> HIDE DEF s, c
        <3> QED
            BY <2>2, <3>1 DEF Session, Recomputed
    <2>4. "approve" \in ReviewAction /\ Null \in Value
        BY DEF Value, ReviewAction, Terminal
    <2>5. Recomputed(AutoResolved(s, c))
        <3> HIDE DEF s, c
        <3> QED
            BY <2>2, <2>3, <2>4, DecisionIsRecomputed DEF AutoResolved
    <2>6. step'.session \in {s, AutoResolved(s, c)}
        BY <1>2, <2>1 DEF AutoResolve
    <2>7. UNCHANGED <<session, archive>>
        BY <1>2 DEF AutoResolve, files
    <2> QED
        BY <2>2, <2>5, <2>6, <2>7 DEF KeysRecomputed
<1>3. CASE WriteSession
    <2>1. step'.at \in {"idle", "feedback"} /\ session' = step.session /\ archive' = archive
          /\ step.at = "resolve"
        BY <1>3 DEF WriteSession, AfterSessionWrite, Idle
    <2> QED
        BY <2>1 DEF KeysRecomputed
<1>4. CASE AppendFeedback
    <2>1. step'.at \in {"idle", "feedback"} /\ UNCHANGED <<session, archive>>
        BY <1>4 DEF AppendFeedback, AfterSessionWrite, Idle
    <2> QED
        BY <2>1 DEF KeysRecomputed
<1>5. ASSUME NEW a \in Answers, NEW k \in Keys(session.changes),
             RecordDecision(k, a.action, a.content)
      PROVE  KeysRecomputed'
    <2>1. /\ session' = WithDecision(session, session.changes[k], a.action, a.content)
          /\ archive' = archive
          /\ step'.at = "feedback"
        BY <1>5 DEF RecordDecision
    <2>2. session \in Session /\ session.changes \in Seq(Change) /\ Recomputed(session)
        BY DEF Inv, TypeOK, Session, KeysRecomputed
    <2>3. /\ session.changes[k] \in Change
          /\ a.action \in ReviewAction /\ a.content \in Value
        BY <1>5, <2>2, ChangesOfSession, SessionAssumption
    <2>4. Recomputed(session')
        BY <2>1, <2>2, <2>3, DecisionIsRecomputed
    <2> QED
        BY <2>1, <2>4 DEF KeysRecomputed
<1>6. CASE DropsAtMost
    BY <1>6 DEF DropsAtMost, KeysRecomputed
<1> QED
    BY <1>1, <1>2, <1>3, <1>4, <1>5, <1>6, StepsOfTheRecords DEF RecordsStep

\* What may follow a log: the lines, one after the other.
LEMMA LinesAppended ==
    ASSUME NEW log \in Seq(Line), NEW more \in Seq(Line)
    PROVE  /\ log \o more \in Seq(Line)
           /\ DOMAIN log = 1 .. Len(log) /\ Len(log) \in Nat /\ Len(more) \in Nat
           /\ DOMAIN (log \o more) = 1 .. (Len(log) + Len(more))
           /\ \A i \in 1 .. Len(log) : (log \o more)[i] = log[i]
           /\ \A i \in (Len(log) + 1) .. (Len(log) + Len(more)) :
                    /\ i - Len(log) \in 1 .. Len(more)
                    /\ (log \o more)[i] = more[i - Len(log)]
    OBVIOUS

\* Losing the last lines of a log loses nothing else.
LEMMA FollowsShorter ==
    ASSUME NEW s, NEW log \in Seq(Line), NEW more \in Seq(Line), Follows(s, log \o more)
    PROVE  Follows(s, log)
<1> DEFINE L == LinesOf(s, log)
           M == LinesOf(s, log \o more)
<1>1. L \subseteq M /\ \A i \in L : (log \o more)[i] = log[i]
    BY LinesAppended DEF LinesOf
<1>2. PICK at \in [M -> DOMAIN s.decisions] :
            \A i \in M : /\ Describes(s, (log \o more)[i], s.decisions[at[i]])
                         /\ \A j \in M : i < j => at[i] < at[j]
    BY DEF Follows
<1> DEFINE kept == [i \in L |-> at[i]]
<1>3. /\ kept \in [L -> DOMAIN s.decisions]
      /\ \A i \in L : kept[i] = at[i]
    <2> HIDE DEF L, M
    <2> QED
        BY <1>1, <1>2
<1>4. \A i \in L : /\ Describes(s, log[i], s.decisions[kept[i]])
                   /\ \A j \in L : i < j => kept[i] < kept[j]
    <2> HIDE DEF L, M, kept
    <2> QED
        BY <1>1, <1>2, <1>3
<1> QED
    BY <1>3, <1>4 DEF Follows

\* Lines of other sessions do not matter.
LEMMA FollowsOthers ==
    ASSUME NEW s, NEW log \in Seq(Line), NEW more \in Seq(Line), Follows(s, log),
           \A i \in 1 .. Len(more) : more[i].session # s.id
    PROVE  Follows(s, log \o more)
<1>1. LinesOf(s, log \o more) = LinesOf(s, log)
    BY SMTT(30), LinesAppended DEF LinesOf
<1>2. \A i \in LinesOf(s, log) : (log \o more)[i] = log[i]
    BY LinesAppended DEF LinesOf
<1> QED
    BY <1>1, <1>2 DEF Follows

\* A decision logged right after it was taken.
LEMMA FollowsNewDecision ==
    ASSUME NEW s, NEW t, NEW log \in Seq(Line), NEW line \in Line, NEW d, NEW S,
           s.decisions \in Seq(S), d \in S,
           t.id = s.id, t.changes = s.changes, t.decisions = Append(s.decisions, d),
           line.session = s.id, Describes(s, line, d), Follows(s, log)
    PROVE  Follows(t, log \o <<line>>)
<1> DEFINE longer == log \o <<line>>
           L == LinesOf(s, log)
           n == Len(log) + 1
           m == Len(s.decisions) + 1
           D == DOMAIN s.decisions
<1>1. /\ Len(log) \in Nat /\ n \in Nat /\ n \notin L
      /\ \A i \in L : i \in Nat /\ i < n
      /\ DOMAIN longer = 1 .. n
      /\ \A i \in 1 .. Len(log) : longer[i] = log[i]
      /\ longer[n] = line
    <2>1. <<line>> \in Seq(Line) /\ Len(<<line>>) = 1 /\ <<line>>[1] = line
        OBVIOUS
    <2> QED
        BY <2>1, LinesAppended DEF LinesOf
<1>2. LinesOf(t, longer) = L \cup {n}
    <2>1. DOMAIN log = 1 .. Len(log)
        OBVIOUS
    <2> HIDE DEF longer
    <2> QED
        BY <1>1, <2>1 DEF LinesOf
<1>3. /\ m \in Nat /\ D = 1 .. (m - 1)
      /\ DOMAIN t.decisions = 1 .. m
      /\ \A i \in D : t.decisions[i] = s.decisions[i]
      /\ t.decisions[m] = d
    OBVIOUS
<1>4. PICK at \in [L -> D] :
            \A i \in L : /\ Describes(s, log[i], s.decisions[at[i]])
                         /\ \A j \in L : i < j => at[i] < at[j]
    BY DEF Follows
<1>5. \A line2, d2 : Describes(t, line2, d2) <=> Describes(s, line2, d2)
    BY DEF Describes
<1> HIDE DEF L, n, m, D, longer
<1> DEFINE next == [i \in L \cup {n} |-> IF i = n THEN m ELSE at[i]]
<1>6. /\ next \in [L \cup {n} -> DOMAIN t.decisions]
      /\ next[n] = m
      /\ \A i \in L : next[i] = at[i] /\ at[i] \in D
    BY <1>1, <1>3, <1>4
<1> HIDE DEF next
<1>7. \A i \in L : longer[i] = log[i]
    BY <1>1 DEF L, LinesOf
<1>8. \A i \in L \cup {n} : /\ Describes(t, longer[i], t.decisions[next[i]])
                            /\ \A j \in L \cup {n} : i < j => next[i] < next[j]
    <2> TAKE i \in L \cup {n}
    <2>1. Describes(t, longer[i], t.decisions[next[i]])
        BY <1>1, <1>3, <1>4, <1>5, <1>6, <1>7
    <2>2. \A j \in L \cup {n} : i < j => next[i] < next[j]
        BY <1>1, <1>3, <1>4, <1>6
    <2> QED
        BY <2>1, <2>2
<1>9. Follows(t, longer)
    BY <1>2, <1>6, <1>8 DEF Follows
<1> QED
    BY <1>9 DEF longer

\* The lines of a session nobody logged yet, one for each of its decisions.
LEMMA FollowsFresh ==
    ASSUME NEW s, NEW log \in Seq(Line), NEW more \in Seq(Line), NEW S, s.decisions \in Seq(S),
           \A i \in DOMAIN log : log[i].session # s.id,
           Len(more) = Len(s.decisions),
           \A i \in 1 .. Len(more) : /\ more[i].session = s.id
                                     /\ Describes(s, more[i], s.decisions[i])
    PROVE  Follows(s, log \o more)
<1> DEFINE both == log \o more
           n == Len(log)
           L == (n + 1) .. (n + Len(more))
           at == [i \in L |-> i - n]
<1>1. /\ n \in Nat /\ Len(more) \in Nat
      /\ DOMAIN log = 1 .. n
      /\ DOMAIN both = 1 .. (n + Len(more))
      /\ \A i \in 1 .. n : both[i] = log[i]
      /\ \A i \in L : i - n \in 1 .. Len(more) /\ both[i] = more[i - n]
    <2> HIDE DEF both
    <2>1. /\ Len(log) \in Nat /\ Len(more) \in Nat
          /\ DOMAIN log = 1 .. Len(log)
          /\ DOMAIN both = 1 .. (Len(log) + Len(more))
        BY LinesAppended DEF both
    <2>2. /\ \A i \in 1 .. Len(log) : both[i] = log[i]
          /\ \A i \in (Len(log) + 1) .. (Len(log) + Len(more)) :
                /\ i - Len(log) \in 1 .. Len(more)
                /\ both[i] = more[i - Len(log)]
        BY LinesAppended DEF both
    <2> QED
        BY <2>1, <2>2
<1>2. DOMAIN s.decisions = 1 .. Len(more)
    OBVIOUS
<1> HIDE DEF both, n
<1>3. \A i \in L : i \in Nat /\ i \in 1 .. (n + Len(more)) /\ i \notin 1 .. n
    BY <1>1
<1>4. \A i \in 1 .. (n + Len(more)) : i \in 1 .. n \/ i \in L
    BY <1>1
<1>5. \A i, j \in L : i < j => i - n < j - n
    BY <1>1, <1>3
<1>6. at \in [L -> DOMAIN s.decisions] /\ \A i \in L : at[i] = i - n
    BY <1>1, <1>2
<1> HIDE DEF L, at
<1>7. LinesOf(s, both) = L
    <2>1. \A i \in DOMAIN both : both[i].session = s.id <=> i \in L
        BY <1>1, <1>3, <1>4
    <2>2. L \subseteq DOMAIN both
        BY <1>1, <1>3
    <2> QED
        BY <2>1, <2>2 DEF LinesOf
<1>8. \A i \in L : /\ Describes(s, both[i], s.decisions[at[i]])
                   /\ \A j \in L : i < j => at[i] < at[j]
    BY <1>1, <1>5, <1>6
<1>9. Follows(s, both)
    BY <1>6, <1>7, <1>8 DEF Follows
<1> QED
    BY <1>9 DEF both

LEMMA InitLinesPending == Init => LinesPending
<1> SUFFICES ASSUME Init PROVE LinesPending
    OBVIOUS
<1>1. /\ archive = {} /\ session.id = 0 /\ step.at = "idle"
      /\ Sessions = {} /\ Pending = <<>>
    BY DEF Init, Idle, NoSession, Sessions, Pending
<1> QED
    BY <1>1 DEF LinesPending

LEMMA PendingType ==
    ASSUME TypeOK
    PROVE  /\ Pending \in Seq(Line)
           /\ feedback \in Seq(Line)
           /\ step.at = "feedback" => step.records \in Seq(Line) \ {<<>>}
           /\ step.at = "resolve" =>
                step \in [at : {"resolve"}, session : Session, records : Seq(Line), todo : Seq(Change)]
<1>1. feedback \in Seq(Line)
    BY DEF TypeOK
<1>2. step.at = "feedback" => step.records \in Seq(Line) \ {<<>>}
    BY DEF TypeOK, Step, Idle
<1>3. step.at = "resolve" =>
        step \in [at : {"resolve"}, session : Session, records : Seq(Line), todo : Seq(Change)]
    BY DEF TypeOK, Step, Idle
<1>4. Pending \in Seq(Line)
    BY <1>1, <1>2, LinesAppended DEF Pending
<1> QED
    BY <1>1, <1>2, <1>3, <1>4

LEMMA OpenSessionKeepsLines ==
    ASSUME Inv, GateInv, LinesPending, NEW mode \in Modes, NEW proposal \in Proposals,
           OpenSession(mode, proposal)
    PROVE  LinesPending'
<1>1. /\ step.at = "idle" /\ step'.at = "resolve"
      /\ step'.records = <<>> /\ step'.session.decisions = <<>>
      /\ session'.id = 0
      /\ archive' = (IF session.id = 0 THEN archive ELSE archive \cup {session})
      /\ feedback' = feedback /\ opened' = opened + 1
    BY DEF OpenSession, Idle, NoSession, NewSession
<1>2. Pending' = Pending
    BY <1>1 DEF Pending
<1>3. Sessions' = Sessions /\ archive' = Sessions
    BY <1>1 DEF Sessions
<1>4. \A s \in archive' : s.id <= opened
    BY <1>1 DEF LinesPending, GateInv, TypeOK, Inv
<1>5. opened \in Nat /\ \A s \in archive' : s.id \in Nat
    <2>1. \A s \in Session : s.id \in Nat
        BY SessionAssumption DEF Session
    <2> QED
        BY <1>1, <2>1, SessionAssumption DEF Inv, TypeOK
<1>6. \A s \in archive' : s.id < opened' /\ s.id <= opened'
    BY <1>1, <1>4, <1>5
<1>7. \A i \in DOMAIN Pending' : \E s \in Sessions' : s.id = Pending'[i].session
    BY <1>2, <1>3 DEF LinesPending
<1>8. \A s \in Sessions' : Follows(s, Pending')
    BY <1>2, <1>3 DEF LinesPending
<1> QED
    BY <1>1, <1>6, <1>7, <1>8 DEF LinesPending

LEMMA AutoResolveKeepsLines ==
    ASSUME Inv, GateInv, LinesPending, AutoResolve
    PROVE  LinesPending'
<1> DEFINE s == step.session
           c == Head(step.todo)
           k == Least(KeyFor(s.changes, c, {}))
           line == FeedbackRecord(s, k, "approve")
           d == Decision(c, "approve", Null)
           records == step.records
<1>1. /\ step \in [at : {"resolve"}, session : Session, records : Seq(Line), todo : Seq(Change)]
      /\ step.at = "resolve" /\ step.todo # <<>>
    BY PendingType DEF AutoResolve, Inv
<1>2. s \in Session /\ c \in Change /\ records \in Seq(Line)
    BY <1>1
<1>3. /\ UNCHANGED <<session, archive, feedback, opened>>
      /\ step'.at = "resolve"
    BY <1>1 DEF AutoResolve, files
<1>4. /\ AutoResolved(s, c).id = s.id
      /\ AutoResolved(s, c).changes = s.changes
      /\ AutoResolved(s, c).decisions = Append(s.decisions, d)
    BY <1>2 DEF AutoResolved, WithDecision, Session
<1>5. line.session = s.id /\ line.action = "approve" /\ line.key = k
    BY DEF FeedbackRecord
<1>6. d.action = "approve" /\ d.change = c
    BY DEF Decision
<1>7. SameSlot(s.changes[k], c)
    <2>1. \E j \in Keys(s.changes) : s.changes[j] = c
        <3>1. 1 \in DOMAIN step.todo /\ c = step.todo[1]
            BY <1>1
        <3> QED
            BY <1>1, <3>1 DEF Inv, ResolvesInOrder
    <2> DEFINE equal == {j \in Keys(s.changes) : s.changes[j] = c}
    <2>2. equal \in SUBSET Nat /\ equal # {}
        <3>1. Keys(s.changes) \subseteq Nat
            BY <1>2, ChangesOfSession DEF Session
        <3> QED
            BY <2>1, <3>1
    <2>3. Least(equal) \in equal
        BY <2>2, LeastOfNaturals
    <2>4. KeyFor(s.changes, c, {}) = {Least(equal)}
        BY <2>2 DEF KeyFor
    <2>5. k \in equal
        <3>1. Least(equal) \in Nat
            BY <2>2, <2>3
        <3>2. k \in {Least(equal)}
            <4> HIDE DEF equal
            <4>1. {Least(equal)} \in SUBSET Nat /\ {Least(equal)} # {}
                BY <3>1
            <4> QED
                BY <2>4, <4>1, LeastOfNaturals
        <3> QED
            BY <2>3, <3>2
    <2> QED
        BY <2>5 DEF SameSlot
<1>8. Describes(s, line, d)
    BY <1>5, <1>6, <1>7 DEF Describes
<1>9. /\ Len(records) = Len(s.decisions)
      /\ \A i \in 1 .. Len(records) :
            records[i].session = s.id /\ Describes(s, records[i], s.decisions[i])
    BY <1>1 DEF LinesPending
<1>10. \A x, y : Describes(AutoResolved(s, c), x, y) <=> Describes(s, x, y)
    BY <1>4 DEF Describes
<1>11. \/ step'.session = s /\ step'.records = records
       \/ step'.session = AutoResolved(s, c) /\ step'.records = Append(records, line)
    BY <1>1 DEF AutoResolve
<1> HIDE DEF s, records, c, k, line, d
<1>12. /\ Len(step'.records) = Len(step'.session.decisions)
       /\ \A i \in 1 .. Len(step'.records) :
             /\ step'.records[i].session = step'.session.id
             /\ Describes(step'.session, step'.records[i], step'.session.decisions[i])
    <2>1. CASE step'.session = s /\ step'.records = records
        BY <1>9, <2>1
    <2>2. CASE step'.session = AutoResolved(s, c) /\ step'.records = Append(records, line)
        <3>1. /\ Len(Append(records, line)) = Len(records) + 1
              /\ Append(records, line)[Len(records) + 1] = line
              /\ \A i \in 1 .. Len(records) : Append(records, line)[i] = records[i]
              /\ Len(records) \in Nat
            BY <1>2
        <3>2. s.decisions \in Seq(DecisionRecord)
            BY <1>2 DEF Session
        <3>3. /\ Len(Append(s.decisions, d)) = Len(s.decisions) + 1
              /\ Append(s.decisions, d)[Len(s.decisions) + 1] = d
              /\ \A i \in 1 .. Len(s.decisions) : Append(s.decisions, d)[i] = s.decisions[i]
            BY <3>2
        <3>4. \A i \in 1 .. (Len(records) + 1) :
                    /\ Append(records, line)[i].session = s.id
                    /\ Describes(s, Append(records, line)[i], Append(s.decisions, d)[i])
            <4> TAKE i \in 1 .. (Len(records) + 1)
            <4>1. CASE i = Len(records) + 1
                <5>1. Append(records, line)[i] = line /\ Append(s.decisions, d)[i] = d
                    BY <1>9, <3>1, <3>3, <4>1
                <5> QED
                    BY <1>5, <1>8, <5>1
            <4>2. CASE i \in 1 .. Len(records)
                <5>1. /\ Append(records, line)[i] = records[i]
                      /\ Append(s.decisions, d)[i] = s.decisions[i]
                    BY <1>9, <3>1, <3>3, <4>2
                <5>2. records[i].session = s.id /\ Describes(s, records[i], s.decisions[i])
                    BY <1>9, <4>2
                <5> QED
                    BY <5>1, <5>2
            <4>3. i = Len(records) + 1 \/ i \in 1 .. Len(records)
                BY <3>1
            <4> QED
                BY <4>1, <4>2, <4>3
        <3> QED
            BY <1>4, <1>9, <1>10, <2>2, <3>1, <3>3, <3>4
    <2> QED
        BY <1>11, <2>1, <2>2
<1>13. Pending' = Pending /\ Sessions' = Sessions
    BY <1>1, <1>3 DEF Pending, Sessions
<1>14. \A i \in DOMAIN Pending' : \E t \in Sessions' : t.id = Pending'[i].session
    BY <1>13 DEF LinesPending
<1>15. \A t \in Sessions' : Follows(t, Pending')
    BY <1>13 DEF LinesPending
<1> QED
    BY <1>1, <1>3, <1>12, <1>14, <1>15 DEF LinesPending

LEMMA WriteSessionKeepsLines ==
    ASSUME Inv, GateInv, LinesPending, WriteSession
    PROVE  LinesPending'
<1> DEFINE s == step.session
           records == step.records
<1>1. /\ step \in [at : {"resolve"}, session : Session, records : Seq(Line), todo : Seq(Change)]
      /\ step.at = "resolve"
    BY PendingType DEF WriteSession, Inv
<1>2. s \in Session /\ records \in Seq(Line) /\ feedback \in Seq(Line)
    BY <1>1 DEF Inv, TypeOK
<1>3. /\ session' = s
      /\ step' = AfterSessionWrite(records)
      /\ UNCHANGED <<archive, feedback, opened>>
    BY DEF WriteSession
<1>4. step'.at \in {"idle", "feedback"}
    BY <1>3 DEF AfterSessionWrite, Idle
<1>5. /\ session.id = 0
      /\ s.id = opened /\ s.id # 0
    BY <1>1 DEF GateInv, NoSession
<1>6. Sessions = archive /\ Sessions' = archive \cup {s}
    BY <1>3, <1>5 DEF Sessions
<1>7. Pending = feedback
    BY <1>1 DEF Pending
<1>8. Pending' = feedback \o records
    <2>1. CASE records = <<>>
        BY <1>2, <1>3, <2>1 DEF Pending, AfterSessionWrite, Idle
    <2>2. CASE records # <<>>
        BY <1>3, <2>2 DEF Pending, AfterSessionWrite
    <2> QED
        BY <2>1, <2>2
<1>9. /\ \A t \in archive : t.id < opened
      /\ Len(records) = Len(s.decisions)
      /\ \A i \in 1 .. Len(records) :
            records[i].session = s.id /\ Describes(s, records[i], s.decisions[i])
    BY <1>1 DEF LinesPending
<1>10. opened \in Nat /\ \A t \in archive : t.id \in Nat
    <2>1. \A t \in Session : t.id \in Nat
        BY SessionAssumption DEF Session
    <2> QED
        BY <2>1, SessionAssumption DEF Inv, TypeOK
<1>11. \A t \in archive : t.id # s.id
    BY <1>5, <1>9, <1>10
<1>12. /\ \A i \in DOMAIN feedback : \E t \in archive : t.id = feedback[i].session
       /\ \A t \in archive : Follows(t, feedback)
    BY <1>6, <1>7 DEF LinesPending
<1> HIDE DEF s, records
<1>13. \A t \in archive : Follows(t, feedback \o records)
    BY <1>2, <1>9, <1>11, <1>12, FollowsOthers
<1>14. Follows(s, feedback \o records)
    <2>1. s.decisions \in Seq(DecisionRecord)
        BY <1>2 DEF Session
    <2>2. \A i \in DOMAIN feedback : feedback[i].session # s.id
        BY <1>11, <1>12
    <2> QED
        BY <1>2, <1>9, <2>1, <2>2, FollowsFresh
<1>15. \A i \in DOMAIN (feedback \o records) :
            \E t \in archive \cup {s} : t.id = (feedback \o records)[i].session
    <2> TAKE i \in DOMAIN (feedback \o records)
    <2>1. CASE i \in 1 .. Len(feedback)
        BY <1>2, <1>12, <2>1, LinesAppended
    <2>2. CASE i \in (Len(feedback) + 1) .. (Len(feedback) + Len(records))
        BY <1>2, <1>9, <2>2, LinesAppended
    <2>3. i \in 1 .. Len(feedback) \/ i \in (Len(feedback) + 1) .. (Len(feedback) + Len(records))
        BY <1>2, LinesAppended
    <2> QED
        BY <2>1, <2>2, <2>3
<1>16. \A t \in Sessions' : Follows(t, Pending')
    BY <1>6, <1>8, <1>13, <1>14
<1>17. \A i \in DOMAIN Pending' : \E t \in Sessions' : t.id = Pending'[i].session
    BY <1>6, <1>8, <1>15
<1>18. /\ \A t \in archive' : t.id <= opened'
       /\ session'.id # 0 => \A t \in archive' : t.id < session'.id
    BY <1>3, <1>5, <1>9, <1>10
<1> QED
    BY <1>4, <1>16, <1>17, <1>18 DEF LinesPending

LEMMA AppendFeedbackKeepsLines ==
    ASSUME Inv, LinesPending, AppendFeedback
    PROVE  LinesPending'
<1> DEFINE records == step.records
           first == Head(records)
           rest == Tail(records)
<1>1. /\ step.at = "feedback"
      /\ records \in Seq(Line) /\ records # <<>>
      /\ feedback \in Seq(Line)
    BY PendingType DEF AppendFeedback, Inv
<1>2. /\ feedback' = Append(feedback, first)
      /\ step' = AfterSessionWrite(rest)
      /\ UNCHANGED <<session, archive, opened>>
    BY DEF AppendFeedback
<1>3. first \in Line /\ rest \in Seq(Line)
    BY <1>1
<1>4. Append(feedback, first) \o rest = feedback \o records
    <2> DEFINE longer == Append(feedback, first)
               n == Len(feedback)
    <2>1. /\ longer \in Seq(Line) /\ Len(longer) = n + 1 /\ n \in Nat
          /\ \A i \in 1 .. n : longer[i] = feedback[i]
          /\ longer[n + 1] = first
        BY <1>1, <1>3
    <2>2. /\ Len(records) \in Nat /\ Len(rest) = Len(records) - 1 /\ Len(rest) \in Nat
          /\ records[1] = first
          /\ \A i \in 1 .. Len(rest) : rest[i] = records[i + 1]
        BY <1>1
    <2> HIDE DEF longer, first, rest, records, n
    <2> DEFINE left  == longer \o rest
               right == feedback \o records
    <2>3. /\ left \in Seq(Line)
          /\ DOMAIN left = 1 .. (Len(longer) + Len(rest))
          /\ \A i \in 1 .. Len(longer) : left[i] = longer[i]
          /\ \A i \in (Len(longer) + 1) .. (Len(longer) + Len(rest)) :
                left[i] = rest[i - Len(longer)]
        BY <1>3, <2>1, LinesAppended
    <2>4. /\ right \in Seq(Line)
          /\ DOMAIN right = 1 .. (n + Len(records))
          /\ \A i \in 1 .. n : right[i] = feedback[i]
          /\ \A i \in (n + 1) .. (n + Len(records)) : right[i] = records[i - n]
        BY <1>1, LinesAppended DEF n
    <2> HIDE DEF left, right
    <2>5. DOMAIN left = DOMAIN right
        BY <2>1, <2>2, <2>3, <2>4
    <2>6. ASSUME NEW i \in 1 .. (n + Len(records))
          PROVE  left[i] = right[i]
        <3>1. CASE i \in 1 .. n
            BY <2>1, <2>3, <2>4, <3>1
        <3>2. CASE i = n + 1
            <4>1. i - n = 1 /\ i \in 1 .. Len(longer) /\ i \in (n + 1) .. (n + Len(records))
                BY <2>1, <2>2, <3>2
            <4> QED
                BY <2>1, <2>2, <2>3, <2>4, <3>2, <4>1
        <3>3. CASE i \in (n + 2) .. (n + Len(records))
            <4>1. i - Len(longer) \in 1 .. Len(rest) /\ (i - Len(longer)) + 1 = i - n
                BY <2>1, <2>2, <3>3
            <4>2. /\ i \in (Len(longer) + 1) .. (Len(longer) + Len(rest))
                  /\ i \in (n + 1) .. (n + Len(records))
                BY <2>1, <2>2, <3>3
            <4> QED
                BY <2>2, <2>3, <2>4, <4>1, <4>2
        <3>4. i \in 1 .. n \/ i = n + 1 \/ i \in (n + 2) .. (n + Len(records))
            BY <2>1, <2>2
        <3> QED
            BY <3>1, <3>2, <3>3, <3>4
    <2>7. left = right
        <3>1. \A i \in DOMAIN left : left[i] = right[i]
            BY <2>4, <2>5, <2>6
        <3>2. left = [i \in DOMAIN left |-> left[i]] /\ right = [i \in DOMAIN right |-> right[i]]
            BY <2>3, <2>4
        <3> QED
            BY <2>5, <3>1, <3>2
    <2> QED
        BY <2>7 DEF left, right, longer
<1>5. Pending = feedback \o records
    BY <1>1 DEF Pending
<1>6. step'.at \in {"idle", "feedback"}
    BY <1>2 DEF AfterSessionWrite, Idle
<1>7. Pending' = Append(feedback, first) \o rest
    <2>1. CASE rest = <<>>
        <3>1. Append(feedback, first) \in Seq(Line)
            BY <1>1, <1>3
        <3>2. Append(feedback, first) \o <<>> = Append(feedback, first)
            BY <3>1
        <3>3. Pending' = feedback'
            BY <1>2, <2>1 DEF Pending, AfterSessionWrite, Idle
        <3> QED
            BY <1>2, <2>1, <3>2, <3>3
    <2>2. CASE rest # <<>>
        <3> HIDE DEF rest, first
        <3> QED
            BY <1>2, <2>2 DEF Pending, AfterSessionWrite
    <2> QED
        BY <2>1, <2>2
<1>8. Pending' = Pending /\ Sessions' = Sessions
    BY <1>2, <1>4, <1>5, <1>7 DEF Sessions
<1>9. \A i \in DOMAIN Pending' : \E t \in Sessions' : t.id = Pending'[i].session
    BY <1>8 DEF LinesPending
<1>10. \A t \in Sessions' : Follows(t, Pending')
    BY <1>8 DEF LinesPending
<1> QED
    BY <1>2, <1>6, <1>9, <1>10 DEF LinesPending

LEMMA RecordDecisionKeepsLines ==
    ASSUME Inv, GateInv, LinesPending, NEW a \in Answers, NEW k \in Keys(session.changes),
           RecordDecision(k, a.action, a.content)
    PROVE  LinesPending'
<1> DEFINE c == session.changes[k]
           d == Decision(c, a.action, a.content)
           line == FeedbackRecord(session', k, a.action)
<1>1. /\ step.at = "idle" /\ session.id # 0
      /\ session' = WithDecision(session, c, a.action, a.content)
      /\ step' = [at |-> "feedback", records |-> <<line>>]
      /\ UNCHANGED <<archive, feedback, opened>>
    BY DEF RecordDecision, Idle
<1>2. session \in Session /\ session.changes \in Seq(Change) /\ feedback \in Seq(Line)
      /\ session.decisions \in Seq(DecisionRecord)
      /\ session.logged \subseteq Keys(session.changes)
    BY DEF Inv, TypeOK, Session
<1>3. a.action \in ReviewAction /\ a.content \in Value /\ c \in Change /\ k \in Nat
    BY <1>2, ChangesOfSession, SessionAssumption
<1>4. /\ session'.id = session.id
      /\ session'.changes = session.changes
      /\ session'.decisions = Append(session.decisions, d)
    BY <1>1, <1>2 DEF WithDecision, Session
<1>5. session' \in Session
    BY <1>1, <1>2, <1>3, WithDecisionType
<1>6. line \in Line
    BY <1>3, <1>5, FeedbackRecordType
<1>7. d \in DecisionRecord /\ d.action = a.action /\ d.change = c
    BY <1>3 DEF Decision, DecisionRecord
<1>8. line.session = session.id /\ Describes(session, line, d)
    BY <1>4, <1>7 DEF FeedbackRecord, Describes, SameSlot
<1>9. Sessions = archive \cup {session} /\ Sessions' = archive \cup {session'}
    BY <1>1, <1>4 DEF Sessions
<1>10. Pending = feedback /\ Pending' = feedback \o <<line>>
    BY <1>1 DEF Pending
<1> HIDE DEF c, d, line
<1>11. Follows(session', feedback \o <<line>>)
    <2>1. Follows(session, feedback)
        BY <1>9, <1>10 DEF LinesPending
    <2> QED
        BY <1>2, <1>4, <1>6, <1>7, <1>8, <2>1, FollowsNewDecision
<1>12. <<line>> \in Seq(Line) /\ Len(<<line>>) = 1 /\ <<line>>[1] = line
    BY <1>6
<1>13. \A t \in archive : t.id # session.id
    <2>1. \A t \in Session : t.id \in Nat
        BY SessionAssumption DEF Session
    <2> QED
        BY <1>1, <1>2, <2>1 DEF LinesPending, Inv, TypeOK
<1>14. \A t \in archive : Follows(t, feedback \o <<line>>)
    <2>1. \A t \in archive : Follows(t, feedback)
        BY <1>9, <1>10 DEF LinesPending
    <2>2. \A i \in 1 .. Len(<<line>>) : <<line>>[i].session = session.id
        BY <1>8, <1>12
    <2> QED
        BY <1>2, <1>12, <1>13, <2>1, <2>2, FollowsOthers
<1>15. \A i \in DOMAIN (feedback \o <<line>>) :
            \E t \in archive \cup {session'} : t.id = (feedback \o <<line>>)[i].session
    <2> TAKE i \in DOMAIN (feedback \o <<line>>)
    <2>1. CASE i \in 1 .. Len(feedback)
        <3>1. (feedback \o <<line>>)[i] = feedback[i] /\ i \in DOMAIN feedback
            BY <1>2, <1>12, <2>1, LinesAppended
        <3>2. \E t \in archive \cup {session} : t.id = feedback[i].session
            BY <1>9, <1>10, <3>1 DEF LinesPending
        <3> QED
            BY <1>4, <3>1, <3>2
    <2>2. CASE i = Len(feedback) + 1
        <3>1. (feedback \o <<line>>)[i] = line
            BY <1>2, <1>12, <2>2, LinesAppended
        <3> QED
            BY <1>4, <1>8, <3>1
    <2>3. i \in 1 .. Len(feedback) \/ i = Len(feedback) + 1
        BY <1>2, <1>12, LinesAppended
    <2> QED
        BY <2>1, <2>2, <2>3
<1>16. \A t \in Sessions' : Follows(t, Pending')
    BY <1>9, <1>10, <1>11, <1>14
<1>17. \A i \in DOMAIN Pending' : \E t \in Sessions' : t.id = Pending'[i].session
    BY <1>9, <1>10, <1>15
<1>18. step'.at = "feedback"
    BY <1>1
<1> QED
    BY <1>1, <1>4, <1>16, <1>17, <1>18 DEF LinesPending

LEMMA DropsKeepLines ==
    ASSUME Inv, LinesPending, DropsAtMost
    PROVE  LinesPending'
<1>1. UNCHANGED <<session, archive, feedback, opened>> /\ Sessions' = Sessions
    BY DEF DropsAtMost, Sessions
<1>2. CASE UNCHANGED step
    <2>1. Pending' = Pending
        BY <1>1, <1>2 DEF Pending
    <2>2. /\ \A i \in DOMAIN Pending' : \E t \in Sessions' : t.id = Pending'[i].session
          /\ \A t \in Sessions' : Follows(t, Pending')
        BY <1>1, <2>1 DEF LinesPending
    <2> QED
        BY <1>1, <1>2, <2>2 DEF LinesPending
<1>3. CASE step'.at \in {"idle", "grow", "write_tailored"}
    <2>1. Pending' = feedback
        BY <1>1, <1>3 DEF Pending
    <2>2. \A t \in Sessions : Follows(t, feedback)
        <3>1. CASE step.at = "feedback"
            <4>1. /\ Pending = feedback \o step.records
                  /\ feedback \in Seq(Line) /\ step.records \in Seq(Line)
                BY <3>1, PendingType DEF Pending, Inv
            <4> QED
                BY <4>1, FollowsShorter DEF LinesPending
        <3>2. CASE step.at # "feedback"
            BY <3>2 DEF LinesPending, Pending
        <3> QED
            BY <3>1, <3>2
    <2>3. \A i \in DOMAIN feedback : \E t \in Sessions : t.id = feedback[i].session
        <3>1. CASE step.at = "feedback"
            <4>1. /\ Pending = feedback \o step.records
                  /\ feedback \in Seq(Line) /\ step.records \in Seq(Line)
                BY <3>1, PendingType DEF Pending, Inv
            <4>2. \A i \in DOMAIN feedback : i \in DOMAIN Pending /\ Pending[i] = feedback[i]
                BY <4>1, LinesAppended
            <4> QED
                BY <4>2 DEF LinesPending
        <3>2. CASE step.at # "feedback"
            BY <3>2 DEF LinesPending, Pending
        <3> QED
            BY <3>1, <3>2
    <2>4. /\ \A i \in DOMAIN Pending' : \E t \in Sessions' : t.id = Pending'[i].session
          /\ \A t \in Sessions' : Follows(t, Pending')
        BY <1>1, <2>1, <2>2, <2>3
    <2> QED
        BY <1>1, <1>3, <2>4 DEF LinesPending
<1> QED
    BY <1>2, <1>3 DEF DropsAtMost

LEMMA NextLinesPending == Inv /\ GateInv /\ LinesPending /\ [Next]_vars => LinesPending'
    BY StepsOfTheRecords, OpenSessionKeepsLines, AutoResolveKeepsLines, WriteSessionKeepsLines,
       AppendFeedbackKeepsLines, RecordDecisionKeepsLines, DropsKeepLines DEF RecordsStep

-----------------------------------------------------------------------------
(* What a tailored file says.                                               *)

\* Every resume file holds one of the contents it may have.
ResumesTyped == DOMAIN resumes = Resume /\ \A r \in Resume : resumes[r] \in Revisions[r]

\* The text a decision lets into the resume.
GrantedValue(d) == IF d.action = "edit" /\ d.content # Null THEN d.content ELSE d.change.value

\* Every new text of the document was let in by a decision of its session.
Licensed(commit) ==
    \A t \in Texts(commit.doc) \ Texts(commit.source) :
        \E i \in DOMAIN commit.session.decisions :
            /\ commit.session.decisions[i].action \in Applying
            /\ t \in TextsOf(GrantedValue(commit.session.decisions[i]))

CommitsLicensed == step.at \in {"grow", "write_tailored"} => Licensed(step.commit)

TailoredLicensed == \A w \in DOMAIN tailored : tailored[w] # Absent => Licensed(tailored[w])

LEMMA TextsOfTheFields ==
    ASSUME NEW doc
    PROVE  Texts(doc) = UNION {TextsOf(doc[f]) : f \in DOMAIN doc}
    BY DEF Texts, TextsOf

LEMMA LicensedMeansTailored == TailoredLicensed => TailoredIsLicensed
<1>1. \A v : Texts([x |-> v]) = TextsOf(v)
    <2> TAKE v
    <2> DEFINE r == [x |-> v]
    <2>1. DOMAIN r = {"x"} /\ r["x"] = v
        OBVIOUS
    <2>2. Texts(r) = UNION {TextsOf(r[f]) : f \in DOMAIN r}
        BY TextsOfTheFields
    <2> QED
        BY <2>1, <2>2
<1>2. ASSUME TailoredLicensed, NEW w \in DOMAIN tailored, tailored[w] # Absent,
             NEW t \in Texts(tailored[w].doc) \ Texts(tailored[w].source)
      PROVE  \E i \in DOMAIN tailored[w].session.decisions :
                LET d == tailored[w].session.decisions[i]
                IN  /\ d.action \in Applying
                    /\ t \in (IF d.action = "edit" /\ d.content # Null
                              THEN Texts([x |-> d.content])
                              ELSE Texts([x |-> d.change.value]))
    <2>1. PICK i \in DOMAIN tailored[w].session.decisions :
                /\ tailored[w].session.decisions[i].action \in Applying
                /\ t \in TextsOf(GrantedValue(tailored[w].session.decisions[i]))
        BY <1>2 DEF TailoredLicensed, Licensed
    <2> DEFINE d == tailored[w].session.decisions[i]
    <2>2. t \in (IF d.action = "edit" /\ d.content # Null
                 THEN Texts([x |-> d.content]) ELSE Texts([x |-> d.change.value]))
        BY <1>1, <2>1 DEF GrantedValue
    <2> QED
        BY <2>1, <2>2
<1> QED
    BY <1>2 DEF TailoredIsLicensed

\* _accepted_changes yields changes again, each with the text of an approving decision.
LEMMA AcceptedAreGranted ==
    ASSUME NEW s \in Session
    PROVE  /\ AcceptedChanges(s) \in Seq(Change)
           /\ \A j \in DOMAIN AcceptedChanges(s) : \E i \in DOMAIN s.decisions :
                  /\ s.decisions[i].action \in Applying
                  /\ AcceptedChanges(s)[j].value = GrantedValue(s.decisions[i])
<1> DEFINE I == {i \in DOMAIN s.decisions : s.decisions[i].action \in Applying}
           applying == ItemsAt(s.decisions, I)
           Granted(d) == IF d.action = "edit" /\ d.content # Null
                         THEN [d.change EXCEPT !.value = d.content] ELSE d.change
           n == Len(applying)
<1>1. s.decisions \in Seq(DecisionRecord)
    BY DEF Session
<1>2. /\ applying \in Seq(DecisionRecord)
      /\ ToSet(applying) = {s.decisions[i] : i \in DOMAIN s.decisions \cap I}
    <2> HIDE DEF I
    <2> QED
        BY <1>1, ItemsAtMembers
<1>3. \A d \in DecisionRecord : Granted(d) \in Change /\ Granted(d).value = GrantedValue(d)
    BY DEF DecisionRecord, Change, GrantedValue
<1>4. AcceptedChanges(s) = [j \in DOMAIN applying |-> Granted(applying[j])]
    BY DEF AcceptedChanges
<1> HIDE DEF Granted, applying
<1>5. DOMAIN applying = 1 .. n /\ n \in Nat /\ \A j \in 1 .. n : applying[j] \in DecisionRecord
    BY <1>2
<1>6. AcceptedChanges(s) \in Seq(Change)
    <2>1. AcceptedChanges(s) \in [1 .. n -> Change]
        BY <1>3, <1>4, <1>5
    <2> QED
        BY <1>5, <2>1
<1>7. ASSUME NEW j \in DOMAIN AcceptedChanges(s)
      PROVE  \E i \in DOMAIN s.decisions :
                /\ s.decisions[i].action \in Applying
                /\ AcceptedChanges(s)[j].value = GrantedValue(s.decisions[i])
    <2>1. j \in 1 .. n /\ AcceptedChanges(s)[j] = Granted(applying[j])
        BY <1>4, <1>5
    <2>2. applying[j] \in ToSet(applying)
        BY <1>5, <2>1 DEF ToSet
    <2>3. PICK i \in DOMAIN s.decisions \cap I : applying[j] = s.decisions[i]
        BY <1>2, <2>2
    <2>4. AcceptedChanges(s)[j].value = GrantedValue(s.decisions[i])
        BY <1>3, <1>5, <2>1, <2>3
    <2> QED
        BY <2>3, <2>4
<1> QED
    BY <1>6, <1>7

LEMMA CommitIsLicensed ==
    ASSUME Inv, GateInv, ResumesTyped, NEW freedom, CommitSession(freedom)
    PROVE  Licensed(step'.commit)
<1> DEFINE s == session
           source == resumes[s.resume]
           accepted == AcceptedChanges(s)
           keys == VerifiedSkillKeys(source, s.job, accepted, s.evidence)
           applied == ApplyDiffs(source, accepted, freedom, keys).doc
           assembled == ValidateResume(applied)
           D == DOMAIN source
<1>1. step'.commit = [doc |-> assembled, source |-> source, session |-> s]
    BY DEF CommitSession
<1>2. s \in Session /\ s.resume \in Resume
    BY DEF CommitSession, GateInv, Inv, TypeOK
<1>3. source \in [D -> Value]
    BY <1>2, RevisionAssumption DEF ResumesTyped
<1>4. /\ accepted \in Seq(Change)
      /\ \A j \in DOMAIN accepted : \E i \in DOMAIN s.decisions :
            /\ s.decisions[i].action \in Applying
            /\ accepted[j].value = GrantedValue(s.decisions[i])
    BY <1>2, AcceptedAreGranted
<1> HIDE DEF keys, accepted, D, source, s
<1>5. /\ applied \in [D -> Value]
      /\ \A f \in D : TextsOf(applied[f]) \subseteq TextsOf(source[f]) \cup ProposedTexts(accepted)
    BY <1>3, <1>4, ApplyDiffsAddsProposed
<1> HIDE DEF applied
<1>6. /\ assembled \in [D -> Value]
      /\ \A f \in D : TextsOf(assembled[f]) \subseteq TextsOf(applied[f])
    BY <1>5, ValidateAddsNothing
<1> HIDE DEF assembled
<1>7. ASSUME NEW t \in Texts(assembled) \ Texts(source)
      PROVE  \E i \in DOMAIN s.decisions :
                /\ s.decisions[i].action \in Applying
                /\ t \in TextsOf(GrantedValue(s.decisions[i]))
    <2>1. PICK f \in D : t \in TextsOf(assembled[f])
        BY <1>6, TextsOfTheFields
    <2>2. t \notin TextsOf(source[f])
        BY TextsOfTheFields DEF D
    <2>3. PICK j \in DOMAIN accepted : t \in TextsOf(accepted[j].value)
        BY <1>5, <1>6, <2>1, <2>2 DEF ProposedTexts
    <2> QED
        BY <1>4, <2>3
<1> QED
    BY <1>1, <1>7 DEF Licensed

LEMMA InitLicensed == Init => ResumesTyped /\ CommitsLicensed /\ TailoredLicensed
    BY DEF Init, Idle, Absent, ResumesTyped, CommitsLicensed, TailoredLicensed

LEMMA NextResumesTyped == ResumesTyped /\ [Next]_vars => ResumesTyped'
<1> SUFFICES ASSUME ResumesTyped, [Next]_vars PROVE ResumesTyped'
    OBVIOUS
<1>1. CASE \E resume \in Resume : \E doc \in Revisions[resume] : RewriteResume(resume, doc)
    BY <1>1 DEF RewriteResume, ResumesTyped
<1>2. CASE ~\E resume \in Resume : \E doc \in Revisions[resume] : RewriteResume(resume, doc)
    <2>1. UNCHANGED resumes
        BY <1>2 DEF Next, OpenSession, AutoResolve, WriteSession, AppendFeedback, DecideById,
                    DecideByPath, RecordDecision, CommitSession, GrowAlias, WriteAliases,
                    WriteTailored, Crash, SetActive, vars, files
    <2> QED
        BY <2>1 DEF ResumesTyped
<1> QED
    BY <1>1, <1>2

LEMMA NextLicensed ==
    Inv /\ GateInv /\ ResumesTyped /\ CommitsLicensed /\ TailoredLicensed /\ [Next]_vars
        => CommitsLicensed' /\ TailoredLicensed'
<1> SUFFICES ASSUME Inv, GateInv, ResumesTyped, CommitsLicensed, TailoredLicensed, [Next]_vars
             PROVE  CommitsLicensed' /\ TailoredLicensed'
    OBVIOUS
<1>1. CASE \E freedom \in CommitFreedoms : CommitSession(freedom)
    <2>1. tailored' = tailored
        BY <1>1 DEF CommitSession, files
    <2> QED
        BY <1>1, <2>1, CommitIsLicensed DEF CommitsLicensed, TailoredLicensed
<1>2. CASE GrowAlias \/ WriteAliases
    <2>1. /\ step.at = "grow"
          /\ step'.commit = step.commit
          /\ tailored' = tailored
        BY <1>2 DEF GrowAlias, WriteAliases, files
    <2> QED
        BY <2>1 DEF CommitsLicensed, TailoredLicensed
<1>3. CASE WriteTailored
    <2>1. Licensed(step.commit) /\ step'.at = "idle"
        BY <1>3 DEF WriteTailored, CommitsLicensed, Idle
    <2>2. \A w \in DOMAIN tailored' :
              w \in DOMAIN tailored /\ tailored'[w] \in {tailored[w], step.commit}
        BY <1>3 DEF WriteTailored
    <2> QED
        BY <2>1, <2>2 DEF CommitsLicensed, TailoredLicensed
<1>4. CASE \/ AutoResolve \/ WriteSession \/ AppendFeedback
           \/ \E mode \in Modes, proposal \in Proposals : OpenSession(mode, proposal)
           \/ \E k, action, content : RecordDecision(k, action, content)
    <2>1. step'.at \in {"idle", "feedback", "resolve"} /\ UNCHANGED tailored
        <3>1. CASE AutoResolve
            <4>1. step \in [at : {"resolve"}, session : Session, records : Seq(Line), todo : Seq(Change)]
                BY <3>1, PendingType DEF AutoResolve, Inv
            <4> QED
                BY <3>1, <4>1 DEF AutoResolve, files
        <3>2. CASE WriteSession \/ AppendFeedback
            BY <3>2 DEF WriteSession, AppendFeedback, AfterSessionWrite, Idle
        <3>3. CASE \E mode \in Modes, proposal \in Proposals : OpenSession(mode, proposal)
            BY <3>3 DEF OpenSession
        <3>4. CASE \E k, action, content : RecordDecision(k, action, content)
            BY <3>4 DEF RecordDecision
        <3> QED
            BY <1>4, <3>1, <3>2, <3>3, <3>4
    <2> QED
        BY <2>1 DEF CommitsLicensed, TailoredLicensed
<1>5. CASE Crash
    BY <1>5 DEF Crash, files, Idle, CommitsLicensed, TailoredLicensed
<1>6. CASE \/ \E resume \in Resume, job \in Job : SetActive(resume, job)
           \/ \E resume \in Resume : \E doc \in Revisions[resume] : RewriteResume(resume, doc)
           \/ UNCHANGED vars
    <2>1. UNCHANGED <<step, tailored>>
        BY <1>6 DEF SetActive, RewriteResume, vars, files
    <2> QED
        BY <2>1 DEF CommitsLicensed, TailoredLicensed
<1>7. CASE \E a \in Answers, k \in Keys(session.changes) :
              \/ DecideById(k, a.action, a.content)
              \/ DecideByPath(session.changes[k].path, a.action, a.content)
    <2>1. \E k, action, content : RecordDecision(k, action, content)
        BY <1>7 DEF DecideById, DecideByPath
    <2> QED
        BY <1>4, <2>1
<1> QED
    BY <1>1, <1>2, <1>3, <1>4, <1>5, <1>6, <1>7 DEF Next

-----------------------------------------------------------------------------
(* The theorems.                                                            *)

\* Every state of the session, its files and the capability in flight is well
\* typed: edit_session.py only ever persists envelopes of its own schema.
THEOREM SpecTypeOK == Spec => []TypeOK
<1>1. Inv => TypeOK
    BY DEF Inv
<1> QED
    BY <1>1, InvHolds, PTL

\* The held cursor of decide_change never leaves an undecided change behind,
\* whatever the order of the changes, duplicates and repeated answers.
THEOREM SpecNoChangeSkipped == Spec => []NoChangeSkipped
<1>1. Inv => NoChangeSkipped
    BY DEF Inv, InOrder, NoChangeSkipped
<1> QED
    BY <1>1, InvHolds, PTL

\* A reviewed session is never stuck: the section the cursor names has a change
\* that decide_change still accepts by its id.
THEOREM SpecAlwaysAnswerable == Spec => []AlwaysAnswerable
<1>1. Inv => AlwaysAnswerable
    BY DEF Inv, InOrder, AlwaysAnswerable
<1> QED
    BY <1>1, InvHolds, PTL

\* Both at once: the cursor of decide_change passes nothing undecided and never
\* strands the reviewer.
THEOREM SpecReviewInOrder == Spec => []ReviewInOrder
    BY SpecNoChangeSkipped, SpecAlwaysAnswerable, PTL DEF ReviewInOrder

\* The hard gate of commit_session: no tailored file comes from a session with a
\* change the gate asks about still undecided, crashes and retries included.
THEOREM SpecCommittedMeansDecided == Spec => []CommittedMeansDecided
<1>1. Inv => CommittedMeansDecided
    BY DEF Inv
<1> QED
    BY <1>1, InvHolds, PTL

\* What accepted terminology edits teach the alias file never makes it unloadable
\* and never moves a term it already places, over any number of commits.
THEOREM SpecGrowthKeepsIndex == Spec => GrowthKeepsIndex
<1>1. Init => GrowsAliases
    BY DEF Init, GrowsAliases, Idle
<1>2. Inv /\ GrowsAliases /\ [Next]_vars => GrowsAliases'
    BY NextGrowsAliases
<1>3. GrowsAliases /\ [Next]_vars => KeepsIndex(Effective(aliases), Effective(aliases'))
    BY StepKeepsIndex
<1> QED
    BY <1>1, <1>2, <1>3, InvHolds, PTL DEF Spec, GrowthKeepsIndex
\* The truth gate of commit_session: a text some evidence refutes is never a claim
\* of a tailored file, for any resumes, changes, evidence and alias files.
THEOREM SpecRefutedTextNeverWritten == Spec => []RefutedTextNeverWritten
<1>1. Init => CommitsNothingRefuted /\ RefutedTextNeverWritten
    BY DEF Init, Idle, Absent, CommitsNothingRefuted, RefutedTextNeverWritten
<1>2. Inv /\ CommitsNothingRefuted /\ RefutedTextNeverWritten /\ [Next]_vars
        => CommitsNothingRefuted' /\ RefutedTextNeverWritten'
    BY NextWritesNothingRefuted
<1> QED
    BY <1>1, <1>2, InvHolds, PTL DEF Spec

\* Opening, deciding, committing and crashing keep every decision ever written:
\* in its session, or in the archive archive_session moved it to.
THEOREM SpecDecisionsAppendOnly == Spec => DecisionsAppendOnly
<1>1. Init => ResolvesAlone
    BY DEF Init, ResolvesAlone, Idle
<1>2. ResolvesAlone /\ [Next]_vars => ResolvesAlone'
    BY NextResolvesAlone
<1>3. Inv /\ ResolvesAlone /\ [Next]_vars =>
        \A s \in Sessions : \E t \in Sessions' : t.id = s.id /\ IsPrefix(s.decisions, t.decisions)
    BY StepKeepsDecisions
<1> QED
    BY <1>1, <1>2, <1>3, InvHolds, PTL DEF Spec, DecisionsAppendOnly

\* An edit session is a write gate: whatever its mode, order, duplicates, crashes
\* and pointer moves, a tailored file is only replaced by what the open session
\* granted, once nothing it must answer is open.
THEOREM SpecImplementsWriteGate == Spec => ImplementsWriteGate
<1>1. Init => GateInv /\ Gate!Init
    BY InitGateInv
<1>2. Inv /\ GateInv /\ [Next]_vars => GateInv' /\ [Gate!Next]_Gate!gateVars
    BY StepRefinesGate
<1> QED
    BY <1>1, <1>2, InvHolds, PTL DEF Spec, ImplementsWriteGate, Gate!Spec
LEMMA SpecGateInv == Spec => []GateInv
<1>1. Init => GateInv
    BY InitGateInv
<1>2. Inv /\ GateInv /\ [Next]_vars => GateInv'
    BY StepRefinesGate
<1> QED
    BY <1>1, <1>2, InvHolds, PTL DEF Spec

\* The decision list, the keys it settles (recomputed by _terminal_decision_keys on
\* every call) and the feedback lines agree in every session ever opened: whatever
\* was answered twice, resolved automatically or cut short by a stop between files.
THEOREM SpecRecordsAgree == Spec => []RecordsAgree
<1>1. Init => KeysRecomputed /\ LinesPending
    BY InitKeysRecomputed, InitLinesPending
<1>2. Inv /\ GateInv /\ KeysRecomputed /\ LinesPending /\ [Next]_vars
        => KeysRecomputed' /\ LinesPending'
    BY NextKeysRecomputed, NextLinesPending
<1>3. Inv /\ KeysRecomputed /\ LinesPending => RecordsAgree
    <2> SUFFICES ASSUME Inv, KeysRecomputed, LinesPending PROVE RecordsAgree
        OBVIOUS
    <2>1. LoggedIsRecomputed
        BY DEF KeysRecomputed, Recomputed, LoggedIsRecomputed, Sessions
    <2>2. FeedbackFollowsDecisions
        <3>1. CASE step.at = "feedback"
            <4>1. /\ Pending = feedback \o step.records
                  /\ feedback \in Seq(Line) /\ step.records \in Seq(Line)
                BY <3>1, PendingType DEF Pending, Inv
            <4>2. \A t \in Sessions : Follows(t, feedback)
                BY <4>1, FollowsShorter DEF LinesPending
            <4>3. \A i \in DOMAIN feedback : i \in DOMAIN Pending /\ Pending[i] = feedback[i]
                BY <4>1, LinesAppended
            <4> QED
                BY <4>2, <4>3 DEF LinesPending, FeedbackFollowsDecisions
        <3>2. CASE step.at # "feedback"
            BY <3>2 DEF LinesPending, Pending, FeedbackFollowsDecisions
        <3> QED
            BY <3>1, <3>2
    <2> QED
        BY <2>1, <2>2 DEF RecordsAgree
<1> QED
    BY <1>1, <1>2, <1>3, InvHolds, SpecGateInv, PTL DEF Spec

\* Every text commit_session writes that the source file did not have is one an
\* approving decision of the session let in, as proposed or as the user edited it:
\* no combination of changes, freedom level or rewritten source adds another.
THEOREM SpecTailoredIsLicensed == Spec => []TailoredIsLicensed
<1>1. Init => ResumesTyped /\ CommitsLicensed /\ TailoredLicensed
    BY InitLicensed
<1>2. /\ ResumesTyped /\ [Next]_vars => ResumesTyped'
      /\ Inv /\ GateInv /\ ResumesTyped /\ CommitsLicensed /\ TailoredLicensed /\ [Next]_vars
            => CommitsLicensed' /\ TailoredLicensed'
    BY NextResumesTyped, NextLicensed
<1>3. TailoredLicensed => TailoredIsLicensed
    BY LicensedMeansTailored
<1> QED
    BY <1>1, <1>2, <1>3, InvHolds, SpecGateInv, PTL DEF Spec

-----------------------------------------------------------------------------
(* Selection by score.                                                     *)

LEMMA StrictSubset ==
    ASSUME NEW S, IsFiniteSet(S), NEW T \in SUBSET S, NEW x \in S \ T
    PROVE  /\ Cardinality(T) \in Nat
           /\ Cardinality(S) \in Nat
           /\ Cardinality(T) < Cardinality(S)
<1>1. IsFiniteSet(T) /\ Cardinality(T) <= Cardinality(S) /\ Cardinality(S) # Cardinality(T)
    BY FS_Subset
<1>2. Cardinality(S) \in Nat /\ Cardinality(T) \in Nat
    BY <1>1, FS_CardinalityType
<1> QED
    BY <1>1, <1>2

Below(score, x) == {w \in DOMAIN score : score[w] < score[x]}

\* A smaller score has fewer items below it.
LEMMA BelowIsMonotone ==
    ASSUME NEW S, IsFiniteSet(S), NEW score \in [S -> Int], NEW x \in S, NEW y \in S
    PROVE  /\ IsFiniteSet(Below(score, x))
           /\ Cardinality(Below(score, x)) \in Nat
           /\ score[y] <= score[x] => Cardinality(Below(score, y)) <= Cardinality(Below(score, x))
           /\ score[y] < score[x] => Cardinality(Below(score, y)) < Cardinality(Below(score, x))
<1> DEFINE X == Below(score, x)
           Y == Below(score, y)
<1>1. X \in SUBSET S /\ Y \in SUBSET S
    BY DEF Below
<1>2. score[y] <= score[x] => Y \in SUBSET X
    BY DEF Below
<1>3. score[y] < score[x] => y \in X \ Y
    BY DEF Below
<1> HIDE DEF X, Y
<1>4. IsFiniteSet(X) /\ Cardinality(X) \in Nat
    BY <1>1, FS_Subset, FS_CardinalityType
<1>5. score[y] <= score[x] => Cardinality(Y) <= Cardinality(X)
    BY <1>2, <1>4, FS_Subset
<1>6. score[y] < score[x] => Cardinality(Y) < Cardinality(X)
    BY <1>2, <1>3, <1>4, StrictSubset
<1> QED
    BY <1>4, <1>5, <1>6 DEF X, Y

\* What is selected scores lower than what is not: what ties with the last one
\* selected is selected with it (_select_lowest_with_boundary_ties).
LEMMA SelectedAreLowest ==
    ASSUME NEW S, IsFiniteSet(S), NEW score \in [S -> Int], NEW count \in Nat,
           NEW x \in Selected(score, count), NEW y \in S \ Selected(score, count)
    PROVE  score[x] < score[y]
<1>1. x \in S /\ y \in S
    BY DEF Selected
<1>2. Cardinality(Below(score, x)) < count /\ ~(Cardinality(Below(score, y)) < count)
    BY <1>1 DEF Selected, Below
<1>3. /\ Cardinality(Below(score, x)) \in Nat
      /\ Cardinality(Below(score, y)) \in Nat
      /\ score[y] <= score[x] => Cardinality(Below(score, y)) <= Cardinality(Below(score, x))
    BY <1>1, BelowIsMonotone
<1> QED
    BY <1>1, <1>2, <1>3

\* Distinct numbers below a bound: at most that many items have one.
LEMMA AtMostCount ==
    ASSUME NEW U, NEW count \in Nat, NEW rank \in [U -> 0 .. count - 1],
           \A x, y \in U : rank[x] = rank[y] => x = y
    PROVE  IsFiniteSet(U) /\ Cardinality(U) <= count
<1>1. rank \in Injection(U, 0 .. count - 1)
    BY DEF Injection, IsInjective
<1>2. IsFiniteSet(0 .. count - 1) /\ Cardinality(0 .. count - 1) = count
    BY FS_Interval
<1> QED
    BY <1>1, <1>2, FS_Injection

\* A ranker asked for a number of items never cuts more of them: the items it
\* selects beyond the number all tie, and what ties is deferred.
THEOREM NeverOvercuts ==
    ASSUME NEW S, IsFiniteSet(S), NEW score \in [S -> Int], NEW count \in Nat
    PROVE  LET chosen == Selected(score, count)
           IN  Cardinality(chosen \ Tied(score, chosen)) <= count
<1> DEFINE chosen == Selected(score, count)
           U == chosen \ Tied(score, chosen)
           rank == [x \in U |-> Cardinality(Below(score, x))]
<1>1. U \subseteq S
    BY DEF Selected
<1>2. \A x \in U : Cardinality(Below(score, x)) \in Nat /\ Cardinality(Below(score, x)) < count
    BY <1>1, BelowIsMonotone DEF Selected, Below
<1>3. rank \in [U -> 0 .. count - 1]
    BY <1>2
<1>4. ASSUME NEW x \in U, NEW y \in U, x # y
      PROVE  rank[x] # rank[y]
    <2>1. score[x] # score[y]
        BY <1>4 DEF Tied
    <2>2. score[x] < score[y] \/ score[y] < score[x]
        BY <1>1, <2>1
    <2>3. /\ score[x] < score[y] => rank[x] < rank[y]
          /\ score[y] < score[x] => rank[y] < rank[x]
        BY <1>1, BelowIsMonotone
    <2>4. rank[x] \in Int /\ rank[y] \in Int
        BY <1>3
    <2> QED
        BY <2>2, <2>3, <2>4
<1> HIDE DEF rank, U
<1>5. \A x, y \in U : rank[x] = rank[y] => x = y
    BY <1>4
<1> QED
    BY <1>3, <1>5, AtMostCount DEF U

-----------------------------------------------------------------------------
(* Bullets: the lowest of a role, by score and then by position.           *)

\* The items of a role: distinct positions tell them apart.
OfOneRole(items) ==
    /\ IsFiniteSet(items)
    /\ \A p \in items : p.index \in Nat
    /\ \A p, q \in items : p.index = q.index => p = q

Preceding(score, items, p) == {q \in items : RankedBefore(score, q, p)}

\* Of two items of a role one is ranked before the other, and has fewer before it.
LEMMA RankingIsTotal ==
    ASSUME NEW S, NEW score \in [S -> Int], NEW items \in SUBSET S, OfOneRole(items),
           NEW p \in items, NEW q \in items
    PROVE  /\ Cardinality(Preceding(score, items, p)) \in Nat
           /\ p # q => RankedBefore(score, p, q) \/ RankedBefore(score, q, p)
           /\ RankedBefore(score, p, q) =>
                 Cardinality(Preceding(score, items, p)) < Cardinality(Preceding(score, items, q))
<1> DEFINE P == Preceding(score, items, p)
           Q == Preceding(score, items, q)
<1>1. P \in SUBSET items /\ Q \in SUBSET items
    BY DEF Preceding
<1>2. p # q => RankedBefore(score, p, q) \/ RankedBefore(score, q, p)
    BY DEF OfOneRole, RankedBefore
<1>3. ASSUME RankedBefore(score, p, q)
      PROVE  P \in SUBSET Q /\ p \in Q \ P
    BY <1>3 DEF OfOneRole, RankedBefore, Preceding
<1> HIDE DEF P, Q
<1>4. IsFiniteSet(P) /\ IsFiniteSet(Q) /\ Cardinality(P) \in Nat
    BY <1>1, FS_Subset, FS_CardinalityType DEF OfOneRole
<1>5. RankedBefore(score, p, q) => Cardinality(P) < Cardinality(Q)
    BY <1>3, <1>4, StrictSubset
<1> QED
    BY <1>2, <1>4, <1>5 DEF P, Q

\* What is chosen of a role scores no higher than what is not.
LEMMA ChosenAreLowest ==
    ASSUME NEW S, NEW score \in [S -> Int], NEW items \in SUBSET S, OfOneRole(items),
           NEW count \in Nat,
           NEW p \in Lowest(score, items, count), NEW q \in items \ Lowest(score, items, count)
    PROVE  score[p] <= score[q]
<1>1. p \in items /\ q \in items /\ p # q
    BY DEF Lowest
<1>2. /\ Cardinality(Preceding(score, items, p)) < count
      /\ ~(Cardinality(Preceding(score, items, q)) < count)
    BY <1>1 DEF Lowest, Preceding
<1>3. ~RankedBefore(score, q, p)
    <2> SUFFICES ASSUME RankedBefore(score, q, p) PROVE FALSE
        OBVIOUS
    <2>1. Cardinality(Preceding(score, items, q)) < Cardinality(Preceding(score, items, p))
        BY <1>1, RankingIsTotal
    <2>2. /\ Cardinality(Preceding(score, items, q)) \in Nat
          /\ Cardinality(Preceding(score, items, p)) \in Nat
        BY <1>1, RankingIsTotal
    <2> QED
        BY <1>2, <2>1, <2>2
<1>4. RankedBefore(score, p, q)
    BY <1>1, <1>3, RankingIsTotal
<1> QED
    BY <1>1, <1>4 DEF RankedBefore

\* A role never loses more bullets than the number its budget asks for.
THEOREM NeverOvercutsARole ==
    ASSUME NEW S, NEW score \in [S -> Int], NEW items \in SUBSET S, OfOneRole(items),
           NEW count \in Nat
    PROVE  Cardinality(Lowest(score, items, count)) <= count
<1> DEFINE U == Lowest(score, items, count)
           rank == [p \in U |-> Cardinality(Preceding(score, items, p))]
<1>1. U \subseteq items
    BY DEF Lowest
<1>2. \A p \in U : Cardinality(Preceding(score, items, p)) \in Nat
                   /\ Cardinality(Preceding(score, items, p)) < count
    BY <1>1, RankingIsTotal DEF Lowest, Preceding
<1>3. rank \in [U -> 0 .. count - 1]
    BY <1>2
<1>4. ASSUME NEW p \in U, NEW q \in U, p # q
      PROVE  rank[p] # rank[q]
    <2>1. rank[p] < rank[q] \/ rank[q] < rank[p]
        BY <1>1, <1>4, RankingIsTotal
    <2>2. rank[p] \in Int /\ rank[q] \in Int
        BY <1>3
    <2> QED
        BY <2>1, <2>2
<1> HIDE DEF rank, U
<1>5. \A p, q \in U : rank[p] = rank[q] => p = q
    BY <1>4
<1> QED
    BY <1>3, <1>5, AtMostCount DEF U

-----------------------------------------------------------------------------
(* The ranked work: what is to be cut of a list is the lowest of it.       *)

IsResume(doc) == \A f \in Lists : doc[f].items \in Seq(Seq(Word))

LEMMA RelevanceType ==
    ASSUME NEW index, NEW job \in Job, NEW text
    PROVE  Relevance(index, job, text) \in Nat
<1> DEFINE found == {t \in JobTerms[job] : TermInText(index, t, text)}
<1>1. IsFiniteSet(JobTerms[job]) /\ found \in SUBSET JobTerms[job]
    BY RankingAssumption, FitAssumption
<1> HIDE DEF found
<1>2. Cardinality(found) \in Nat
    BY <1>1, FS_Subset, FS_CardinalityType
<1> QED
    BY <1>2 DEF Relevance, found

LEMMA ScoreTypes ==
    ASSUME NEW doc, NEW job \in Job, NEW index
    PROVE  /\ \A i : SkillScore(doc, job, index, i) \in Int
           /\ \A p : BulletScore(doc, job, index, p) \in Int
<1>1. \A i : SkillScore(doc, job, index, i) \in Int
    BY DEF SkillScore, When
<1>2. ASSUME NEW p
      PROVE  BulletScore(doc, job, index, p) \in Int
    <2> DEFINE terms == Relevance(index, job, ItemAt(doc, p))
               worth == IF terms > 0 THEN AtMost(terms, 2) * 10 ELSE -12
    <2>1. terms \in Nat
        BY RelevanceType
    <2> HIDE DEF terms
    <2>2. worth \in Int
        BY <2>1 DEF AtMost
    <2> HIDE DEF worth
    <2> QED
        BY <2>2 DEF BulletScore, When, worth, terms
<1> QED
    BY <1>1, <1>2

\* The bullets of one role have distinct positions.
LEMMA BulletsOfOneRole ==
    ASSUME NEW doc, IsResume(doc), NEW r
    PROVE  OfOneRole({p \in BulletPaths(doc) : p.field = r})
<1> DEFINE items == {p \in BulletPaths(doc) : p.field = r}
<1>1. \A p \in items : r \in ToSet(Roles) /\ p.index \in DOMAIN doc[r].items /\ p = Path(r, p.index)
    BY DEF BulletPaths, Path
<1>2. CASE r \notin ToSet(Roles)
    <2>1. items = {}
        BY <1>1, <1>2
    <2> QED
        BY <2>1, FS_EmptySet DEF OfOneRole
<1>3. CASE r \in ToSet(Roles)
    <2> DEFINE n == Len(doc[r].items)
               at == [i \in 1 .. n |-> Path(r, i)]
    <2>1. doc[r].items \in Seq(Seq(Word))
        BY <1>3 DEF IsResume, Lists
    <2>2. n \in Nat /\ DOMAIN doc[r].items = 1 .. n
        BY <2>1
    <2>3. ASSUME NEW i \in 1 .. n
          PROVE  Path(r, i) \in items
        <3>1. Path(r, i) \in {Path(r, j) : j \in DOMAIN doc[r].items}
            BY <2>2
        <3>2. Path(r, i) \in BulletPaths(doc)
            BY <1>3, <3>1 DEF BulletPaths
        <3>3. Path(r, i).field = r
            BY DEF Path
        <3> QED
            BY <3>2, <3>3
    <2>4. \A p \in items : p.index \in 1 .. n /\ p = Path(r, p.index)
        BY <1>1, <2>2
    <2> HIDE DEF items, n
    <2>5. at \in Surjection(1 .. n, items)
        BY <2>3, <2>4 DEF Surjection
    <2>6. IsFiniteSet(items)
        BY <2>2, <2>5, FS_Interval, FS_Surjection
    <2>7. /\ \A p \in items : p.index \in Nat
          /\ \A p, q \in items : p.index = q.index => p = q
        BY <2>2, <2>4
    <2> QED
        BY <2>6, <2>7 DEF OfOneRole, items
<1> QED
    BY <1>2, <1>3

\* _rank_role_bullets: a bullet to cut scores lower than every bullet of its role
\* that is neither to cut nor deferred.
LEMMA RoleTrimsAreLowest ==
    ASSUME NEW doc, IsResume(doc), NEW job \in Job, NEW index, NEW r, NEW count \in Nat,
           NEW p, NEW q \in BulletPaths(doc), q.field = r,
           LET work == RankRoleBullets(doc, job, index, r, count)
           IN  p \in work.trim /\ q \notin work.trim \cup work.defer
    PROVE  BulletScore(doc, job, index, p) < BulletScore(doc, job, index, q)
<1> DEFINE S      == BulletPaths(doc)
           score  == [x \in S |-> BulletScore(doc, job, index, x)]
           items  == {x \in S : x.field = r}
           chosen == Lowest(score, items, count)
           tied   == Tied(score, S)
<1>1. score \in [S -> Int]
    BY ScoreTypes
<1>2. OfOneRole(items) /\ items \in SUBSET S
    BY BulletsOfOneRole
<1>3. RankRoleBullets(doc, job, index, r, count) =
            [trim |-> chosen \ tied, defer |-> chosen \cap tied]
    BY DEF RankRoleBullets
<1>4. p \in chosen /\ p \notin tied /\ q \notin chosen
    BY <1>3
<1>5. q \in items /\ p \in items /\ p \in S
    BY <1>4 DEF Lowest
<1>6. score[p] <= score[q]
    <2> HIDE DEF score, items, S
    <2> QED
        BY <1>1, <1>2, <1>4, <1>5, ChosenAreLowest
<1>7. score[p] # score[q]
    BY <1>4, <1>5 DEF Tied
<1>8. score[p] = BulletScore(doc, job, index, p) /\ score[q] = BulletScore(doc, job, index, q)
    BY <1>5
<1>9. score[p] \in Int /\ score[q] \in Int
    BY <1>1, <1>5
<1> QED
    BY <1>6, <1>7, <1>8, <1>9

\* rank_skills: the same of skills.
LEMMA SkillTrimsAreLowest ==
    ASSUME NEW doc, IsResume(doc), NEW job \in Job, NEW index, NEW count \in Nat,
           NEW p, NEW i \in DOMAIN doc[SkillsField].items,
           LET work == RankSkills(doc, job, index, count)
           IN  p \in work.trim /\ Path(SkillsField, i) \notin work.trim \cup work.defer
    PROVE  SkillScore(doc, job, index, p.index) < SkillScore(doc, job, index, i)
<1> DEFINE S      == DOMAIN doc[SkillsField].items
           score  == [x \in S |-> SkillScore(doc, job, index, x)]
           chosen == Selected(score, count)
<1>1. score \in [S -> Int]
    BY ScoreTypes
<1>2. IsFiniteSet(S)
    <2>1. doc[SkillsField].items \in Seq(Seq(Word))
        BY DEF IsResume, Lists
    <2>2. S = 1 .. Len(doc[SkillsField].items) /\ Len(doc[SkillsField].items) \in Nat
        BY <2>1
    <2> QED
        BY <2>2, FS_Interval
<1>3. RankSkills(doc, job, index, count) =
            [trim  |-> {Path(SkillsField, x) : x \in chosen \ Tied(score, chosen)},
             defer |-> {Path(SkillsField, x) : x \in Tied(score, chosen)}]
    BY DEF RankSkills
<1>4. p.index \in chosen /\ i \notin chosen
    <2> HIDE DEF score, chosen
    <2>1. PICK x \in chosen \ Tied(score, chosen) : p = Path(SkillsField, x)
        BY <1>3
    <2>2. p.index = x
        BY <2>1 DEF Path
    <2>3. i \notin chosen \ Tied(score, chosen) /\ i \notin Tied(score, chosen)
        BY <1>3
    <2> QED
        BY <2>1, <2>2, <2>3
<1>5. p.index \in S /\ i \in S
    BY <1>4 DEF Selected
<1>6. score[p.index] < score[i]
    <2> HIDE DEF score, S
    <2> QED
        BY <1>1, <1>2, <1>4, <1>5, SelectedAreLowest
<1> QED
    BY <1>5, <1>6

\* Whatever is to be cut of a list scores lower than whatever of it is neither to
\* be cut nor deferred.
LowestCut(doc, job, index, trims, deferred) ==
    \A f \in Lists : \A p \in trims : \A i \in DOMAIN doc[f].items :
        p.field = f /\ Path(f, i) \notin trims \cup deferred =>
            ScoreOf(doc, job, index, p) < ScoreOf(doc, job, index, Path(f, i))

LEMMA OverageType ==
    ASSUME NEW doc, IsResume(doc)
    PROVE  /\ SkillsOver(doc) \in Nat
           /\ \A r \in ToSet(Roles) : BulletsOver(doc, r) \in Nat
<1>1. Budget.skills \in Nat \cup {NoLimit} /\ Budget.bullets \in Nat \cup {NoLimit}
    BY RankingAssumption
<1>2. \A f \in Lists : Len(doc[f].items) \in Nat
    BY DEF IsResume
<1> QED
    BY <1>1, <1>2 DEF SkillsOver, BulletsOver, Overage, Lists, NoLimit

LEMMA SkillWork ==
    ASSUME NEW doc, NEW job, NEW index, NEW count,
           NEW p \in RankSkills(doc, job, index, count).trim
                     \cup RankSkills(doc, job, index, count).defer
    PROVE  p.field = SkillsField
<1> DEFINE score  == [i \in DOMAIN doc[SkillsField].items |-> SkillScore(doc, job, index, i)]
           chosen == Selected(score, count)
           tied   == Tied(score, chosen)
<1>1. RankSkills(doc, job, index, count) =
            [trim  |-> {Path(SkillsField, i) : i \in chosen \ tied},
             defer |-> {Path(SkillsField, i) : i \in tied}]
    BY DEF RankSkills
<1> HIDE DEF chosen, tied
<1>2. PICK i : p = Path(SkillsField, i)
    BY <1>1
<1> QED
    BY <1>2 DEF Path

\* The ranking of build_perfect, with whatever else it defers, cuts the lowest.
LEMMA TrimsAreLowest ==
    ASSUME NEW doc, IsResume(doc), NEW job \in Job, NEW index, NEW others
    PROVE  LET work     == BudgetWork(doc, job, index)
               deferred == work.defer \cup others
           IN  LowestCut(doc, job, index, Trims(work, deferred), deferred)
<1> DEFINE skills   == RankSkills(doc, job, index, SkillsOver(doc))
           entries  == RankExperience(doc, job, index, EntriesOver(doc))
           ByRole   == { RankRoleBullets(doc, job, index, Roles[k], 1) : k \in entries.compress }
                       \cup { RankRoleBullets(doc, job, index, r, BulletsOver(doc, r)) :
                                r \in ToSet(Roles) }
           work     == BudgetWork(doc, job, index)
           deferred == work.defer \cup others
           trims    == Trims(work, deferred)
<1>1. work = [trim  |-> skills.trim \cup UNION {b.trim : b \in ByRole},
              defer |-> skills.defer \cup UNION {b.defer : b \in ByRole},
              roles |-> entries.defer]
    BY DEF BudgetWork
<1>2. \A p \in skills.trim \cup skills.defer : p.field = SkillsField
    BY SkillWork
<1>3. \A b \in ByRole : \E r \in ToSet(Roles) \cup {Roles[k] : k \in entries.compress} :
          \E n \in Nat : b = RankRoleBullets(doc, job, index, r, n)
    BY OverageType
<1>4. \A k \in entries.compress : Roles[k] \in ToSet(Roles)
    <2>1. entries.compress \subseteq DOMAIN Roles
        BY DEF RankExperience, Selected
    <2> QED
        BY <2>1 DEF ToSet
<1>5. \A r, n : \A p \in RankRoleBullets(doc, job, index, r, n).trim : p.field = r
    BY DEF RankRoleBullets, Lowest
<1> HIDE DEF skills, entries, ByRole, work
<1>6. /\ trims = (skills.trim \cup UNION {b.trim : b \in ByRole}) \ deferred
      /\ skills.defer \subseteq deferred
      /\ \A b \in ByRole : b.defer \subseteq deferred
    BY <1>1 DEF Trims
<1> HIDE DEF trims, deferred
<1>7. SUFFICES ASSUME NEW f \in Lists, NEW p \in trims, NEW i \in DOMAIN doc[f].items,
                      p.field = f, Path(f, i) \notin trims \cup deferred
               PROVE  ScoreOf(doc, job, index, p) < ScoreOf(doc, job, index, Path(f, i))
    BY DEF LowestCut, trims, deferred, work
<1>8. Path(f, i).field = f /\ Path(f, i).index = i
    BY DEF Path
<1>9. CASE p \in skills.trim
    <2>1. f = SkillsField
        BY <1>2, <1>7, <1>9
    <2>2. Path(f, i) \notin skills.trim \cup skills.defer
        BY <1>6, <1>7
    <2>3. SkillScore(doc, job, index, p.index) < SkillScore(doc, job, index, i)
        BY <1>7, <1>9, <2>1, <2>2, OverageType, SkillTrimsAreLowest DEF skills
    <2> QED
        BY <1>7, <1>8, <2>1, <2>3 DEF ScoreOf
<1>10. CASE p \notin skills.trim
    <2>1. PICK b \in ByRole : p \in b.trim
        BY <1>6, <1>7, <1>10
    <2>2. PICK r \in ToSet(Roles), n \in Nat : b = RankRoleBullets(doc, job, index, r, n)
        BY <1>3, <1>4
    <2>3. r = f /\ f # SkillsField
        BY <1>5, <1>7, <2>1, <2>2, RankingAssumption
    <2>4. Path(f, i) \in BulletPaths(doc)
        <3>1. Path(f, i) \in {Path(f, j) : j \in DOMAIN doc[f].items}
            BY <1>7
        <3> QED
            BY <2>2, <2>3, <3>1 DEF BulletPaths
    <2>5. Path(f, i) \notin b.trim \cup b.defer
        BY <1>6, <1>7, <2>1
    <2>6. BulletScore(doc, job, index, p) < BulletScore(doc, job, index, Path(f, i))
        BY <1>8, <2>1, <2>2, <2>3, <2>4, <2>5, RoleTrimsAreLowest
    <2> QED
        BY <1>7, <1>8, <2>3, <2>6 DEF ScoreOf
<1> QED
    BY <1>9, <1>10

\* The ledger of a fit names all cuts of a list or none, so what it says was
\* dropped scores lower than what was kept.
LEMMA LedgerKeepsOrder ==
    ASSUME NEW source, NEW job, NEW index, NEW trims, NEW deferred, NEW applied,
           LowestCut(source, job, index, trims, deferred),
           NEW f \in Lists,
           NEW e \in FitLedger(source, applied, trims), e.fate = "dropped", e.path.field = f,
           NEW i \in DOMAIN source[f].items, Path(f, i) \notin deferred,
           \A d \in FitLedger(source, applied, trims) :
               d.fate = "dropped" /\ d.path.field = f => d.path # Path(f, i)
    PROVE  ScoreOf(source, job, index, e.path) < ScoreOf(source, job, index, Path(f, i))
<1> DEFINE Entry(p) == [path |-> p, token |-> ItemAt(source, p), fate |-> "dropped"]
<1>1. \A p \in Dropped(applied, trims) : Entry(p) \in FitLedger(source, applied, trims)
    BY DEF FitLedger
<1>2. PICK p \in Dropped(applied, trims) : e = Entry(p)
    BY DEF FitLedger
<1>3. p \in trims /\ p = e.path
      /\ \E c \in applied : c.action = "remove" /\ c.path.field = f
    BY <1>2 DEF Dropped
<1>4. Path(f, i) \notin trims
    <2> SUFFICES ASSUME Path(f, i) \in trims PROVE FALSE
        OBVIOUS
    <2>1. Path(f, i).field = f
        BY DEF Path
    <2>2. Path(f, i) \in Dropped(applied, trims)
        BY <1>3, <2>1 DEF Dropped
    <2>3. Entry(Path(f, i)) \in FitLedger(source, applied, trims)
        BY <1>1, <2>2
    <2> QED
        BY <2>1, <2>3
<1> QED
    BY <1>3, <1>4 DEF LowestCut

-----------------------------------------------------------------------------
(* The call: what it ranked is what it writes.                             *)

\* A session drawn for the active job.
OfActiveJob(s) == "job" \in DOMAIN s /\ s.job = config.job

\* The inductive invariant.  A fit holds the cuts it ranked, lowest first by the
\* aliases in force, which its commit does not change; the session it commits is
\* the one opened for its job.
FitInv ==
    /\ config.resume \in Resume \cup {NoDocument}
    /\ config.job \in Job \cup {NoDocument}
    /\ \A r \in Resume : resumes[r] \in Revisions[r]
    /\ step.at = "resolve" => {"at", "session"} \subseteq DOMAIN step /\ OfActiveJob(step.session)
    /\ step.at = "grow" => step.project = aliases /\ OfActiveJob(step.commit.session)
    /\ step.at = "write_tailored" => OfActiveJob(step.commit.session)
    /\ fit # NoFit => /\ "at" \in DOMAIN fit
                      /\ LowestCut(fit.source, config.job, GateIndex, fit.trims, fit.deferred)
    /\ fit.at \in {"decide", "commit", "write"} => OfActiveJob(session)
    /\ CutsAreTheLowest

LEMMA FitInitEstablishesInv == FitInit => FitInv
<1> SUFFICES ASSUME FitInit PROVE FitInv
    OBVIOUS
<1>1. /\ config.resume \in Resume \cup {NoDocument}
      /\ config.job \in Job \cup {NoDocument}
      /\ \A r \in Resume : resumes[r] \in Revisions[r]
    BY DEF FitInit, Init
<1>2. step.at = "idle" /\ fit = NoFit /\ fit.at = "idle"
    BY DEF FitInit, Init, Idle, NoFit
<1>3. CutsAreTheLowest
    BY DEF FitInit, CutsAreTheLowest
<1> QED
    BY <1>1, <1>2, <1>3 DEF FitInv

\* The final file and the index stay: so does what was said of them.
LEMMA FinalStays ==
    ASSUME CutsAreTheLowest, final' = final, GateIndex' = GateIndex
    PROVE  CutsAreTheLowest'
    BY DEF CutsAreTheLowest, Entries, Score

LEMMA GateIndexStays ==
    ASSUME config' = config, aliases' = aliases
    PROVE  GateIndex' = GateIndex
    BY DEF GateIndex

LEMMA StartFitKeepsInv ==
    ASSUME FitInv, NEW evidence, NEW fitMode, StartFit(evidence, fitMode)
    PROVE  FitInv'
<1> DEFINE doc       == resumes[config.resume]
           work      == BudgetWork(doc, config.job, GateIndex)
           long      == TooLong(doc)
           compressed == ItemsAt(long, {i \in DOMAIN long :
                                 ClaimPreserving(doc, long[i], WordLimit(long[i]), evidence)})
           deferred  == work.defer \cup (ToSet(long) \ ToSet(compressed))
           trims     == Trims(work, deferred)
<1>1. /\ config.resume \in Resume
      /\ config.job \in Job
      /\ UNCHANGED <<config, resumes, aliases, final>>
      /\ step' = [at |-> "resolve", session |-> step'.session, records |-> <<>>,
                  todo |-> step'.todo]
      /\ step'.session.job = config.job /\ "job" \in DOMAIN step'.session
    BY DEF StartFit, OpenSession, NewSession, FitInv
<1>2. /\ fit'.at = "open" /\ "at" \in DOMAIN fit'
      /\ fit'.source = doc /\ fit'.trims = trims /\ fit'.deferred = deferred
    <2> DEFINE auto      == fitMode = "auto"
               proposals == FitProposals(doc, trims, compressed)
    <2>1. PICK answers \in IF auto THEN {<<>>} ELSE [DOMAIN proposals -> FitAnswers] :
              fit' = [at |-> "open", auto |-> auto, source |-> doc,
                      trims |-> trims, deferred |-> deferred, roles |-> work.roles,
                      todo |-> answers, answers |-> answers]
        BY Zenon DEF StartFit
    <2> HIDE DEF doc, work, long, compressed, deferred, trims, proposals, auto
    <2> QED
        BY <2>1
<1>3. IsResume(doc)
    BY <1>1, FitAssumption DEF FitInv, IsResume, Lists
<1>4. GateIndex' = GateIndex
    BY <1>1, GateIndexStays
<1>5. LowestCut(doc, config.job, GateIndex, trims, deferred)
    BY <1>1, <1>3, TrimsAreLowest
<1> HIDE DEF doc, trims, deferred
<1>6. LowestCut(fit.source, config.job, GateIndex, fit.trims, fit.deferred)'
    BY <1>1, <1>2, <1>4, <1>5
<1>7. CutsAreTheLowest'
    BY <1>1, <1>4, FinalStays DEF FitInv
<1>8. step'.at = "resolve" /\ {"at", "session"} \subseteq DOMAIN step'
    BY <1>1
<1> QED
    BY <1>1, <1>2, <1>6, <1>7, <1>8 DEF FitInv, OfActiveJob

LEMMA AutoResolveKeepsFitInv ==
    ASSUME FitInv, AutoResolve, UNCHANGED <<fit, final>>
    PROVE  FitInv'
<1>1. /\ UNCHANGED <<config, resumes, session, aliases, fit, final>>
      /\ step.at = "resolve" /\ {"at", "session"} \subseteq DOMAIN step
      /\ OfActiveJob(step.session)
    BY DEF AutoResolve, files, FitInv
<1>2. \A s, c : OfActiveJob(s) => OfActiveJob(AutoResolved(s, c))
    BY DEF OfActiveJob, AutoResolved, WithDecision
<1>3. /\ step'.at = "resolve" /\ {"at", "session"} \subseteq DOMAIN step'
      /\ \/ step'.session = step.session
         \/ step'.session = AutoResolved(step.session, Head(step.todo))
    BY <1>1 DEF AutoResolve
<1>4. OfActiveJob(step'.session)
    BY <1>1, <1>2, <1>3
<1>5. GateIndex' = GateIndex
    BY <1>1, GateIndexStays
<1>6. CutsAreTheLowest'
    BY <1>1, <1>5, FinalStays DEF FitInv
<1> QED
    BY <1>1, <1>3, <1>4, <1>5, <1>6 DEF FitInv, OfActiveJob

LEMMA FitOpenedKeepsInv ==
    ASSUME FitInv, FitOpened
    PROVE  FitInv'
<1>1. /\ UNCHANGED <<config, resumes, aliases, final>>
      /\ fit.at = "open" /\ fit # NoFit
      /\ session' = step.session /\ step' = Idle
      /\ OfActiveJob(step.session)
    BY DEF FitOpened, FitInv, NoFit
<1>2. /\ "at" \in DOMAIN fit' /\ fit'.source = fit.source
      /\ fit'.trims = fit.trims /\ fit'.deferred = fit.deferred
    BY <1>1 DEF FitOpened, FitInv
<1>3. step'.at = "idle" /\ GateIndex' = GateIndex
    BY <1>1, GateIndexStays DEF Idle
<1>4. CutsAreTheLowest'
    BY <1>1, <1>3, FinalStays DEF FitInv
<1> QED
    BY <1>1, <1>2, <1>3, <1>4 DEF FitInv, OfActiveJob

LEMMA FitDecideKeepsInv ==
    ASSUME FitInv, FitDecide
    PROVE  FitInv'
<1>1. /\ UNCHANGED <<config, resumes, aliases, step, final>>
      /\ fit.at = "decide" /\ fit # NoFit
      /\ OfActiveJob(session)
    BY DEF FitDecide, FitInv, NoFit
<1>2. /\ "at" \in DOMAIN fit' /\ fit'.source = fit.source /\ fit'.at = "decide"
      /\ fit'.trims = fit.trims /\ fit'.deferred = fit.deferred
    BY <1>1 DEF FitDecide, FitInv
<1>3. \A s, c, action, content :
          OfActiveJob(s) => OfActiveJob(WithDecision(s, c, action, content))
    BY DEF OfActiveJob, WithDecision
<1>4. OfActiveJob(session')
    BY <1>1, <1>3 DEF FitDecide
<1>5. GateIndex' = GateIndex
    BY <1>1, GateIndexStays
<1>6. CutsAreTheLowest'
    BY <1>1, <1>5, FinalStays DEF FitInv
<1> QED
    BY <1>1, <1>2, <1>4, <1>5, <1>6 DEF FitInv, OfActiveJob

LEMMA FitCommitKeepsInv ==
    ASSUME FitInv, FitCommit
    PROVE  FitInv'
<1>1. /\ UNCHANGED <<config, resumes, session, aliases, final>>
      /\ fit.at \in {"commit", "decide"} /\ fit # NoFit
      /\ step' = [at |-> "grow", project |-> aliases, todo |-> step'.todo,
                  commit |-> [doc |-> step'.commit.doc, source |-> step'.commit.source,
                              session |-> session]]
    BY DEF FitCommit, CommitSession, files, NoFit
<1>2. /\ "at" \in DOMAIN fit' /\ fit'.source = fit.source /\ fit'.at = "write"
      /\ fit'.trims = fit.trims /\ fit'.deferred = fit.deferred
    BY <1>1 DEF FitCommit, FitInv
<1>3. step'.at = "grow" /\ step'.project = aliases /\ step'.commit.session = session
    BY <1>1
<1>4. GateIndex' = GateIndex
    BY <1>1, GateIndexStays
<1>5. CutsAreTheLowest'
    BY <1>1, <1>4, FinalStays DEF FitInv
<1> QED
    BY <1>1, <1>2, <1>3, <1>4, <1>5 DEF FitInv, OfActiveJob

LEMMA FitWritesKeepInv ==
    ASSUME FitInv, WriteAliases \/ WriteTailored, UNCHANGED <<fit, final>>
    PROVE  FitInv'
<1>1. UNCHANGED <<config, resumes, aliases, fit, final>>
    BY DEF WriteAliases, WriteTailored, FitInv
<1>2. GateIndex' = GateIndex
    BY <1>1, GateIndexStays
<1>3. CutsAreTheLowest'
    BY <1>1, <1>2, FinalStays DEF FitInv
<1>4. CASE WriteAliases
    <2>1. /\ step'.at = "write_tailored" /\ step'.commit = step.commit
          /\ OfActiveJob(step.commit.session) /\ UNCHANGED session
        BY <1>4 DEF WriteAliases, FitInv
    <2> QED
        BY <1>1, <1>2, <1>3, <2>1 DEF FitInv, OfActiveJob
<1>5. CASE WriteTailored
    <2>1. step'.at = "idle" /\ session' = step.commit.session /\ OfActiveJob(step.commit.session)
        BY <1>5 DEF WriteTailored, FitInv, Idle
    <2> QED
        BY <1>1, <1>2, <1>3, <2>1 DEF FitInv, OfActiveJob
<1> QED
    BY <1>4, <1>5

LEMMA WriteFinalKeepsInv ==
    ASSUME FitInv, WriteFinal
    PROVE  FitInv'
<1> DEFINE applied == ToSet(AcceptedChanges(session))
<1>1. /\ UNCHANGED <<config, resumes, session, aliases, step>>
      /\ fit # NoFit /\ fit' = NoFit /\ fit'.at = "idle"
      /\ session.job = config.job
      /\ LowestCut(fit.source, config.job, GateIndex, fit.trims, fit.deferred)
    BY DEF WriteFinal, FitInv, NoFit, vars, OfActiveJob
<1>2. /\ final'.source = fit.source
      /\ final'.deferred = fit.deferred
      /\ final'.job = config.job
      /\ final'.ledger = FitLedger(fit.source, applied, fit.trims)
    BY <1>1 DEF WriteFinal
<1> HIDE DEF applied
<1>3. GateIndex' = GateIndex
    BY <1>1, GateIndexStays
<1>4. CutsAreTheLowest'
    <2> SUFFICES ASSUME NEW f \in Lists,
                        NEW e \in final'.ledger, e.fate = "dropped", e.path.field = f,
                        NEW i \in DOMAIN final'.source[f].items,
                        Path(f, i) \notin final'.deferred,
                        \A d \in final'.ledger :
                            d.fate = "dropped" /\ d.path.field = f => d.path # Path(f, i)
                 PROVE  ScoreOf(final'.source, final'.job, GateIndex', e.path)
                            < ScoreOf(final'.source, final'.job, GateIndex', Path(f, i))
        BY DEF CutsAreTheLowest, Entries, Score
    <2> QED
        BY <1>1, <1>2, <1>3, LedgerKeepsOrder
<1> QED
    BY <1>1, <1>3, <1>4 DEF FitInv, OfActiveJob

LEMMA StopFitKeepsInv ==
    ASSUME FitInv, StopFit
    PROVE  FitInv'
<1>1. /\ UNCHANGED <<config, resumes, session, aliases, final>>
      /\ fit' = NoFit /\ fit'.at = "idle" /\ step'.at = "idle"
    BY DEF StopFit, files, NoFit, Idle
<1>2. GateIndex' = GateIndex
    BY <1>1, GateIndexStays
<1>3. CutsAreTheLowest'
    BY <1>1, <1>2, FinalStays DEF FitInv
<1> QED
    BY <1>1, <1>3 DEF FitInv

LEMMA FitStepKeepsInv == FitInv /\ [FitNext]_fitVars => FitInv'
<1> SUFFICES ASSUME FitInv, [FitNext]_fitVars PROVE FitInv'
    OBVIOUS
<1>1. CASE \E evidence \in Evidence, fitMode \in FitModes : StartFit(evidence, fitMode)
    BY <1>1, StartFitKeepsInv
<1>2. CASE AutoResolve /\ UNCHANGED <<fit, final>>
    BY <1>2, AutoResolveKeepsFitInv
<1>3. CASE FitOpened
    BY <1>3, FitOpenedKeepsInv
<1>4. CASE FitDecide
    BY <1>4, FitDecideKeepsInv
<1>5. CASE FitCommit
    BY <1>5, FitCommitKeepsInv
<1>6. CASE (WriteAliases \/ WriteTailored) /\ UNCHANGED <<fit, final>>
    BY <1>6, FitWritesKeepInv
<1>7. CASE WriteFinal
    BY <1>7, WriteFinalKeepsInv
<1>8. CASE StopFit
    BY <1>8, StopFitKeepsInv
<1>9. CASE UNCHANGED fitVars
    <2>1. UNCHANGED <<config, resumes, session, aliases, step, fit, final>>
        BY <1>9 DEF fitVars, vars
    <2>2. GateIndex' = GateIndex
        BY <2>1, GateIndexStays
    <2>3. CutsAreTheLowest'
        BY <2>1, <2>2, FinalStays DEF FitInv
    <2> QED
        BY <2>1, <2>2, <2>3 DEF FitInv, OfActiveJob
<1> QED
    BY <1>1, <1>2, <1>3, <1>4, <1>5, <1>6, <1>7, <1>8, <1>9 DEF FitNext

\* Whatever the resume, the budgets and the answers, a final file only lacks items
\* that scored lower than every item kept in their list that was not deferred.
THEOREM SpecCutsAreTheLowest == FitSpec => []CutsAreTheLowest
<1>1. FitInv => CutsAreTheLowest
    BY DEF FitInv
<1> QED
    BY <1>1, FitInitEstablishesInv, FitStepKeepsInv, PTL DEF FitSpec

-----------------------------------------------------------------------------
(* Selecting and joining without repetition.                               *)

Distinct(s) == \A i, j \in DOMAIN s : s[i] = s[j] => i = j

\* A set whose elements are all equal has one at most.
LEMMA OneAtMost ==
    ASSUME NEW S, \A x, y \in S : x = y
    PROVE  IsFiniteSet(S) /\ Cardinality(S) <= 1
<1>1. CASE S = {}
    <2>1. IsFiniteSet(S) /\ Cardinality(S) = 0
        BY <1>1, FS_EmptySet
    <2> QED
        BY <2>1
<1>2. CASE S # {}
    <2>1. PICK x : S = {x}
        BY <1>2
    <2>2. IsFiniteSet(S) /\ Cardinality(S) = 1
        BY <2>1, FS_Singleton
    <2> QED
        BY <2>2
<1> QED
    BY <1>1, <1>2

LEMMA TwoAtLeast ==
    ASSUME NEW S, IsFiniteSet(S), NEW x \in S, NEW y \in S, x # y
    PROVE  Cardinality(S) >= 2
<1>1. {x, y} \in SUBSET S
    OBVIOUS
<1>2. Cardinality({x, y}) = 2
    <2>1. IsFiniteSet({x}) /\ Cardinality({x}) = 1
        BY FS_Singleton
    <2>2. {x} \cup {y} = {x, y} /\ y \notin {x}
        OBVIOUS
    <2> QED
        BY <2>1, <2>2, FS_AddElement
<1>3. Cardinality({x, y}) <= Cardinality(S) /\ Cardinality(S) \in Nat
    BY <1>1, FS_Subset, FS_CardinalityType
<1> QED
    BY <1>2, <1>3

LEMMA ItemsAtDistinct ==
    ASSUME NEW X, NEW s \in Seq(X), NEW I, Distinct(s)
    PROVE  Distinct(ItemsAt(s, I))
<1> DEFINE out == ItemsAt(s, I)
<1>1. out \in Seq(X)
    BY ItemsAtMembers
<1>2. \A K : HowMany(out, K) = Cardinality({i \in DOMAIN s \cap I : s[i] \in K})
    BY ItemsAtCounts
<1> HIDE DEF out
<1>3. SUFFICES ASSUME NEW i \in DOMAIN out, NEW j \in DOMAIN out, out[i] = out[j], i # j
               PROVE  FALSE
    BY DEF Distinct, out
<1> DEFINE K == {out[i]}
<1>4. Cardinality({k \in DOMAIN s \cap I : s[k] \in K}) <= 1
    <2>1. \A k, l \in {k \in DOMAIN s \cap I : s[k] \in K} : k = l
        BY DEF Distinct
    <2> QED
        BY <2>1, OneAtMost
<1>5. HowMany(out, K) >= 2
    <2>1. IsFiniteSet({k \in DOMAIN out : out[k] \in K})
        BY <1>1, HowManyType
    <2>2. i \in {k \in DOMAIN out : out[k] \in K} /\ j \in {k \in DOMAIN out : out[k] \in K}
        BY <1>3
    <2> QED
        BY <1>3, <2>1, <2>2, TwoAtLeast DEF HowMany
<1>6. HowMany(out, K) \in Nat /\ HowMany(out, K) = Cardinality({k \in DOMAIN s \cap I : s[k] \in K})
    BY <1>1, <1>2, HowManyType
<1> HIDE DEF K
<1> QED
    BY <1>4, <1>5, <1>6

LEMMA JoinDistinct ==
    ASSUME NEW X, NEW s \in Seq(X), NEW t \in Seq(X), Distinct(s), Distinct(t),
           \A i \in DOMAIN s, j \in DOMAIN t : s[i] # t[j]
    PROVE  Distinct(s \o t)
<1>1. /\ s \o t \in Seq(X) /\ Len(s \o t) = Len(s) + Len(t)
      /\ \A i \in DOMAIN (s \o t) :
             (s \o t)[i] = IF i <= Len(s) THEN s[i] ELSE t[i - Len(s)]
    BY JoinedItems
<1>2. Len(s) \in Nat /\ Len(t) \in Nat /\ DOMAIN (s \o t) = 1 .. Len(s) + Len(t)
      /\ DOMAIN s = 1 .. Len(s) /\ DOMAIN t = 1 .. Len(t)
    BY <1>1
<1>3. SUFFICES ASSUME NEW i \in 1 .. Len(s) + Len(t), NEW j \in 1 .. Len(s) + Len(t),
                      (s \o t)[i] = (s \o t)[j]
               PROVE  i = j
    BY <1>2 DEF Distinct
<1>4. CASE i <= Len(s) /\ j <= Len(s)
    <2>1. s[i] = s[j] /\ i \in DOMAIN s /\ j \in DOMAIN s
        BY <1>1, <1>2, <1>3, <1>4
    <2> QED
        BY <2>1 DEF Distinct
<1>5. CASE i > Len(s) /\ j > Len(s)
    <2>1. t[i - Len(s)] = t[j - Len(s)] /\ i - Len(s) \in DOMAIN t /\ j - Len(s) \in DOMAIN t
        BY <1>1, <1>2, <1>3, <1>5
    <2>2. i - Len(s) = j - Len(s)
        BY <2>1 DEF Distinct
    <2> QED
        BY <1>2, <2>2
<1>6. CASE i <= Len(s) /\ j > Len(s)
    <2>1. s[i] = t[j - Len(s)] /\ i \in DOMAIN s /\ j - Len(s) \in DOMAIN t
        BY <1>1, <1>2, <1>3, <1>6
    <2> QED
        BY <2>1
<1>7. CASE i > Len(s) /\ j <= Len(s)
    <2>1. t[i - Len(s)] = s[j] /\ i - Len(s) \in DOMAIN t /\ j \in DOMAIN s
        BY <1>1, <1>2, <1>3, <1>7
    <2> QED
        BY <2>1
<1> QED
    BY <1>2, <1>4, <1>5, <1>6, <1>7

-----------------------------------------------------------------------------
(* What a fit proposes.                                                    *)

\* A resume as the schema gives it to the fit.
IsSource(doc) ==
    /\ doc \in [DOMAIN doc -> Value]
    /\ Lists \cup {SummaryField} \subseteq DOMAIN doc
    /\ doc[SummaryField] \in [words : Seq(Word)]
    /\ \A f \in Lists : doc[f] \in [items : Seq(Seq(Word))]
    /\ \A f \in Lists : \A i \in DOMAIN doc[f].items : doc[f].items[i] # <<>>

LEMMA FieldClasses ==
    /\ SummaryField \notin Lists
    /\ Lists \cup {SummaryField} \subseteq Field
    /\ \A f \in Lists : IsListField(f)
    /\ ~IsListField(SummaryField)
<1>1. /\ FieldClass[SummaryField] = "summary"
      /\ FieldClass[SkillsField] = "skills"
      /\ \A f \in ToSet(Roles) : FieldClass[f] = "experience"
    BY FitAssumption
<1> QED
    BY <1>1, RankingAssumption DEF Lists, IsListField

LEMMA RevisionIsSource ==
    ASSUME NEW r \in Resume, NEW doc \in Revisions[r]
    PROVE  IsSource(doc)
<1>1. /\ doc \in [DOMAIN doc -> Value]
      /\ Lists \cup {SummaryField} \subseteq DOMAIN doc
      /\ doc[SummaryField] \in [words : Seq(Word)]
      /\ \A f \in Lists : doc[f] \in [items : Seq(Seq(Word))]
      /\ ValidateResume(doc) = doc
    BY RevisionAssumption, FitAssumption DEF Lists
<1>2. ASSUME NEW f \in Lists, NEW i \in DOMAIN doc[f].items
      PROVE  doc[f].items[i] # <<>>
    <2> DEFINE items == doc[f].items
    <2>1. items \in Seq(Seq(Word)) /\ doc[f] = List(items) /\ f \in DOMAIN doc
        BY <1>1 DEF List
    <2>2. Coerce(f, doc[f]) = doc[f]
        <3>1. ValidateResume(doc)[f] = Coerce(f, doc[f])
            BY <2>1 DEF ValidateResume
        <3> QED
            BY <1>1, <3>1
    <2>3. Coerce(f, doc[f]) = List(NonEmptyItems(items))
        <3>1. IsListField(f) /\ IsList(doc[f]) /\ ~IsText(doc[f])
            BY <1>2, <2>1, FieldClasses, ValuesMade
        <3>2. doc[f] # Null
            BY <1>1, <2>1, <3>1, ValueForms
        <3> QED
            BY <3>1, <3>2 DEF Coerce
    <2>4. NonEmptyItems(items) = items
        BY <2>1, <2>2, <2>3 DEF List
    <2>5. ToSet(NonEmptyItems(items))
            = {items[j] : j \in DOMAIN items \cap {j \in DOMAIN items : items[j] # <<>>}}
        <3> HIDE DEF items
        <3> QED
            BY <2>1, ItemsAtMembers DEF NonEmptyItems
    <2>6. items[i] \in ToSet(items)
        BY <1>2 DEF ToSet
    <2> QED
        BY <2>4, <2>5, <2>6
<1> QED
    BY <1>1, <1>2 DEF IsSource

LongPaths(doc) ==
    {p \in {Path(SummaryField, 0)} : SummaryOver(doc) # 0}
    \cup {p \in BulletPaths(doc) : BulletOver(doc, p) > 0}

FitPaths == [field : Field, index : Nat]

LongOfRole(doc, r) ==
    LET paths == [i \in DOMAIN doc[r].items |-> Path(r, i)]
    IN  ItemsAt(paths, {i \in DOMAIN paths : BulletOver(doc, paths[i]) > 0})

LEMMA LongOfRoleIsLong ==
    ASSUME NEW doc, IsSource(doc), NEW r \in ToSet(Roles)
    PROVE  /\ LongOfRole(doc, r) \in Seq(FitPaths)
           /\ Distinct(LongOfRole(doc, r))
           /\ ToSet(LongOfRole(doc, r)) = {p \in LongPaths(doc) : p.field = r}
<1> DEFINE items == doc[r].items
           paths == [i \in DOMAIN items |-> Path(r, i)]
           I     == {i \in DOMAIN paths : BulletOver(doc, paths[i]) > 0}
<1>1. items \in Seq(Seq(Word)) /\ r \in Lists /\ r \in Field /\ r # SummaryField
    BY FieldClasses DEF IsSource, Lists
<1>2. DOMAIN items = 1 .. Len(items) /\ Len(items) \in Nat
    BY <1>1
<1>3. paths \in Seq(FitPaths)
    <2>1. \A i \in 1 .. Len(items) : Path(r, i) \in FitPaths
        BY <1>1, <1>2 DEF Path, FitPaths
    <2> QED
        BY <1>2, <2>1
<1>4. Distinct(paths)
    BY DEF Distinct, Path
<1>5. LongOfRole(doc, r) = ItemsAt(paths, I)
    BY DEF LongOfRole
<1>6. {paths[i] : i \in DOMAIN paths \cap I} = {p \in LongPaths(doc) : p.field = r}
    <2>1. ASSUME NEW i \in I PROVE paths[i] \in LongPaths(doc) /\ paths[i].field = r
        <3>1. paths[i] = Path(r, i) /\ i \in DOMAIN doc[r].items /\ BulletOver(doc, Path(r, i)) > 0
            BY <2>1
        <3>2. Path(r, i) \in BulletPaths(doc)
            BY <3>1 DEF BulletPaths
        <3> QED
            BY <3>1, <3>2 DEF LongPaths, Path
    <2>2. ASSUME NEW p \in LongPaths(doc), p.field = r
          PROVE  \E i \in DOMAIN paths \cap I : paths[i] = p
        <3>1. p \in BulletPaths(doc) /\ BulletOver(doc, p) > 0
            BY <1>1, <2>2 DEF LongPaths, Path
        <3>2. PICK q \in ToSet(Roles) : p \in {Path(q, i) : i \in DOMAIN doc[q].items}
            BY <3>1 DEF BulletPaths
        <3>3. PICK i \in DOMAIN doc[q].items : p = Path(q, i)
            BY <3>2
        <3>4. q = r
            BY <2>2, <3>3 DEF Path
        <3>5. i \in DOMAIN paths /\ paths[i] = p
            BY <3>3, <3>4
        <3> QED
            BY <3>1, <3>5
    <2> HIDE DEF paths, I
    <2> QED
        BY <2>1, <2>2
<1> HIDE DEF paths, I
<1>7. /\ ItemsAt(paths, I) \in Seq(FitPaths)
      /\ ToSet(ItemsAt(paths, I)) = {paths[i] : i \in DOMAIN paths \cap I}
    BY <1>3, ItemsAtMembers
<1>8. Distinct(ItemsAt(paths, I))
    BY <1>3, <1>4, ItemsAtDistinct
<1> QED
    BY <1>5, <1>6, <1>7, <1>8

\* Joining sequences whose items belong to different owners repeats nothing.
LEMMA FlattenDistinct ==
    ASSUME NEW X, NEW seqs \in Seq(Seq(X)), NEW owner \in Seq(Field), Distinct(owner),
           Len(owner) = Len(seqs),
           \A k \in DOMAIN seqs : Distinct(seqs[k]) /\
               \A i \in DOMAIN seqs[k] : seqs[k][i].field = owner[k]
    PROVE  Distinct(FlattenSeq(seqs))
<1>1. PICK h : JoiningRun(h, seqs) /\ FlattenSeq(seqs) = h[Len(seqs)]
    BY FlattenSeqRun
<1> DEFINE n == Len(seqs)
           Good(k) == /\ h[k] \in Seq(X)
                      /\ Distinct(h[k])
                      /\ \A i \in DOMAIN h[k] : \E j \in 1 .. k : h[k][i].field = owner[j]
           good == {k \in 0 .. n : Good(k)}
<1>2. n \in Nat /\ DOMAIN seqs = 1 .. n /\ DOMAIN owner = 1 .. n
    OBVIOUS
<1>3. 0 \in good
    <2>1. h[0] = <<>>
        BY <1>1 DEF JoiningRun
    <2>2. <<>> \in Seq(X) /\ Distinct(<<>>) /\ DOMAIN <<>> = {}
        BY DEF Distinct
    <2>3. Good(0)
        BY <2>1, <2>2
    <2> QED
        BY <1>2, <2>3
<1>4. \A k \in 1 .. n : k - 1 \in good => k \in good
    <2> TAKE k \in 1 .. n
    <2> HAVE k - 1 \in good
    <2>0. /\ h[k - 1] \in Seq(X)
          /\ Distinct(h[k - 1])
          /\ \A i \in DOMAIN h[k - 1] : \E j \in 1 .. k - 1 : h[k - 1][i].field = owner[j]
        OBVIOUS
    <2>1. k \in 0 .. n /\ (k \in good <=> Good(k))
        BY <1>2
    <2> HIDE DEF good
    <2>2. h[k] = h[k - 1] \o seqs[k] /\ seqs[k] \in Seq(X)
        <3>1. seqs[k] \in Seq(X)
            BY <1>2
        <3> QED
            BY <1>1, <3>1 DEF JoiningRun
    <2>3. \A i \in DOMAIN seqs[k] : seqs[k][i].field = owner[k]
        BY <1>2
    <2>4. \A i \in DOMAIN h[k - 1], j \in DOMAIN seqs[k] : h[k - 1][i] # seqs[k][j]
        <3> TAKE i \in DOMAIN h[k - 1], j \in DOMAIN seqs[k]
        <3>1. PICK l \in 1 .. k - 1 : h[k - 1][i].field = owner[l]
            BY <2>0
        <3>2. l \in DOMAIN owner /\ k \in DOMAIN owner /\ l # k
            BY <1>2
        <3>3. owner[l] # owner[k]
            BY <3>2 DEF Distinct
        <3> QED
            BY <2>3, <3>1, <3>3
    <2>5. Distinct(h[k - 1] \o seqs[k])
        BY <1>2, <2>0, <2>2, <2>4, JoinDistinct
    <2> DEFINE a == h[k - 1]
               b == seqs[k]
               c == h[k]
    <2>6. a \in Seq(X) /\ b \in Seq(X) /\ c = a \o b
        BY <2>0, <2>2
    <2>7. /\ \A i \in DOMAIN a : \E j \in 1 .. k - 1 : a[i].field = owner[j]
          /\ \A i \in DOMAIN b : b[i].field = owner[k]
        BY <2>0, <2>3
    <2>8. c \in Seq(X) /\ \A i \in DOMAIN c : \E j \in 1 .. k : c[i].field = owner[j]
        <3> HIDE DEF a, b, c
        <3>1. /\ a \o b \in Seq(X)
              /\ Len(a \o b) = Len(a) + Len(b)
              /\ \A i \in DOMAIN (a \o b) : (a \o b)[i] = IF i <= Len(a) THEN a[i] ELSE b[i - Len(a)]
            BY <2>6, JoinedItems
        <3>2. ASSUME NEW i \in DOMAIN c PROVE \E j \in 1 .. k : c[i].field = owner[j]
            <4>1. /\ i \in Nat /\ Len(a) \in Nat
                  /\ i <= Len(a) => i \in DOMAIN a /\ c[i] = a[i]
                  /\ i > Len(a) => i - Len(a) \in DOMAIN b /\ c[i] = b[i - Len(a)]
                BY <2>6, <3>1, <3>2
            <4>2. CASE i <= Len(a)
                <5>1. PICK j \in 1 .. k - 1 : a[i].field = owner[j]
                    BY <2>7, <4>1, <4>2
                <5> QED
                    BY <1>2, <4>1, <4>2, <5>1
            <4>3. CASE i > Len(a)
                <5>1. k \in 1 .. k
                    BY <1>2
                <5> QED
                    BY <2>7, <4>1, <4>3, <5>1
            <4> QED
                BY <4>1, <4>2, <4>3
        <3> QED
            BY <2>6, <3>1, <3>2
    <2> QED
        BY <2>1, <2>2, <2>5, <2>8
<1>5. n \in good
    <2> HIDE DEF good, n
    <2> QED
        BY <1>2, <1>3, <1>4, StepsUp
<1> QED
    BY <1>1, <1>5

LEMMA LongTexts ==
    ASSUME NEW doc, IsSource(doc)
    PROVE  /\ TooLong(doc) \in Seq(FitPaths)
           /\ Distinct(TooLong(doc))
           /\ ToSet(TooLong(doc)) = LongPaths(doc)
<1> DEFINE first == IF SummaryOver(doc) = 0 THEN <<>> ELSE <<Path(SummaryField, 0)>>
           seqs  == [k \in DOMAIN Roles |-> LongOfRole(doc, Roles[k])]
           rest  == FlattenSeq(seqs)
<1>1. TooLong(doc) = first \o rest
    BY DEF TooLong, LongOfRole
<1>2. Roles \in Seq(Field) /\ Distinct(Roles) /\ DOMAIN Roles = 1 .. Len(Roles) /\ Len(Roles) \in Nat
    BY RankingAssumption DEF Distinct
<1>3. \A k \in DOMAIN Roles :
          /\ seqs[k] \in Seq(FitPaths)
          /\ Distinct(seqs[k])
          /\ ToSet(seqs[k]) = {p \in LongPaths(doc) : p.field = Roles[k]}
    <2> TAKE k \in DOMAIN Roles
    <2>1. Roles[k] \in ToSet(Roles)
        BY DEF ToSet
    <2> QED
        BY <2>1, LongOfRoleIsLong
<1>4. seqs \in Seq(Seq(FitPaths)) /\ DOMAIN seqs = DOMAIN Roles /\ Len(seqs) = Len(Roles)
    BY <1>2, <1>3
<1> HIDE DEF seqs
<1>5. \A k \in DOMAIN seqs : \A i \in DOMAIN seqs[k] : seqs[k][i].field = Roles[k]
    <2> TAKE k \in DOMAIN seqs
    <2> TAKE i \in DOMAIN seqs[k]
    <2>1. seqs[k][i] \in ToSet(seqs[k])
        BY DEF ToSet
    <2> QED
        BY <1>3, <1>4, <2>1
<1>6. rest \in Seq(FitPaths) /\ Distinct(rest)
    <2>1. Distinct(rest)
        BY <1>2, <1>3, <1>4, <1>5, FlattenDistinct
    <2> QED
        BY <1>4, <2>1, FlattenSeqMembers
<1>7. \A i \in DOMAIN rest : \E k \in DOMAIN Roles :
          rest[i] \in LongPaths(doc) /\ rest[i].field = Roles[k]
    <2> TAKE i \in DOMAIN rest
    <2>1. PICK k \in DOMAIN seqs : rest[i] \in ToSet(seqs[k])
        BY <1>4, FlattenSeqMembers
    <2> QED
        BY <1>3, <1>4, <2>1
<1>8. ASSUME NEW p \in LongPaths(doc), NEW k \in DOMAIN Roles, p.field = Roles[k]
      PROVE  \E i \in DOMAIN rest : rest[i] = p
    <2>1. p \in ToSet(seqs[k]) /\ k \in DOMAIN seqs
        BY <1>3, <1>4, <1>8
    <2>2. PICK i \in DOMAIN seqs[k] : seqs[k][i] = p
        BY <2>1 DEF ToSet
    <2>3. Inside(seqs[k], rest)
        BY <1>4, <2>1, FlattenSeqBlocks
    <2>4. PICK b \in Nat : b + Len(seqs[k]) <= Len(rest)
                           /\ \A j \in 1 .. Len(seqs[k]) : rest[b + j] = seqs[k][j]
        BY <2>3 DEF Inside
    <2>5. i \in 1 .. Len(seqs[k]) /\ Len(seqs[k]) \in Nat
        BY <1>3, <2>1, <2>2
    <2>6. b + i \in 1 .. Len(rest) /\ rest[b + i] = p
        BY <1>6, <2>2, <2>4, <2>5
    <2> QED
        BY <1>6, <2>6
<1> HIDE DEF rest
<1>9. /\ first \in Seq(FitPaths)
      /\ Distinct(first)
      /\ \A i \in DOMAIN first : first[i] = Path(SummaryField, 0) /\ SummaryOver(doc) # 0
      /\ SummaryOver(doc) # 0 => 1 \in DOMAIN first /\ first[1] = Path(SummaryField, 0)
    <2>1. Path(SummaryField, 0) \in FitPaths
        BY FieldClasses DEF Path, FitPaths
    <2> QED
        BY <2>1 DEF Distinct
<1> HIDE DEF first
<1>10. SummaryField \notin ToSet(Roles) /\ Path(SummaryField, 0).field = SummaryField
    BY FieldClasses DEF Lists, Path
<1>11. \A i \in DOMAIN first, j \in DOMAIN rest : first[i] # rest[j]
    BY <1>7, <1>9, <1>10 DEF ToSet
<1>12. Distinct(first \o rest)
    BY <1>6, <1>9, <1>11, JoinDistinct
<1>13. /\ first \o rest \in Seq(FitPaths) /\ Len(first \o rest) = Len(first) + Len(rest)
       /\ \A i \in DOMAIN (first \o rest) :
              (first \o rest)[i] = IF i <= Len(first) THEN first[i] ELSE rest[i - Len(first)]
    BY <1>6, <1>9, JoinedItems
<1>14. ToSet(first \o rest) = LongPaths(doc)
    <2>0. /\ Len(first) \in Nat /\ Len(rest) \in Nat /\ DOMAIN first = 1 .. Len(first)
          /\ DOMAIN rest = 1 .. Len(rest) /\ DOMAIN (first \o rest) = 1 .. Len(first) + Len(rest)
        BY <1>6, <1>9, <1>13
    <2>1. ASSUME NEW i \in DOMAIN (first \o rest) PROVE (first \o rest)[i] \in LongPaths(doc)
        <3>1. CASE i <= Len(first)
            <4>1. i \in DOMAIN first
                BY <2>0, <2>1, <3>1
            <4> QED
                BY <1>9, <1>13, <2>1, <3>1, <4>1 DEF LongPaths
        <3>2. CASE i > Len(first)
            <4>1. i - Len(first) \in DOMAIN rest /\ (first \o rest)[i] = rest[i - Len(first)]
                BY <1>13, <2>0, <2>1, <3>2
            <4> QED
                BY <1>7, <4>1
        <3> QED
            BY <2>0, <2>1, <3>1, <3>2
    <2>2. ASSUME NEW p \in LongPaths(doc) PROVE p \in ToSet(first \o rest)
        <3>1. CASE p = Path(SummaryField, 0) /\ SummaryOver(doc) # 0
            <4>1. 1 \in DOMAIN first /\ first[1] = p
                BY <1>9, <3>1
            <4>2. 1 \in DOMAIN (first \o rest) /\ (first \o rest)[1] = p
                BY <1>13, <2>0, <4>1
            <4> QED
                BY <4>2 DEF ToSet
        <3>2. CASE p \in BulletPaths(doc)
            <4>1. PICK r \in ToSet(Roles) : p \in {Path(r, i) : i \in DOMAIN doc[r].items}
                BY <3>2 DEF BulletPaths
            <4>2. p.field = r
                BY <4>1 DEF Path
            <4>3. PICK k \in DOMAIN Roles : Roles[k] = r
                BY <4>1 DEF ToSet
            <4>4. PICK i \in DOMAIN rest : rest[i] = p
                BY <1>8, <2>2, <4>2, <4>3
            <4>5. Len(first) + i \in DOMAIN (first \o rest) /\ (first \o rest)[Len(first) + i] = p
                BY <1>13, <2>0, <4>4
            <4> QED
                BY <4>5 DEF ToSet
        <3> QED
            BY <2>2, <3>1, <3>2 DEF LongPaths
    <2> QED
        BY <2>1, <2>2 DEF ToSet
<1> QED
    BY <1>1, <1>12, <1>13, <1>14 DEF rest, seqs

\* The positions of the items of the lists of a resume.
Positions(doc) == UNION {{Path(f, i) : i \in DOMAIN doc[f].items} : f \in Lists}

\* What there is to shorten: the texts of a resume.
LEMMA LongPathsAreTexts ==
    ASSUME NEW doc, IsSource(doc), NEW p \in LongPaths(doc)
    PROVE  /\ p \in FitPaths
           /\ p.field \in Lists \cup {SummaryField}
           /\ p.field = SummaryField => p = Path(SummaryField, 0) /\ SummaryOver(doc) # 0
           /\ p.field \in Lists =>
                 /\ p.index \in DOMAIN doc[p.field].items
                 /\ p.index \in Nat \ {0}
                 /\ p = Path(p.field, p.index)
                 /\ p.field \in ToSet(Roles)
                 /\ BulletOver(doc, p) > 0
                 /\ ValueAt(doc, p).words = doc[p.field].items[p.index]
           /\ ValueAt(doc, p) \in Value
           /\ IsText(ValueAt(doc, p))
           /\ ValueAt(doc, p).words \in Seq(Word)
<1>1. CASE p = Path(SummaryField, 0) /\ SummaryOver(doc) # 0
    <2>1. ValueAt(doc, p) = doc[SummaryField]
        BY <1>1 DEF ValueAt, Path
    <2>2. doc[SummaryField] \in [words : Seq(Word)]
        BY DEF IsSource
    <2>3. doc[SummaryField] \in Value /\ IsText(doc[SummaryField]) /\ doc[SummaryField].words \in Seq(Word)
        BY <2>2 DEF Value, IsText
    <2>4. p.field = SummaryField /\ p.index = 0 /\ p \in FitPaths
        BY <1>1, FieldClasses DEF Path, FitPaths
    <2> QED
        BY <1>1, <2>1, <2>3, <2>4, FieldClasses
<1>2. CASE p \in BulletPaths(doc) /\ BulletOver(doc, p) > 0
    <2>1. PICK r \in ToSet(Roles) : p \in {Path(r, i) : i \in DOMAIN doc[r].items}
        BY <1>2 DEF BulletPaths
    <2>2. PICK i \in DOMAIN doc[r].items : p = Path(r, i)
        BY <2>1
    <2>3. p.field = r /\ p.index = i
        BY <2>2 DEF Path
    <2>4. r \in Lists /\ r \in Field /\ r # SummaryField
        BY FieldClasses DEF Lists
    <2>5. doc[r].items \in Seq(Seq(Word))
        BY <2>4 DEF IsSource
    <2>6. i \in Nat \ {0} /\ doc[r].items[i] \in Seq(Word)
        BY <2>2, <2>5
    <2>7. ValueAt(doc, p) = Text(doc[r].items[i])
        BY <2>3, <2>6 DEF ValueAt
    <2>8. Text(doc[r].items[i]) \in Value /\ IsText(Text(doc[r].items[i]))
          /\ Text(doc[r].items[i]).words = doc[r].items[i]
        BY <2>6, ValuesMade
    <2>9. p \in FitPaths
        BY <2>2, <2>4, <2>6 DEF Path, FitPaths
    <2> QED
        BY <1>2, <2>1, <2>2, <2>3, <2>4, <2>6, <2>7, <2>8, <2>9
<1> QED
    BY <1>1, <1>2 DEF LongPaths

LEMMA ShortenedWords ==
    ASSUME NEW w \in Seq(Word)
    PROVE  /\ Shortened(w) \in Seq(Word)
           /\ ToSet(Shortened(w)) \subseteq ToSet(w)
           /\ Tokens(w) \ Filler \subseteq Tokens(Shortened(w))
<1> DEFINE I == {i \in DOMAIN w : Surface[w[i]] \notin Filler}
           out == ItemsAt(w, I)
<1>1. out \in Seq(Word) /\ ToSet(out) = {w[i] : i \in DOMAIN w \cap I}
    BY ItemsAtMembers
<1>2. Shortened(w) = out
    BY DEF Shortened
<1>3. \A i \in I : \E j \in DOMAIN out : out[j] = w[i]
    <2> HIDE DEF out
    <2> TAKE i \in I
    <2>1. w[i] \in ToSet(out)
        BY <1>1
    <2> QED
        BY <2>1 DEF ToSet
<1> HIDE DEF out
<1>4. Tokens(w) \ Filler \subseteq Tokens(out)
    <2> SUFFICES ASSUME NEW i \in DOMAIN w, Surface[w[i]] \notin Filler
                 PROVE  Surface[w[i]] \in Tokens(out)
        BY DEF Tokens
    <2>1. PICK j \in DOMAIN out : out[j] = w[i]
        BY <1>3
    <2> QED
        BY <2>1 DEF Tokens
<1>5. ToSet(out) \subseteq ToSet(w)
    BY <1>1 DEF ToSet
<1> QED
    BY <1>1, <1>2, <1>4, <1>5

Cuts(doc, trims, c) ==
    \E f \in Lists : Named(doc, f, trims) # {} /\ c = Removal(doc, f, trims)
Shortens(doc, C, c) == \E p \in C : c = Compression(doc, p)

\* The proposals of a fit: one removal per list that loses items, then one
\* compression per text to shorten.
Proposes(doc, trims, C, changes) ==
    /\ changes \in Seq(Change)
    /\ \A i \in DOMAIN changes : Cuts(doc, trims, changes[i]) \/ Shortens(doc, C, changes[i])
    /\ \A i, j \in DOMAIN changes :
          i < j => /\ changes[i].path # changes[j].path
                   /\ changes[j].action = "remove" => changes[i].action = "remove"
    /\ \A f \in Lists : Named(doc, f, trims) # {} =>
          \E i \in DOMAIN changes : changes[i] = Removal(doc, f, trims)
    /\ \A p \in C : \E i \in DOMAIN changes : changes[i] = Compression(doc, p)

LEMMA RemovalIsChange ==
    ASSUME NEW doc, IsSource(doc), NEW f \in Lists, NEW trims
    PROVE  LET c == Removal(doc, f, trims)
           IN  /\ c \in Change
               /\ c.action = "remove"
               /\ c.path = Path(f, 0) /\ c.path.field = f /\ c.path.index = 0
               /\ c.original = doc[f]
               /\ IsList(c.value)
               /\ c.value.items = ItemsAt(doc[f].items, Named(doc, f, trims))
               /\ c.value.items \in Seq(Seq(Word))
<1> DEFINE out == ItemsAt(doc[f].items, Named(doc, f, trims))
<1>1. doc[f] \in [items : Seq(Seq(Word))] /\ f \in Field
    BY FieldClasses DEF IsSource
<1>2. doc[f] \in Value /\ doc[f].items \in Seq(Seq(Word))
    BY <1>1 DEF Value
<1>3. out \in Seq(Seq(Word))
    BY <1>2, ItemsAtMembers
<1> HIDE DEF out
<1>4. List(out) \in Value /\ IsList(List(out)) /\ List(out).items = out
    BY <1>3, ValuesMade
<1>5. Removal(doc, f, trims) = [path |-> Path(f, 0), action |-> "remove", original |-> doc[f],
                                value |-> List(out), terminology |-> FALSE]
    BY DEF Removal, Proposed, out
<1>6. Path(f, 0) \in [field : Field, index : Nat] /\ Path(f, 0).field = f /\ Path(f, 0).index = 0
    BY <1>1 DEF Path
<1> QED
    BY <1>2, <1>3, <1>4, <1>5, <1>6 DEF Change, Action, out

LEMMA CompressionIsChange ==
    ASSUME NEW doc, IsSource(doc), NEW p \in LongPaths(doc)
    PROVE  LET c == Compression(doc, p)
           IN  /\ c \in Change
               /\ c.action = "replace"
               /\ c.path = p
               /\ c.original = ValueAt(doc, p)
               /\ IsText(c.value)
               /\ c.value.words = Shortened(ValueAt(doc, p).words)
<1> DEFINE w == ValueAt(doc, p).words
<1>1. p \in FitPaths /\ ValueAt(doc, p) \in Value /\ w \in Seq(Word)
    BY LongPathsAreTexts
<1>2. Shortened(w) \in Seq(Word)
    BY <1>1, ShortenedWords
<1>3. Compression(doc, p) = [path |-> p, action |-> "replace", original |-> ValueAt(doc, p),
                             value |-> Text(Shortened(w)), terminology |-> FALSE]
    BY DEF Compression, Proposed
<1> HIDE DEF w
<1>4. Text(Shortened(w)) \in Value /\ IsText(Text(Shortened(w))) /\ Text(Shortened(w)).words = Shortened(w)
    BY <1>2, ValuesMade
<1> QED
    BY <1>1, <1>3, <1>4 DEF Change, Action, FitPaths, w

LEMMA AllLists ==
    LET lists == <<SkillsField>> \o Roles
    IN  /\ lists \in Seq(Field)
        /\ Distinct(lists)
        /\ \A f : f \in Lists <=> \E k \in DOMAIN lists : lists[k] = f
<1> DEFINE one == <<SkillsField>>
           lists == one \o Roles
<1>1. /\ one \in Seq(Field) /\ Len(one) = 1 /\ DOMAIN one = {1} /\ one[1] = SkillsField
      /\ Distinct(one)
    BY RankingAssumption DEF Distinct
<1>2. Roles \in Seq(Field) /\ Distinct(Roles) /\ DOMAIN Roles = 1 .. Len(Roles) /\ Len(Roles) \in Nat
    BY RankingAssumption DEF Distinct
<1>3. \A i \in DOMAIN one, j \in DOMAIN Roles : one[i] # Roles[j]
    BY <1>1, RankingAssumption DEF ToSet
<1> HIDE DEF one
<1>4. /\ lists \in Seq(Field) /\ Len(lists) = Len(one) + Len(Roles)
      /\ \A i \in DOMAIN lists : lists[i] = IF i <= Len(one) THEN one[i] ELSE Roles[i - Len(one)]
    BY <1>1, <1>2, JoinedItems
<1>5. Distinct(lists)
    BY <1>1, <1>2, <1>3, JoinDistinct
<1>6. DOMAIN lists = 1 .. 1 + Len(Roles) /\ lists[1] = SkillsField
      /\ \A i \in 2 .. 1 + Len(Roles) : lists[i] = Roles[i - 1]
    BY <1>1, <1>2, <1>4
<1> HIDE DEF lists
<1>7. \A f : f \in Lists <=> \E k \in DOMAIN lists : lists[k] = f
    <2> TAKE f
    <2>1. ASSUME f \in Lists PROVE \E k \in DOMAIN lists : lists[k] = f
        <3>1. CASE f = SkillsField
            <4>1. 1 \in DOMAIN lists
                BY <1>2, <1>6
            <4> QED
                BY <1>6, <3>1, <4>1
        <3>2. CASE f \in ToSet(Roles)
            <4>1. PICK i \in DOMAIN Roles : Roles[i] = f
                BY <3>2 DEF ToSet
            <4>2. i + 1 \in 2 .. 1 + Len(Roles) /\ i + 1 \in DOMAIN lists /\ (i + 1) - 1 = i
                BY <1>2, <1>6, <4>1
            <4> QED
                BY <1>6, <4>1, <4>2
        <3> QED
            BY <2>1, <3>1, <3>2 DEF Lists
    <2>2. ASSUME NEW k \in DOMAIN lists, lists[k] = f PROVE f \in Lists
        <3>1. CASE k = 1
            BY <1>6, <2>2, <3>1 DEF Lists
        <3>2. CASE k # 1
            <4>1. k \in 2 .. 1 + Len(Roles) /\ k - 1 \in DOMAIN Roles
                BY <1>2, <1>6, <2>2, <3>2
            <4>2. f = Roles[k - 1]
                BY <1>6, <2>2, <4>1
            <4> QED
                BY <4>1, <4>2 DEF Lists, ToSet
        <3> QED
            BY <3>1, <3>2
    <2> QED
        BY <2>1, <2>2
<1> QED
    BY <1>4, <1>5, <1>7 DEF lists, one

LEMMA FitProposes ==
    ASSUME NEW doc, IsSource(doc), NEW trims \in SUBSET Positions(doc),
           NEW compressed \in Seq(FitPaths), Distinct(compressed),
           ToSet(compressed) \subseteq LongPaths(doc)
    PROVE  Proposes(doc, trims, ToSet(compressed) \ trims, FitProposals(doc, trims, compressed))
<1> DEFINE lists == <<SkillsField>> \o Roles
           K     == {k \in DOMAIN lists : \E p \in trims : p.field = lists[k]}
           cut   == ItemsAt(lists, K)
           J     == {i \in DOMAIN compressed : compressed[i] \notin trims}
           kept  == ItemsAt(compressed, J)
           C     == ToSet(compressed) \ trims
           s     == [i \in DOMAIN cut |-> Removal(doc, cut[i], trims)]
           t     == [i \in DOMAIN kept |-> Compression(doc, kept[i])]
<1>1. FitProposals(doc, trims, compressed) = s \o t
    BY DEF FitProposals
<1>2. /\ lists \in Seq(Field) /\ Distinct(lists)
      /\ \A f : f \in Lists <=> \E k \in DOMAIN lists : lists[k] = f
    BY AllLists
<1>3. \A f \in Lists : Named(doc, f, trims) # {} <=> \E p \in trims : p.field = f
    <2> TAKE f \in Lists
    <2>1. ASSUME NEW p \in trims, p.field = f PROVE Named(doc, f, trims) # {}
        <3>1. PICK g \in Lists : p \in {Path(g, i) : i \in DOMAIN doc[g].items}
            BY <2>1 DEF Positions
        <3>2. PICK i \in DOMAIN doc[g].items : p = Path(g, i)
            BY <3>1
        <3>3. g = f
            BY <2>1, <3>2 DEF Path
        <3> QED
            BY <2>1, <3>2, <3>3 DEF Named
    <2>2. ASSUME NEW i \in Named(doc, f, trims) PROVE \E p \in trims : p.field = f
        <3>1. Path(f, i) \in trims /\ Path(f, i).field = f
            BY <2>2 DEF Named, Path
        <3> QED
            BY <3>1
    <2> QED
        BY <2>1, <2>2
<1> HIDE DEF lists
<1>4. /\ cut \in Seq(Field) /\ Distinct(cut)
      /\ ToSet(cut) = {lists[k] : k \in DOMAIN lists \cap K}
    <2> HIDE DEF K
    <2> QED
        BY <1>2, ItemsAtMembers, ItemsAtDistinct
<1>5. ToSet(cut) = {f \in Lists : Named(doc, f, trims) # {}}
    BY <1>2, <1>3, <1>4
<1>6. /\ kept \in Seq(FitPaths) /\ Distinct(kept)
      /\ ToSet(kept) = {compressed[k] : k \in DOMAIN compressed \cap J}
    <2> HIDE DEF J
    <2> QED
        BY ItemsAtMembers, ItemsAtDistinct
<1>7. ToSet(kept) = C
    BY <1>6 DEF ToSet
<1> HIDE DEF cut, kept, K, J
<1>8. \A i \in DOMAIN cut : cut[i] \in Lists /\ Named(doc, cut[i], trims) # {}
    BY <1>5 DEF ToSet
<1>9. \A i \in DOMAIN kept : kept[i] \in C /\ kept[i] \in LongPaths(doc)
    BY <1>7 DEF ToSet
<1>10. /\ s \in Seq(Change) /\ DOMAIN s = DOMAIN cut /\ Len(s) \in Nat /\ DOMAIN s = 1 .. Len(s)
       /\ \A i \in DOMAIN s : s[i] = Removal(doc, cut[i], trims)
    <2>1. \A i \in DOMAIN cut : Removal(doc, cut[i], trims) \in Change
        BY <1>8, RemovalIsChange
    <2>2. DOMAIN cut = 1 .. Len(cut) /\ Len(cut) \in Nat
        BY <1>4
    <2> QED
        BY <2>1, <2>2
<1>11. /\ t \in Seq(Change) /\ DOMAIN t = DOMAIN kept /\ Len(t) \in Nat /\ DOMAIN t = 1 .. Len(t)
       /\ \A i \in DOMAIN t : t[i] = Compression(doc, kept[i])
    <2>1. \A i \in DOMAIN kept : Compression(doc, kept[i]) \in Change
        BY <1>9, CompressionIsChange
    <2>2. DOMAIN kept = 1 .. Len(kept) /\ Len(kept) \in Nat
        BY <1>6
    <2> QED
        BY <2>1, <2>2
<1>12. \A i \in DOMAIN s : /\ Cuts(doc, trims, s[i]) /\ s[i].action = "remove"
                           /\ s[i].path.field = cut[i] /\ s[i].path.index = 0
    <2> TAKE i \in DOMAIN s
    <2>1. s[i] = Removal(doc, cut[i], trims) /\ cut[i] \in Lists /\ Named(doc, cut[i], trims) # {}
        BY <1>8, <1>10
    <2>2. Cuts(doc, trims, s[i])
        BY <2>1 DEF Cuts
    <2> QED
        BY <2>1, <2>2, RemovalIsChange
<1>13. \A i \in DOMAIN t : /\ Shortens(doc, C, t[i]) /\ t[i].action = "replace"
                           /\ t[i].path = kept[i]
    <2> TAKE i \in DOMAIN t
    <2>1. t[i] = Compression(doc, kept[i]) /\ kept[i] \in C /\ kept[i] \in LongPaths(doc)
        BY <1>9, <1>11
    <2>2. Shortens(doc, C, t[i])
        BY <2>1 DEF Shortens
    <2> QED
        BY <2>1, <2>2, CompressionIsChange
<1>14. \A i, j \in DOMAIN s : i # j => s[i].path # s[j].path
    <2> TAKE i, j \in DOMAIN s
    <2> HAVE i # j
    <2>1. cut[i] # cut[j]
        BY <1>4, <1>10 DEF Distinct
    <2> QED
        BY <1>12, <2>1
<1>15. \A i, j \in DOMAIN t : i # j => t[i].path # t[j].path
    BY <1>6, <1>11, <1>13 DEF Distinct
\* A removal is of a whole list, a compression of the summary or of one item.
<1>16. \A i \in DOMAIN s, j \in DOMAIN t : s[i].path # t[j].path
    <2> TAKE i \in DOMAIN s, j \in DOMAIN t
    <2>1. s[i].path.field \in Lists /\ s[i].path.index = 0
        BY <1>8, <1>10, <1>12
    <2>2. t[j].path \in LongPaths(doc)
        BY <1>9, <1>11, <1>13
    <2>3. t[j].path.field \in Lists => t[j].path.index # 0
        BY <2>2, LongPathsAreTexts
    <2> QED
        BY <2>1, <2>3
<1>17. \A f \in Lists : Named(doc, f, trims) # {} => \E i \in DOMAIN s : s[i] = Removal(doc, f, trims)
    <2> TAKE f \in Lists
    <2> HAVE Named(doc, f, trims) # {}
    <2>1. PICK i \in DOMAIN cut : cut[i] = f
        BY <1>5 DEF ToSet
    <2> QED
        BY <1>10, <2>1
<1>18. \A p \in C : \E i \in DOMAIN t : t[i] = Compression(doc, p)
    <2> TAKE p \in C
    <2>1. PICK i \in DOMAIN kept : kept[i] = p
        BY <1>7 DEF ToSet
    <2> QED
        BY <1>11, <2>1
<1> HIDE DEF s, t, C
<1>19. /\ s \o t \in Seq(Change) /\ Len(s \o t) = Len(s) + Len(t)
       /\ \A i \in DOMAIN (s \o t) : (s \o t)[i] = IF i <= Len(s) THEN s[i] ELSE t[i - Len(s)]
    BY <1>10, <1>11, JoinedItems
<1> DEFINE changes == s \o t
<1>20. /\ DOMAIN changes = 1 .. Len(s) + Len(t)
       /\ \A i \in DOMAIN s : i \in DOMAIN changes /\ changes[i] = s[i]
       /\ \A i \in DOMAIN t : Len(s) + i \in DOMAIN changes /\ changes[Len(s) + i] = t[i]
       /\ \A i \in DOMAIN changes : \/ i \in DOMAIN s /\ i <= Len(s) /\ changes[i] = s[i]
                                    \/ i - Len(s) \in DOMAIN t /\ i > Len(s) /\ changes[i] = t[i - Len(s)]
    BY <1>10, <1>11, <1>19
<1> HIDE DEF changes
<1>21. \A i \in DOMAIN changes : Cuts(doc, trims, changes[i]) \/ Shortens(doc, C, changes[i])
    BY <1>12, <1>13, <1>20
<1>22. ASSUME NEW i \in DOMAIN changes, NEW j \in DOMAIN changes, i < j
       PROVE  /\ changes[i].path # changes[j].path
              /\ changes[j].action = "remove" => changes[i].action = "remove"
    <2>0. i \in Nat /\ j \in Nat /\ Len(s) \in Nat
        BY <1>10, <1>11, <1>20
    <2>1. CASE j <= Len(s)
        <3>1. i \in DOMAIN s /\ j \in DOMAIN s /\ changes[i] = s[i] /\ changes[j] = s[j] /\ i # j
            BY <1>20, <1>22, <2>0, <2>1
        <3> QED
            BY <1>12, <1>14, <3>1
    <2>2. CASE i > Len(s)
        <3>1. /\ i - Len(s) \in DOMAIN t /\ j - Len(s) \in DOMAIN t /\ i - Len(s) # j - Len(s)
              /\ changes[i] = t[i - Len(s)] /\ changes[j] = t[j - Len(s)]
            BY <1>20, <1>22, <2>0, <2>2
        <3> QED
            BY <1>13, <1>15, <3>1
    <2>3. CASE i <= Len(s) /\ j > Len(s)
        <3>1. i \in DOMAIN s /\ j - Len(s) \in DOMAIN t /\ changes[i] = s[i] /\ changes[j] = t[j - Len(s)]
            BY <1>20, <1>22, <2>0, <2>3
        <3> QED
            BY <1>12, <1>16, <3>1
    <2> QED
        BY <1>22, <2>0, <2>1, <2>2, <2>3
<1>23. /\ \A f \in Lists : Named(doc, f, trims) # {} =>
             \E i \in DOMAIN changes : changes[i] = Removal(doc, f, trims)
       /\ \A p \in C : \E i \in DOMAIN changes : changes[i] = Compression(doc, p)
    BY <1>17, <1>18, <1>20
<1>24. changes \in Seq(Change)
    BY <1>19 DEF changes
<1>25. Proposes(doc, trims, C, changes)
    BY <1>21, <1>22, <1>23, <1>24 DEF Proposes
<1> QED
    BY <1>1, <1>25 DEF changes, C

-----------------------------------------------------------------------------
(* What applying some of the proposals makes of the resume.                *)

\* Some of the proposals, in their order.
Selects(doc, trims, C, A) ==
    /\ A \in Seq(Change)
    /\ \A i \in DOMAIN A : Cuts(doc, trims, A[i]) \/ Shortens(doc, C, A[i])
    /\ \A i, j \in DOMAIN A :
          i < j => /\ A[i].path # A[j].path
                   /\ A[j].action = "remove" => A[i].action = "remove"

\* The lists cut and the texts shortened by the first k changes.
CutBy(A, k)   == {A[i].path.field : i \in {j \in 1 .. k : A[j].action = "remove"}}
ShortBy(A, k) == {A[i].path : i \in {j \in 1 .. k : A[j].action = "replace"}}

Removed(doc, trims, f) == Without(doc[f].items, ItemsAt(doc[f].items, Named(doc, f, trims)))

\* A list without what was cut of it.
Left(doc, trims, cut, f) == IF f \in cut THEN Removed(doc, trims, f).items ELSE doc[f].items

\* The list in the end: a compression finds its text by position.
FitItems(doc, trims, cut, short, f) ==
    [i \in DOMAIN Left(doc, trims, cut, f) |->
        IF Path(f, i) \in short THEN Shortened(doc[f].items[i]) ELSE Left(doc, trims, cut, f)[i]]

ListState(doc, trims, d, cut, short, f) ==
    /\ f \in cut => ~Removed(doc, trims, f).missing
    /\ d[f] = List(FitItems(doc, trims, cut, short, f))
    /\ \A i : Path(f, i) \in short =>
          /\ i \in DOMAIN Left(doc, trims, cut, f)
          /\ Fold(Left(doc, trims, cut, f)[i]) = Fold(doc[f].items[i])

SummaryState(doc, d, short) ==
    d[SummaryField] = IF Path(SummaryField, 0) \in short
                      THEN Text(Shortened(doc[SummaryField].words)) ELSE doc[SummaryField]

LEMMA RemovalApplied ==
    ASSUME NEW doc, IsSource(doc), NEW f \in Lists, NEW trims, NEW d, NEW level, NEW skills,
           ApplyChange(d, Removal(doc, f, trims), level, skills).reason = "allowed"
    PROVE  /\ f \in DOMAIN d
           /\ ~Removed(doc, trims, f).missing
           /\ ApplyChange(d, Removal(doc, f, trims), level, skills).doc
                  = [d EXCEPT ![f] = List(Removed(doc, trims, f).items)]
<1> DEFINE c == Removal(doc, f, trims)
           kept == Without(d[f].items, c.value.items)
<1>1. c.action = "remove" /\ c.path = Path(f, 0) /\ c.path.field = f /\ c.path.index = 0
      /\ c.value.items = ItemsAt(doc[f].items, Named(doc, f, trims))
      /\ c.original = doc[f] /\ c.original # Null
    <2>1. doc[f] \in [items : Seq(Seq(Word))]
        BY DEF IsSource
    <2>2. doc[f] # Null
        <3>1. doc[f] \in Value /\ IsList(doc[f])
            BY <2>1 DEF Value, IsList
        <3> QED
            BY <3>1, ValueForms
    <2> QED
        BY <2>2, RemovalIsChange
<1> HIDE DEF c
<1>2. /\ ApplyChange(d, c, level, skills) = RemoveItems(d, c)
      /\ RemoveItems(d, c).reason = "allowed"
      /\ f \in DOMAIN d
    BY <1>1 DEF ApplyChange, Rejected, Resolves, c
<1>3. ValueAt(d, c.path) = d[f] /\ SetAt(d, c.path, List(kept.items)) = [d EXCEPT ![f] = List(kept.items)]
    BY <1>1 DEF ValueAt, SetAt
<1>4. /\ ~kept.missing
      /\ c.original = d[f]
      /\ RemoveItems(d, c) = Applied(SetAt(d, c.path, List(kept.items)))
    BY <1>1, <1>2, <1>3 DEF RemoveItems, Rejected
<1>5. RemoveItems(d, c).doc = [d EXCEPT ![f] = List(kept.items)]
    BY <1>3, <1>4 DEF Applied
<1>6. kept = Removed(doc, trims, f)
    BY <1>1, <1>4 DEF Removed
<1> QED
    BY <1>2, <1>4, <1>5, <1>6 DEF c

LEMMA CompressionApplied ==
    ASSUME NEW doc, IsSource(doc), NEW p \in LongPaths(doc), NEW d, NEW level, NEW skills,
           ApplyChange(d, Compression(doc, p), level, skills).reason = "allowed"
    PROVE  /\ Resolves(d, p)
           /\ IsText(ValueAt(d, p))
           /\ Fold(ValueAt(d, p).words) = Fold(ValueAt(doc, p).words)
           /\ ApplyChange(d, Compression(doc, p), level, skills).doc
                  = SetAt(d, p, Compression(doc, p).value)
<1> DEFINE c == Compression(doc, p)
<1>1. c.action = "replace" /\ c.path = p /\ c.original = ValueAt(doc, p) /\ IsText(c.value)
    BY CompressionIsChange
<1>2. IsText(c.original) /\ c.original # Null
    <2>1. IsText(ValueAt(doc, p)) /\ ValueAt(doc, p) \in Value
        BY LongPathsAreTexts
    <2> QED
        BY <1>1, <2>1, ValueForms
<1> HIDE DEF c
<1>3. /\ ApplyChange(d, c, level, skills) = Replace(d, c)
      /\ Replace(d, c).reason = "allowed"
      /\ Resolves(d, p)
    BY <1>1 DEF ApplyChange, Rejected, c
<1>4. OriginalMatches(ValueAt(d, p), c.original) /\ Replace(d, c) = Applied(SetAt(d, p, c.value))
    BY <1>1, <1>3 DEF Replace, Rejected
<1>5. Replace(d, c).doc = SetAt(d, p, c.value)
    BY <1>4 DEF Applied
<1> QED
    BY <1>1, <1>2, <1>3, <1>4, <1>5 DEF OriginalMatches, c

-----------------------------------------------------------------------------
(* What the approved changes make of the resume.                           *)

\* The summary and each list of d are those of doc, with the ranked items of the
\* lists in cut removed and the texts in short shortened.
FitState(doc, trims, d, cut, short) ==
    /\ SummaryState(doc, d, short)
    /\ \A f \in Lists : ListState(doc, trims, d, cut, short, f)

LEMMA LeftItems ==
    ASSUME NEW doc, IsSource(doc), NEW trims, NEW cut, NEW f \in Lists
    PROVE  /\ doc[f].items \in Seq(Seq(Word))
           /\ Removed(doc, trims, f).items \in Seq(Seq(Word))
           /\ Left(doc, trims, cut, f) \in Seq(Seq(Word))
           /\ ToSet(Left(doc, trims, cut, f)) \subseteq ToSet(doc[f].items)
<1> DEFINE items == doc[f].items
           named == ItemsAt(items, Named(doc, f, trims))
<1>1. items \in Seq(Seq(Word))
    BY DEF IsSource
<1>2. named \in Seq(Seq(Word))
    BY <1>1, ItemsAtMembers
<1>3. Removed(doc, trims, f) = Without(items, named)
    BY DEF Removed
<1> HIDE DEF named, items
<1>4. /\ Without(items, named).items \in Seq(Seq(Word))
      /\ ToSet(Without(items, named).items) \subseteq ToSet(items)
    BY <1>1, <1>2, WithoutTakesNamed
<1> QED
    BY <1>1, <1>3, <1>4 DEF Left, items

\* A removal that is applied starts from the list of the source.
LEMMA CutStep ==
    ASSUME NEW doc, IsSource(doc), NEW trims, NEW d, NEW cut, NEW f \in Lists,
           NEW level, NEW skills, FitState(doc, trims, d, cut, {}),
           ApplyChange(d, Removal(doc, f, trims), level, skills).reason = "allowed"
    PROVE  FitState(doc, trims, ApplyChange(d, Removal(doc, f, trims), level, skills).doc,
                    cut \cup {f}, {})
<1> DEFINE e == ApplyChange(d, Removal(doc, f, trims), level, skills).doc
<1>1. /\ f \in DOMAIN d
      /\ ~Removed(doc, trims, f).missing
      /\ e = [d EXCEPT ![f] = List(Removed(doc, trims, f).items)]
    BY RemovalApplied
<1> HIDE DEF e
<1>2. e[f] = List(Removed(doc, trims, f).items) /\ \A g : g # f => e[g] = d[g]
    BY <1>1
<1>3. SummaryField # f
    BY FieldClasses
<1>4. SummaryState(doc, e, {})
    BY <1>2, <1>3 DEF SummaryState, FitState
<1>5. ASSUME NEW g \in Lists
      PROVE  ListState(doc, trims, e, cut \cup {f}, {}, g)
    <2>1. CASE g = f
        <3>1. Left(doc, trims, cut \cup {f}, g) = Removed(doc, trims, f).items
            BY <2>1 DEF Left
        <3>2. Removed(doc, trims, f).items \in Seq(Seq(Word))
            BY LeftItems
        <3>3. FitItems(doc, trims, cut \cup {f}, {}, g) = Removed(doc, trims, f).items
            <4> DEFINE L == Removed(doc, trims, f).items
            <4>1. FitItems(doc, trims, cut \cup {f}, {}, g) = [i \in DOMAIN L |-> L[i]]
                BY <3>1 DEF FitItems
            <4>2. L \in Seq(Seq(Word))
                BY <3>2
            <4> HIDE DEF L
            <4>3. [i \in DOMAIN L |-> L[i]] = L
                BY <4>2
            <4> QED
                BY <4>1, <4>3 DEF L
        <3> QED
            BY <1>1, <1>2, <2>1, <3>3 DEF ListState
    <2>2. CASE g # f
        <3>1. ListState(doc, trims, d, cut, {}, g)
            BY DEF FitState
        <3>2. e[g] = d[g] /\ (g \in cut \cup {f} <=> g \in cut)
            BY <1>2, <2>2
        <3>3. Left(doc, trims, cut \cup {f}, g) = Left(doc, trims, cut, g)
            BY <3>2 DEF Left
        <3>4. FitItems(doc, trims, cut \cup {f}, {}, g) = FitItems(doc, trims, cut, {}, g)
            BY <3>3 DEF FitItems
        <3> QED
            BY <3>1, <3>2, <3>4 DEF ListState
    <2> QED
        BY <2>1, <2>2
<1> QED
    BY <1>4, <1>5 DEF FitState, e

\* A compression that is applied finds, at its position, the text it shortens.
LEMMA ShortenStep ==
    ASSUME NEW doc, IsSource(doc), NEW trims, NEW d, NEW cut, NEW short,
           NEW p \in LongPaths(doc), p \notin short,
           NEW level, NEW skills, FitState(doc, trims, d, cut, short),
           ApplyChange(d, Compression(doc, p), level, skills).reason = "allowed"
    PROVE  FitState(doc, trims, ApplyChange(d, Compression(doc, p), level, skills).doc,
                    cut, short \cup {p})
<1> DEFINE e == ApplyChange(d, Compression(doc, p), level, skills).doc
           now == short \cup {p}
           w == Shortened(ValueAt(doc, p).words)
<1>1. /\ Resolves(d, p)
      /\ IsText(ValueAt(d, p))
      /\ Fold(ValueAt(d, p).words) = Fold(ValueAt(doc, p).words)
      /\ e = SetAt(d, p, Text(w))
    BY CompressionApplied DEF Compression, Proposed
<1> HIDE DEF e, w
<1>2. Text(w).words = w
    BY DEF Text
<1>3. CASE p.field = SummaryField
    <2>1. p = Path(SummaryField, 0) /\ p.index = 0
        BY <1>3, LongPathsAreTexts DEF Path
    <2>2. e = [d EXCEPT ![SummaryField] = Text(w)] /\ SummaryField \in DOMAIN d
        BY <1>1, <2>1 DEF SetAt, Resolves, Path
    <2>3. ValueAt(doc, p).words = doc[SummaryField].words
        BY <2>1 DEF ValueAt, Path
    <2>4. SummaryState(doc, e, now)
        BY <2>1, <2>2, <2>3 DEF SummaryState, w
    <2>5. ASSUME NEW g \in Lists
          PROVE  ListState(doc, trims, e, cut, now, g)
        <3>1. ListState(doc, trims, d, cut, short, g) /\ e[g] = d[g]
            BY <2>2, FieldClasses DEF FitState
        <3>2. \A i : Path(g, i) \in now <=> Path(g, i) \in short
            BY <2>1, FieldClasses DEF Path
        <3> HIDE DEF now
        <3>3. FitItems(doc, trims, cut, now, g) = FitItems(doc, trims, cut, short, g)
            BY <3>2 DEF FitItems
        <3> QED
            BY <3>1, <3>2, <3>3 DEF ListState
    <2> QED
        BY <2>4, <2>5 DEF FitState, e
<1>4. CASE p.field \in Lists
    <2> DEFINE f == p.field
               i == p.index
               L == Left(doc, trims, cut, f)
               old == FitItems(doc, trims, cut, short, f)
    <2>1. /\ p = Path(f, i) /\ i \in Nat \ {0} /\ i \in DOMAIN doc[f].items
          /\ ValueAt(doc, p).words = doc[f].items[i]
        BY <1>4, LongPathsAreTexts
    <2>2. ListState(doc, trims, d, cut, short, f) /\ d[f] = List(old)
        BY <1>4 DEF FitState, ListState
    <2>3. DOMAIN old = DOMAIN L /\ old \in [DOMAIN L -> {old[j] : j \in DOMAIN L}]
        BY DEF FitItems
    <2>4. f \in DOMAIN d /\ i \in DOMAIN d[f].items /\ d[f].items = old
        BY <1>1, <2>1, <2>2 DEF Resolves, List
    <2>5. i \in DOMAIN L /\ old[i] = L[i]
        BY <2>1, <2>3, <2>4 DEF FitItems
    <2>6. ValueAt(d, p).words = L[i]
        BY <2>1, <2>4, <2>5 DEF ValueAt, Text
    <2>7. e = [d EXCEPT ![f].items[i] = w]
        BY <1>1, <1>2, <2>1 DEF SetAt
    <2>8. /\ e[f] = [d[f] EXCEPT !.items[i] = w]
          /\ \A g : g # f => e[g] = d[g]
        BY <2>4, <2>7
    <2> HIDE DEF old
    <2>9. e[f] = List([old EXCEPT ![i] = w])
        BY <2>2, <2>4, <2>8 DEF List
    <2>10. [old EXCEPT ![i] = w] = FitItems(doc, trims, cut, now, f)
        <3>1. \A j : Path(f, j) \in now <=> j = i \/ Path(f, j) \in short
            BY <2>1 DEF Path
        <3>2. FitItems(doc, trims, cut, now, f)
                = [j \in DOMAIN L |-> IF Path(f, j) \in now THEN Shortened(doc[f].items[j]) ELSE L[j]]
            BY DEF FitItems
        <3>3. old = [j \in DOMAIN L |-> IF Path(f, j) \in short THEN Shortened(doc[f].items[j]) ELSE L[j]]
            BY DEF FitItems, old
        <3>4. w = Shortened(doc[f].items[i])
            BY <2>1 DEF w
        <3> HIDE DEF L, now, f, i
        <3> QED
            BY <2>5, <3>1, <3>2, <3>3, <3>4
    <2>11. ListState(doc, trims, e, cut, now, f)
        <3>1. \A j : Path(f, j) \in now <=> j = i \/ Path(f, j) \in short
            BY <2>1 DEF Path
        <3>2. Fold(L[i]) = Fold(doc[f].items[i])
            BY <1>1, <2>1, <2>6
        <3>3. /\ f \in cut => ~Removed(doc, trims, f).missing
              /\ \A j : Path(f, j) \in short => j \in DOMAIN L /\ Fold(L[j]) = Fold(doc[f].items[j])
            BY <2>2 DEF ListState
        <3>4. e[f] = List(FitItems(doc, trims, cut, now, f))
            BY <2>9, <2>10
        <3> HIDE DEF now, f, i
        <3> QED
            BY <2>5, <3>1, <3>2, <3>3, <3>4 DEF ListState, L
    <2>12. ASSUME NEW g \in Lists, g # f
           PROVE  ListState(doc, trims, e, cut, now, g)
        <3>1. ListState(doc, trims, d, cut, short, g) /\ e[g] = d[g]
            BY <2>8, <2>12 DEF FitState
        <3>2. \A j : Path(g, j) \in now <=> Path(g, j) \in short
            BY <2>1, <2>12 DEF Path
        <3> HIDE DEF now
        <3>3. FitItems(doc, trims, cut, now, g) = FitItems(doc, trims, cut, short, g)
            BY <3>2 DEF FitItems
        <3> QED
            BY <3>1, <3>2, <3>3 DEF ListState
    <2>13. SummaryState(doc, e, now)
        <3>1. SummaryState(doc, d, short) /\ e[SummaryField] = d[SummaryField]
            BY <1>4, <2>8, FieldClasses DEF FitState
        <3>2. Path(SummaryField, 0) \in now <=> Path(SummaryField, 0) \in short
            BY <1>4, FieldClasses DEF Path
        <3> QED
            BY <3>1, <3>2 DEF SummaryState
    <2> QED
        BY <2>11, <2>12, <2>13 DEF FitState, e
<1> QED
    BY <1>3, <1>4, LongPathsAreTexts

LEMMA NotExpanded ==
    ASSUME NEW A \in Seq(Change), \A i \in DOMAIN A : A[i].action # "add_skill"
    PROVE  ExpandAll(A) = A
<1>1. \A i \in DOMAIN A : Expand(A[i]) = <<A[i]>>
    BY DEF Expand
<1>2. ExpandAll(A) = FlattenSeq([i \in DOMAIN A |-> <<A[i]>>])
    BY <1>1 DEF ExpandAll
<1> QED
    BY <1>2, FlattenSeqOfSingles

LEMMA NothingAppliedYet ==
    ASSUME NEW doc, IsSource(doc), NEW trims
    PROVE  FitState(doc, trims, doc, {}, {})
<1>1. SummaryState(doc, doc, {})
    BY DEF SummaryState
<1>2. ASSUME NEW f \in Lists
      PROVE  ListState(doc, trims, doc, {}, {}, f)
    <2> DEFINE L == doc[f].items
    <2>1. doc[f] \in [items : Seq(Seq(Word))]
        BY DEF IsSource
    <2>2. L \in Seq(Seq(Word)) /\ doc[f] = List(L)
        BY <2>1 DEF List
    <2>3. FitItems(doc, trims, {}, {}, f) = [i \in DOMAIN L |-> L[i]]
        BY DEF FitItems, Left
    <2> HIDE DEF L
    <2>4. [i \in DOMAIN L |-> L[i]] = L
        BY <2>2
    <2> QED
        BY <2>2, <2>3, <2>4 DEF ListState
<1> QED
    BY <1>1, <1>2 DEF FitState

\* When no change is refused, the resume is the source without what was cut and
\* with what was shortened in its place.
LEMMA FitResult ==
    ASSUME NEW doc, IsSource(doc), NEW trims, NEW C \in SUBSET LongPaths(doc),
           NEW A, Selects(doc, trims, C, A), NEW level, NEW skills,
           ApplyDiffs(doc, A, level, skills).rejected = <<>>
    PROVE  /\ ApplyDiffs(doc, A, level, skills).doc \in [DOMAIN doc -> Value]
           /\ FitState(doc, trims, ApplyDiffs(doc, A, level, skills).doc,
                       CutBy(A, Len(A)), ShortBy(A, Len(A)))
<1> DEFINE n == Len(A)
<1>1. /\ A \in Seq(Change) /\ n \in Nat /\ DOMAIN A = 1 .. n
      /\ \A i \in DOMAIN A : Cuts(doc, trims, A[i]) \/ Shortens(doc, C, A[i])
      /\ \A i, j \in DOMAIN A :
          i < j => /\ A[i].path # A[j].path
                   /\ A[j].action = "remove" => A[i].action = "remove"
    BY DEF Selects
<1>2. \A i \in DOMAIN A : A[i].action = "remove" \/ A[i].action = "replace"
    BY <1>1, RemovalIsChange, CompressionIsChange DEF Cuts, Shortens
<1>3. ExpandAll(A) = A
    BY <1>1, <1>2, NotExpanded
<1>4. doc \in [DOMAIN doc -> Value]
    BY DEF IsSource
<1>5. PICK g : /\ DiffRun(g, doc, A, level, skills)
               /\ \A i \in 0 .. n : g[i] \in Results(DOMAIN doc)
               /\ ApplyDiffs(doc, A, level, skills) = g[n]
    <2>1. \E h : /\ DiffRun(h, doc, ExpandAll(A), level, skills)
                 /\ \A i \in 0 .. Len(ExpandAll(A)) : h[i] \in Results(DOMAIN doc)
                 /\ ApplyDiffs(doc, A, level, skills) = h[Len(ExpandAll(A))]
        BY <1>1, <1>4, ApplyDiffsRuns
    <2> QED
        BY <1>3, <2>1
<1>6. \A i \in 1 .. n :
          LET r == ApplyChange(g[i - 1].doc, A[i], level, skills)
          IN  r.reason = "allowed" /\ g[i].doc = r.doc
    <2>1. g[Len(A)].rejected = <<>>
        BY <1>5
    <2> QED
        BY <1>1, <1>5, <2>1, NothingRefused
<1> DEFINE good == {k \in 0 .. n : FitState(doc, trims, g[k].doc, CutBy(A, k), ShortBy(A, k))}
<1>7. 0 \in good
    <2>1. g[0].doc = doc
        BY <1>5 DEF DiffRun
    <2>2. CutBy(A, 0) = {} /\ ShortBy(A, 0) = {}
        BY DEF CutBy, ShortBy
    <2>3. 0 \in 0 .. n
        BY <1>1
    <2> QED
        BY <2>1, <2>2, <2>3, NothingAppliedYet
<1>8. \A k \in 1 .. n : k - 1 \in good => k \in good
    <2> TAKE k \in 1 .. n
    <2> HAVE k - 1 \in good
    <2> DEFINE d == g[k - 1].doc
               cut == CutBy(A, k - 1)
               short == ShortBy(A, k - 1)
    <2>1. FitState(doc, trims, d, cut, short)
        OBVIOUS
    <2>2. k \in 0 .. n /\ k \in DOMAIN A /\ k \in Nat /\ \A j \in 1 .. k - 1 : j \in DOMAIN A /\ j < k
        BY <1>1
    <2>3. \A j : j \in 1 .. k <=> j = k \/ j \in 1 .. k - 1
        BY <1>1
    <2>4. /\ ApplyChange(d, A[k], level, skills).reason = "allowed"
          /\ g[k].doc = ApplyChange(d, A[k], level, skills).doc
        BY <1>6
    <2> HIDE DEF d
    <2>5. CASE Cuts(doc, trims, A[k])
        <3>1. PICK f \in Lists : A[k] = Removal(doc, f, trims)
            BY <2>5 DEF Cuts
        <3>2. A[k].action = "remove" /\ A[k].path.field = f
            BY <3>1, RemovalIsChange
        <3>3. \A j \in 1 .. k - 1 : A[j].action = "remove"
            BY <1>1, <2>2, <3>2
        <3>4. short = {} /\ ShortBy(A, k) = {}
            BY <2>3, <3>2, <3>3 DEF ShortBy
        <3>5. CutBy(A, k) = cut \cup {f}
            BY <2>3, <3>2, <3>3 DEF CutBy
        <3> HIDE DEF cut, short
        <3>6. FitState(doc, trims, ApplyChange(d, A[k], level, skills).doc, cut \cup {f}, {})
            BY <2>1, <2>4, <3>1, <3>4, CutStep
        <3> QED
            BY <2>2, <2>4, <3>4, <3>5, <3>6
    <2>6. CASE Shortens(doc, C, A[k])
        <3>1. PICK p \in C : A[k] = Compression(doc, p)
            BY <2>6 DEF Shortens
        <3>2. A[k].action = "replace" /\ A[k].path = p
            BY <3>1, CompressionIsChange
        <3>3. ShortBy(A, k) = short \cup {p}
            BY <2>3, <3>2 DEF ShortBy
        <3>4. CutBy(A, k) = cut
            BY <2>3, <3>2 DEF CutBy
        <3>5. p \notin short
            BY <1>1, <2>2, <3>2 DEF ShortBy
        <3> HIDE DEF cut, short
        <3>6. FitState(doc, trims, ApplyChange(d, A[k], level, skills).doc, cut, short \cup {p})
            BY <2>1, <2>4, <3>1, <3>5, ShortenStep
        <3> QED
            BY <2>2, <2>4, <3>3, <3>4, <3>6
    <2> QED
        BY <1>1, <2>2, <2>5, <2>6
<1>9. n \in good
    <2> HIDE DEF good, n
    <2> QED
        BY <1>1, <1>7, <1>8, StepsUp
<1>10. g[n] \in Results(DOMAIN doc)
    BY <1>1, <1>5
<1> QED
    BY <1>5, <1>9, <1>10 DEF Results

-----------------------------------------------------------------------------
(* What is lost has an entry, and nothing is added.                        *)

\* What a compression that keeps its claim leaves: a text, within its budget.
Preserving(doc, C) ==
    \A p \in C : LET w == Shortened(ValueAt(doc, p).words)
                 IN  w # <<>> /\ Len(w) <= WordLimit(p)

\* What was done to a list, position by position.
FormsOf(doc, short, f, F, L) ==
    /\ F \in Seq(Seq(Word))
    /\ DOMAIN F = DOMAIN L
    /\ Len(F) = Len(L)
    /\ \A i \in DOMAIN F : Path(f, i) \notin short => F[i] = L[i]
    /\ \A i \in DOMAIN F : Path(f, i) \in short =>
          /\ F[i] = Shortened(doc[f].items[i])
          /\ ValueAt(doc, Path(f, i)).words = doc[f].items[i]
          /\ i \in DOMAIN doc[f].items

LEMMA FitItemForms ==
    ASSUME NEW doc, IsSource(doc), NEW trims, NEW cut, NEW short \in SUBSET LongPaths(doc),
           NEW f \in Lists
    PROVE  FormsOf(doc, short, f, FitItems(doc, trims, cut, short, f),
                   Left(doc, trims, cut, f))
<1> DEFINE F == FitItems(doc, trims, cut, short, f)
           L == Left(doc, trims, cut, f)
           G(i) == IF Path(f, i) \in short THEN Shortened(doc[f].items[i]) ELSE L[i]
<1>1. L \in Seq(Seq(Word)) /\ Len(L) \in Nat /\ DOMAIN L = 1 .. Len(L)
    BY LeftItems
<1>2. F = [i \in DOMAIN L |-> G(i)]
    BY DEF FitItems
<1>3. \A i : Path(f, i) \in short =>
          /\ ValueAt(doc, Path(f, i)).words = doc[f].items[i]
          /\ i \in DOMAIN doc[f].items
          /\ doc[f].items[i] \in Seq(Word)
    <2> TAKE i
    <2> HAVE Path(f, i) \in short
    <2>1. Path(f, i).field = f /\ Path(f, i).index = i /\ Path(f, i) \in LongPaths(doc)
        BY DEF Path
    <2>2. i \in DOMAIN doc[f].items /\ ValueAt(doc, Path(f, i)).words = doc[f].items[i]
        BY <2>1, LongPathsAreTexts
    <2>3. doc[f].items \in Seq(Seq(Word))
        BY LeftItems
    <2> QED
        BY <2>2, <2>3
<1> HIDE DEF L, F
<1>4. \A i \in DOMAIN L : G(i) \in Seq(Word)
    BY <1>1, <1>3, ShortenedWords
<1>5. F \in Seq(Seq(Word)) /\ DOMAIN F = DOMAIN L /\ Len(F) = Len(L)
    <2> HIDE DEF G
    <2>1. F = [i \in 1 .. Len(L) |-> G(i)] /\ \A i \in 1 .. Len(L) : G(i) \in Seq(Word)
        BY <1>1, <1>2, <1>4
    <2> QED
        BY <1>1, <2>1
<1>6. \A i \in DOMAIN F : F[i] = G(i)
    BY <1>2
<1> QED
    BY <1>3, <1>5, <1>6 DEF F, L, FormsOf

\* A resume that was valid stays valid: no text is emptied.
LEMMA FitStateIsValid ==
    ASSUME NEW doc, IsSource(doc), NEW trims, NEW cut, NEW C \in SUBSET LongPaths(doc),
           Preserving(doc, C), NEW short \in SUBSET C, NEW d \in [DOMAIN doc -> Value],
           FitState(doc, trims, d, cut, short)
    PROVE  FitState(doc, trims, ValidateResume(d), cut, short)
<1> DEFINE e == ValidateResume(d)
<1>1. Lists \cup {SummaryField} \subseteq DOMAIN d
    BY DEF IsSource
<1>2. \A f \in DOMAIN d : e[f] = Coerce(f, d[f])
    BY DEF ValidateResume
<1> HIDE DEF e
<1>3. ASSUME NEW f \in Lists PROVE e[f] = d[f]
    <2> DEFINE F == FitItems(doc, trims, cut, short, f)
    <2>1. d[f] = List(F)
        BY DEF FitState, ListState
    <2>2. /\ F \in Seq(Seq(Word))
          /\ DOMAIN F = DOMAIN Left(doc, trims, cut, f)
          /\ \A i \in DOMAIN F : Path(f, i) \notin short => F[i] = Left(doc, trims, cut, f)[i]
          /\ \A i \in DOMAIN F : Path(f, i) \in short =>
                     /\ F[i] = Shortened(doc[f].items[i])
                     /\ ValueAt(doc, Path(f, i)).words = doc[f].items[i]
        <3>1. short \in SUBSET LongPaths(doc)
            OBVIOUS
        <3> QED
            BY <3>1, FitItemForms DEF FormsOf
    <2> HIDE DEF F
    <2>3. \A i \in DOMAIN F : F[i] # <<>>
        <3> TAKE i \in DOMAIN F
        <3>1. CASE Path(f, i) \in short
            <4>1. Path(f, i) \in C /\ F[i] = Shortened(ValueAt(doc, Path(f, i)).words)
                BY <2>2, <3>1
            <4> QED
                BY <4>1 DEF Preserving
        <3>2. CASE Path(f, i) \notin short
            <4>1. F[i] \in ToSet(Left(doc, trims, cut, f))
                BY <2>2, <3>2 DEF ToSet
            <4>2. F[i] \in ToSet(doc[f].items)
                BY <4>1, LeftItems
            <4> QED
                BY <4>2 DEF IsSource, ToSet
        <3> QED
            BY <3>1, <3>2
    <2>4. NonEmptyItems(F) = F
        <3> DEFINE I == {i \in DOMAIN F : F[i] # <<>>}
        <3>1. NonEmptyItems(F) = ItemsAt(F, I)
            BY DEF NonEmptyItems
        <3>2. DOMAIN F \subseteq I
            BY <2>3
        <3> HIDE DEF I
        <3> QED
            BY <2>2, <3>1, <3>2, ItemsAtAll
    <2>5. Coerce(f, List(F)) = List(NonEmptyItems(F))
        <3>1. IsListField(f) /\ IsList(List(F)) /\ ~IsText(List(F)) /\ List(F).items = F
            BY <2>2, FieldClasses, ValuesMade
        <3>2. List(F) # Null
            <4>1. List(F) \in Value
                BY <2>2, ValuesMade
            <4> QED
                BY <3>1, <4>1, ValueForms
        <3> QED
            BY <3>1, <3>2 DEF Coerce
    <2>6. f \in DOMAIN d
        BY <1>1
    <2> QED
        BY <1>2, <2>1, <2>4, <2>5, <2>6
<1>4. e[SummaryField] = d[SummaryField]
    <2>1. ~IsListField(SummaryField) /\ FieldClass[SummaryField] # "education"
        BY FieldClasses, FitAssumption
    <2>2. Coerce(SummaryField, d[SummaryField]) = d[SummaryField]
        BY <2>1 DEF Coerce
    <2> QED
        BY <1>1, <1>2, <2>2
<1>5. SummaryState(doc, e, short)
    BY <1>4 DEF SummaryState, FitState
<1>6. \A f \in Lists : ListState(doc, trims, e, cut, short, f)
    BY <1>3 DEF ListState, FitState
<1> QED
    BY <1>5, <1>6 DEF FitState, e

-----------------------------------------------------------------------------
(* How many items are left.                                                *)

LEMMA HowManyAll ==
    ASSUME NEW X, NEW s \in Seq(X)
    PROVE  HowMany(s, X) = Len(s)
<1> DEFINE n == Len(s)
<1>1. n \in Nat /\ {i \in DOMAIN s : s[i] \in X} = 1 .. n
    OBVIOUS
<1> HIDE DEF n
<1>2. Cardinality(1 .. n) = IF 1 > n THEN 0 ELSE n - 1 + 1
    BY <1>1, FS_Interval
<1>3. Cardinality(1 .. n) = n
    BY <1>1, <1>2
<1> QED
    BY <1>1, <1>3 DEF HowMany, n

\* The positions of a list that are cut, and those that are shortened.
CutAt(doc, trims, cut, f) == IF f \in cut THEN Named(doc, f, trims) ELSE {}
ShortAt(doc, short, f) == {i \in DOMAIN doc[f].items : Path(f, i) \in short}

Among(items, I, K) == {i \in I : items[i] \in K}

LEMMA AmongType ==
    ASSUME NEW X, NEW items \in Seq(X), NEW I \in SUBSET DOMAIN items, NEW K
    PROVE  IsFiniteSet(Among(items, I, K)) /\ Cardinality(Among(items, I, K)) \in Nat
<1> DEFINE n == Len(items)
           S == Among(items, I, K)
<1>1. n \in Nat /\ DOMAIN items = 1 .. n
    OBVIOUS
<1>2. S \in SUBSET (1 .. n)
    BY <1>1 DEF Among
<1> HIDE DEF S, n
<1>3. IsFiniteSet(1 .. n)
    BY <1>1, FS_Interval
<1> QED
    BY <1>2, <1>3, FS_Subset, FS_CardinalityType DEF S

\* Of every kind of item as many are left as there were, less those cut.
LEMMA LeftCounts ==
    ASSUME NEW doc, IsSource(doc), NEW trims, NEW cut, NEW f \in Lists,
           f \in cut => ~Removed(doc, trims, f).missing, NEW K
    PROVE  LET items == doc[f].items
           IN  HowMany(Left(doc, trims, cut, f), K)
                   + Cardinality(Among(items, CutAt(doc, trims, cut, f), K)) = HowMany(items, K)
<1> DEFINE items == doc[f].items
           named == ItemsAt(items, Named(doc, f, trims))
<1>1. items \in Seq(Seq(Word))
    BY LeftItems
<1>2. CASE f \in cut
    <2>1. named \in Seq(Seq(Word))
        BY <1>1, ItemsAtMembers
    <2>2. HowMany(named, K) = Cardinality({i \in DOMAIN items \cap Named(doc, f, trims) : items[i] \in K})
        BY <1>1, ItemsAtCounts
    <2>3. {i \in DOMAIN items \cap Named(doc, f, trims) : items[i] \in K}
            = Among(items, CutAt(doc, trims, cut, f), K)
        BY <1>2 DEF Among, CutAt, Named
    <2>4. Left(doc, trims, cut, f) = Without(items, named).items /\ ~Without(items, named).missing
        BY <1>2 DEF Left, Removed
    <2> HIDE DEF items, named
    <2>5. HowMany(Without(items, named).items, K) + HowMany(named, K) = HowMany(items, K)
        BY <1>1, <2>1, <2>4, WithoutTakesNamed
    <2> QED
        BY <2>2, <2>3, <2>4, <2>5 DEF items
<1>3. CASE f \notin cut
    <2>1. Left(doc, trims, cut, f) = items
        BY <1>3 DEF Left
    <2>2. Among(items, CutAt(doc, trims, cut, f), K) = {}
        BY <1>3 DEF Among, CutAt
    <2>3. HowMany(items, K) \in Nat
        BY <1>1, HowManyType
    <2> HIDE DEF items
    <2>4. Cardinality({}) = 0
        BY FS_EmptySet
    <2> QED
        BY <2>1, <2>2, <2>3, <2>4 DEF items
<1> QED
    BY <1>2, <1>3

LEMMA LengthLeft ==
    ASSUME NEW doc, IsSource(doc), NEW trims, NEW cut, NEW f \in Lists,
           f \in cut => ~Removed(doc, trims, f).missing
    PROVE  /\ Len(Left(doc, trims, cut, f)) + Cardinality(CutAt(doc, trims, cut, f)) = Len(doc[f].items)
           /\ Cardinality(CutAt(doc, trims, cut, f)) \in Nat
           /\ IsFiniteSet(CutAt(doc, trims, cut, f))
           /\ Len(Left(doc, trims, cut, f)) \in Nat
<1> DEFINE items == doc[f].items
           A == CutAt(doc, trims, cut, f)
           K == Seq(Word)
<1>1. items \in Seq(Seq(Word)) /\ Left(doc, trims, cut, f) \in Seq(Seq(Word))
    BY LeftItems
<1>2. A \in SUBSET DOMAIN items
    BY DEF CutAt, Named
<1>3. Among(items, A, K) = A
    BY <1>1, <1>2 DEF Among
<1>4. HowMany(Left(doc, trims, cut, f), K) + Cardinality(Among(items, A, K)) = HowMany(items, K)
    BY LeftCounts
<1>5. HowMany(items, K) = Len(items) /\ HowMany(Left(doc, trims, cut, f), K) = Len(Left(doc, trims, cut, f))
    BY <1>1, HowManyAll
<1> HIDE DEF A, items, K
<1>6. IsFiniteSet(Among(items, A, K)) /\ Cardinality(Among(items, A, K)) \in Nat
    BY <1>1, <1>2, AmongType
<1> QED
    BY <1>1, <1>3, <1>4, <1>5, <1>6 DEF items, A

\* Shortening changes at most the items at its positions.
LEMMA ShortCounts ==
    ASSUME NEW doc, IsSource(doc), NEW trims, NEW cut, NEW short \in SUBSET LongPaths(doc),
           NEW d, NEW f \in Lists, ListState(doc, trims, d, cut, short, f), NEW key
    PROVE  LET items == doc[f].items
               K == Spelt(key)
           IN  HowMany(Left(doc, trims, cut, f), K)
                   <= HowMany(d[f].items, K) + Cardinality(Among(items, ShortAt(doc, short, f), K))
<1> DEFINE items == doc[f].items
           K == Spelt(key)
           F == FitItems(doc, trims, cut, short, f)
           L == Left(doc, trims, cut, f)
           S == Among(items, ShortAt(doc, short, f), K)
           A == {i \in DOMAIN F : F[i] \in K}
           B == {i \in DOMAIN L : L[i] \in K}
<1>1. /\ F \in Seq(Seq(Word)) /\ DOMAIN F = DOMAIN L /\ L \in Seq(Seq(Word)) /\ items \in Seq(Seq(Word))
      /\ \A i \in DOMAIN F : Path(f, i) \notin short => F[i] = L[i]
      /\ \A i \in DOMAIN F : Path(f, i) \in short => i \in DOMAIN items
    <2>1. /\ F \in Seq(Seq(Word)) /\ DOMAIN F = DOMAIN L /\ Len(F) = Len(L)
          /\ \A i \in DOMAIN F : Path(f, i) \notin short => F[i] = L[i]
          /\ \A i \in DOMAIN F : Path(f, i) \in short =>
                     /\ F[i] = Shortened(doc[f].items[i])
                     /\ ValueAt(doc, Path(f, i)).words = doc[f].items[i]
                     /\ i \in DOMAIN doc[f].items
        BY FitItemForms DEF FormsOf
    <2>2. L \in Seq(Seq(Word)) /\ items \in Seq(Seq(Word))
        BY LeftItems
    <2> HIDE DEF F, L
    <2> QED
        BY <2>1, <2>2
<1>2. /\ d[f] = List(F)
      /\ \A i : Path(f, i) \in short => Fold(L[i]) = Fold(items[i])
    BY DEF ListState
<1>3. d[f].items = F
    BY <1>2 DEF List
<1> HIDE DEF F, L, items
<1>4. B \subseteq A \cup S
    <2> SUFFICES ASSUME NEW i \in DOMAIN L, L[i] \in K, i \notin A PROVE i \in S
        OBVIOUS
    <2>1. Path(f, i) \in short
        BY <1>1
    <2>2. i \in DOMAIN items /\ items[i] \in Seq(Word) /\ Fold(items[i]) = key
        BY <1>1, <1>2, <2>1 DEF Spelt
    <2> QED
        BY <2>1, <2>2 DEF Among, ShortAt, Spelt, items
<1>5. IsFiniteSet(S) /\ Cardinality(S) \in Nat
    <2>1. ShortAt(doc, short, f) \in SUBSET DOMAIN items
        BY DEF ShortAt, items
    <2> QED
        BY <1>1, <2>1, AmongType
<1>6. /\ IsFiniteSet(A) /\ Cardinality(A) \in Nat /\ HowMany(F, K) = Cardinality(A)
      /\ IsFiniteSet(B) /\ Cardinality(B) \in Nat /\ HowMany(L, K) = Cardinality(B)
    BY <1>1, HowManyType, FS_CardinalityType DEF HowMany
<1> HIDE DEF A, B, S, K
<1>7. /\ IsFiniteSet(A \cup S) /\ Cardinality(A \cup S) \in Nat
      /\ Cardinality(A \cup S) <= Cardinality(A) + Cardinality(S)
    <2>1. /\ IsFiniteSet(A \cup S)
          /\ Cardinality(A \cup S) = Cardinality(A) + Cardinality(S) - Cardinality(A \cap S)
        BY <1>5, <1>6, FS_Union
    <2>2. Cardinality(A \cap S) \in Nat /\ Cardinality(A \cup S) \in Nat
        <3>1. A \cap S \in SUBSET A
            OBVIOUS
        <3> QED
            BY <1>6, <2>1, <3>1, FS_Subset, FS_CardinalityType
    <2> QED
        BY <1>5, <1>6, <2>1, <2>2
<1>8. Cardinality(B) <= Cardinality(A \cup S)
    BY <1>4, <1>7, FS_Subset
<1>9. Cardinality(B) <= Cardinality(A) + Cardinality(S)
    BY <1>5, <1>6, <1>7, <1>8
<1> QED
    BY <1>3, <1>6, <1>9 DEF L, S, K, items

-----------------------------------------------------------------------------
(* The ledger.                                                             *)

EntriesAt(f, items, I, fate) ==
    {[path |-> Path(f, i), token |-> items[i], fate |-> fate] : i \in I}

LEMMA EntryCount ==
    ASSUME NEW f, NEW items, NEW I, IsFiniteSet(I), NEW fate
    PROVE  /\ IsFiniteSet(EntriesAt(f, items, I, fate))
           /\ Cardinality(EntriesAt(f, items, I, fate)) = Cardinality(I)
<1> DEFINE E == EntriesAt(f, items, I, fate)
           Entry(i) == [path |-> Path(f, i), token |-> items[i], fate |-> fate]
           at == [i \in I |-> Entry(i)]
<1>1. \A i, j \in I : Entry(i) = Entry(j) => i = j
    BY DEF Path
<1>2. E = {Entry(i) : i \in I}
    BY DEF EntriesAt
<1> HIDE DEF Entry, E
<1>3. at \in [I -> E] /\ \A e \in E : \E i \in I : at[i] = e
    BY <1>2
<1>4. at \in Bijection(I, E)
    BY <1>1, <1>3 DEF Bijection, Injection, Surjection, IsInjective
<1>5. ExistsBijection(I, E)
    BY <1>4 DEF ExistsBijection
<1>6. IsFiniteSet(E) /\ Cardinality(E) = Cardinality(I)
    BY <1>5, FS_Bijection
<1> QED
    BY <1>6 DEF E

LedgerSays(doc, trims, ledger, cut, short) ==
    /\ \A f \in Lists :
          {e \in ledger : e.fate = "dropped" /\ e.path.field = f}
              = EntriesAt(f, doc[f].items, CutAt(doc, trims, cut, f), "dropped")
    /\ \A f \in Lists :
          {e \in ledger : e.fate = "compressed" /\ e.path.field = f}
              = EntriesAt(f, doc[f].items, ShortAt(doc, short, f), "compressed")
    /\ Path(SummaryField, 0) \in short =>
          {e \in ledger : e.fate = "compressed" /\ e.path.field = SummaryField} # {}

\* The ledger enters what the applied changes cut and what they shortened.
LEMMA LedgerOfFit ==
    ASSUME NEW doc, IsSource(doc), NEW trims \in SUBSET Positions(doc),
           NEW C \in SUBSET LongPaths(doc), NEW A, Selects(doc, trims, C, A)
    PROVE  /\ CutBy(A, Len(A)) \subseteq {f \in Lists : Named(doc, f, trims) # {}}
           /\ ShortBy(A, Len(A)) \subseteq C
           /\ LedgerSays(doc, trims, FitLedger(doc, ToSet(A), trims),
                         CutBy(A, Len(A)), ShortBy(A, Len(A)))
<1> DEFINE cut == CutBy(A, Len(A))
           short == ShortBy(A, Len(A))
           ledger == FitLedger(doc, ToSet(A), trims)
           Drop(p) == [path |-> p, token |-> ItemAt(doc, p), fate |-> "dropped"]
           Short(c) == [path |-> c.path, token |-> c.original.words, fate |-> "compressed"]
           Compr(p) == [path |-> p, token |-> ValueAt(doc, p).words, fate |-> "compressed"]
<1>1. /\ DOMAIN A = 1 .. Len(A)
      /\ \A i \in DOMAIN A : Cuts(doc, trims, A[i]) \/ Shortens(doc, C, A[i])
    BY DEF Selects
<1>2. \A i \in DOMAIN A : A[i].action = "remove" =>
          A[i].path.field \in {f \in Lists : Named(doc, f, trims) # {}}
    <2> TAKE i \in DOMAIN A
    <2> HAVE A[i].action = "remove"
    <2>1. CASE Cuts(doc, trims, A[i])
        <3>1. PICK f \in Lists : Named(doc, f, trims) # {} /\ A[i] = Removal(doc, f, trims)
            BY <2>1 DEF Cuts
        <3>2. A[i].path.field = f
            BY <3>1, RemovalIsChange
        <3> QED
            BY <3>1, <3>2
    <2>2. CASE Shortens(doc, C, A[i])
        BY <2>2, CompressionIsChange DEF Shortens
    <2> QED
        BY <1>1, <2>1, <2>2
<1>3. \A i \in DOMAIN A : A[i].action = "replace" =>
          A[i].path \in C /\ A[i].original = ValueAt(doc, A[i].path)
    <2> TAKE i \in DOMAIN A
    <2> HAVE A[i].action = "replace"
    <2>1. CASE Cuts(doc, trims, A[i])
        BY <2>1, RemovalIsChange DEF Cuts
    <2>2. CASE Shortens(doc, C, A[i])
        BY <2>2, CompressionIsChange DEF Shortens
    <2> QED
        BY <1>1, <2>1, <2>2
<1>4. cut \subseteq {f \in Lists : Named(doc, f, trims) # {}} /\ short \subseteq C
    BY <1>1, <1>2, <1>3 DEF CutBy, ShortBy
<1>5. {Drop(p) : p \in Dropped(ToSet(A), trims)} = {Drop(p) : p \in {q \in trims : q.field \in cut}}
    <2>1. Dropped(ToSet(A), trims) = {q \in trims : q.field \in cut}
        BY <1>1 DEF Dropped, CutBy, ToSet
    <2> HIDE DEF cut, Drop
    <2> QED
        BY <2>1
<1>6. {Short(c) : c \in {d \in ToSet(A) : d.action = "replace"}} = {Compr(p) : p \in short}
    <2>1. \A c \in {d \in ToSet(A) : d.action = "replace"} : c.path \in short /\ Short(c) = Compr(c.path)
        BY <1>1, <1>3 DEF ShortBy, ToSet
    <2>2. \A p \in short : \E c \in {d \in ToSet(A) : d.action = "replace"} : c.path = p
        BY <1>1 DEF ShortBy, ToSet
    <2> HIDE DEF Short, Compr, short
    <2> QED
        BY <2>1, <2>2
<1>7. ledger = {Drop(p) : p \in {q \in trims : q.field \in cut}} \cup {Compr(p) : p \in short}
    BY <1>5, <1>6 DEF FitLedger
<1>8. /\ \A p : Drop(p).path = p /\ Drop(p).fate = "dropped"
      /\ \A p : Compr(p).path = p /\ Compr(p).fate = "compressed"
    OBVIOUS
<1>9. ASSUME NEW f \in Lists
      PROVE  {e \in ledger : e.fate = "dropped" /\ e.path.field = f}
                 = EntriesAt(f, doc[f].items, CutAt(doc, trims, cut, f), "dropped")
    <2>1. {e \in ledger : e.fate = "dropped" /\ e.path.field = f}
              = {Drop(p) : p \in {q \in trims : q.field \in cut /\ q.field = f}}
        <3> HIDE DEF Drop, Compr, ledger, cut, short
        <3> QED
            BY <1>7, <1>8
    <2>2. \A p \in trims : p.field = f => \E i \in Named(doc, f, trims) : p = Path(f, i)
        <3> TAKE p \in trims
        <3> HAVE p.field = f
        <3>1. PICK g \in Lists : p \in {Path(g, i) : i \in DOMAIN doc[g].items}
            BY DEF Positions
        <3>2. PICK i \in DOMAIN doc[g].items : p = Path(g, i)
            BY <3>1
        <3>3. g = f
            BY <3>2 DEF Path
        <3> QED
            BY <3>2, <3>3 DEF Named
    <2>3. \A i \in Named(doc, f, trims) : Path(f, i) \in trims /\ Path(f, i).field = f
        BY DEF Named, Path
    <2>4. \A i : Drop(Path(f, i)) = [path |-> Path(f, i), token |-> doc[f].items[i], fate |-> "dropped"]
        BY DEF ItemAt, Path
    <2> DEFINE E(i) == [path |-> Path(f, i), token |-> doc[f].items[i], fate |-> "dropped"]
    <2>5. EntriesAt(f, doc[f].items, CutAt(doc, trims, cut, f), "dropped")
            = IF f \in cut THEN {E(i) : i \in Named(doc, f, trims)} ELSE {}
        BY DEF EntriesAt, CutAt
    <2>6. \A i : Drop(Path(f, i)) = E(i)
        BY <2>4
    <2> HIDE DEF Drop, E, cut, ledger
    <2>7. {Drop(p) : p \in {q \in trims : q.field \in cut /\ q.field = f}}
            = IF f \in cut THEN {E(i) : i \in Named(doc, f, trims)} ELSE {}
        BY <2>2, <2>3, <2>6
    <2> QED
        BY <2>1, <2>5, <2>7
<1>10. ASSUME NEW f \in Lists
      PROVE  {e \in ledger : e.fate = "compressed" /\ e.path.field = f}
                 = EntriesAt(f, doc[f].items, ShortAt(doc, short, f), "compressed")
    <2>1. {e \in ledger : e.fate = "compressed" /\ e.path.field = f}
              = {Compr(p) : p \in {q \in short : q.field = f}}
        <3> HIDE DEF Drop, Compr, ledger, cut, short
        <3> QED
            BY <1>7, <1>8
    <2> DEFINE E(i) == [path |-> Path(f, i), token |-> doc[f].items[i], fate |-> "compressed"]
    <2>2. \A p \in short : p.field = f => \E i \in ShortAt(doc, short, f) : p = Path(f, i)
        <3> TAKE p \in short
        <3> HAVE p.field = f
        <3>1. p \in LongPaths(doc)
            BY <1>4
        <3>2. p.index \in DOMAIN doc[f].items /\ p = Path(f, p.index)
            BY <3>1, LongPathsAreTexts
        <3> HIDE DEF short
        <3>3. p.index \in ShortAt(doc, short, f)
            BY <3>2 DEF ShortAt
        <3> QED
            BY <3>2, <3>3
    <2>3. \A i \in ShortAt(doc, short, f) : /\ Path(f, i) \in short /\ Path(f, i).field = f
                                            /\ Compr(Path(f, i)) = E(i)
        <3> TAKE i \in ShortAt(doc, short, f)
        <3>1. Path(f, i) \in short /\ Path(f, i).field = f /\ Path(f, i).index = i
            BY DEF ShortAt, Path
        <3>2. ValueAt(doc, Path(f, i)).words = doc[f].items[i]
            BY <1>4, <3>1, LongPathsAreTexts
        <3> QED
            BY <3>1, <3>2
    <2>4. EntriesAt(f, doc[f].items, ShortAt(doc, short, f), "compressed")
            = {E(i) : i \in ShortAt(doc, short, f)}
        BY DEF EntriesAt
    <2> HIDE DEF Compr, E, short, ledger
    <2>5. {Compr(p) : p \in {q \in short : q.field = f}} = {E(i) : i \in ShortAt(doc, short, f)}
        BY <2>2, <2>3
    <2> QED
        BY <2>1, <2>4, <2>5
<1>11. Path(SummaryField, 0) \in short =>
          {e \in ledger : e.fate = "compressed" /\ e.path.field = SummaryField} # {}
    <2>1. Path(SummaryField, 0).field = SummaryField
        BY DEF Path
    <2> HIDE DEF Drop, Compr, ledger, cut, short
    <2> QED
        BY <1>7, <1>8, <2>1
<1> QED
    BY <1>4, <1>9, <1>10, <1>11 DEF LedgerSays

-----------------------------------------------------------------------------
(* What a fit lost, kept and shortened.                                    *)

\* A final file, with the lists its fit cut and the texts it shortened.
FitOutcome(source, doc, ledger, trims, C, cut, short) ==
    /\ IsSource(source)
    /\ trims \in SUBSET Positions(source)
    /\ C \in SUBSET LongPaths(source)
    /\ C \cap trims = {}
    /\ Preserving(source, C)
    /\ cut \subseteq {f \in Lists : Named(source, f, trims) # {}}
    /\ short \subseteq C
    /\ FitState(source, trims, doc, cut, short)
    /\ LedgerSays(source, trims, ledger, cut, short)

\* CountOf counts the items of one comparison key.
LEMMA CountIsHowMany ==
    ASSUME NEW items \in Seq(Seq(Word)), NEW t
    PROVE  /\ CountOf(items, t) = HowMany(items, Spelt(Fold(t)))
           /\ CountOf(items, t) \in Nat
<1> DEFINE K == Spelt(Fold(t))
<1>1. {i \in DOMAIN items : Fold(items[i]) = Fold(t)} = {i \in DOMAIN items : items[i] \in K}
    BY DEF Spelt
<1>2. CountOf(items, t) = HowMany(items, K)
    BY <1>1 DEF CountOf, HowMany
<1> HIDE DEF K
<1>3. HowMany(items, K) \in Nat
    BY HowManyType
<1> QED
    BY <1>2, <1>3 DEF K

\* What of a kind is gone was cut, or was shortened: the positions of both are apart.
LEMMA CountsAccounted ==
    ASSUME NEW source, NEW doc, NEW ledger, NEW trims, NEW C, NEW cut, NEW short,
           FitOutcome(source, doc, ledger, trims, C, cut, short),
           NEW f \in Lists, NEW t
    PROVE  LET items == source[f].items
               K == Spelt(Fold(t))
               A == CutAt(source, trims, cut, f)
               S == ShortAt(source, short, f)
           IN  /\ doc[f].items \in Seq(Seq(Word))
               /\ items \in Seq(Seq(Word))
               /\ A \in SUBSET DOMAIN items /\ S \in SUBSET DOMAIN items /\ A \cap S = {}
               /\ CountOf(items, t) <= CountOf(doc[f].items, t)
                      + Cardinality(Among(items, A, K)) + Cardinality(Among(items, S, K))
               /\ Len(items) = Len(doc[f].items) + Cardinality(A)
<1> DEFINE items == source[f].items
           K == Spelt(Fold(t))
           A == CutAt(source, trims, cut, f)
           S == ShortAt(source, short, f)
           F == FitItems(source, trims, cut, short, f)
           L == Left(source, trims, cut, f)
<1>1. /\ IsSource(source) /\ short \in SUBSET LongPaths(source) /\ C \cap trims = {} /\ short \subseteq C
      /\ ListState(source, trims, doc, cut, short, f)
    BY DEF FitOutcome, FitState
<1>2. /\ f \in cut => ~Removed(source, trims, f).missing
      /\ doc[f].items = F
    BY <1>1 DEF ListState, List
<1>3. F \in Seq(Seq(Word)) /\ DOMAIN F = DOMAIN L /\ Len(F) = Len(L)
    <2>1. IsSource(source) /\ short \in SUBSET LongPaths(source)
        BY <1>1
    <2>2. /\ F \in Seq(Seq(Word)) /\ DOMAIN F = DOMAIN L /\ Len(F) = Len(L)
          /\ \A i \in DOMAIN F : Path(f, i) \notin short => F[i] = L[i]
        BY <2>1, FitItemForms DEF FormsOf
    <2> QED
        BY <2>2
<1>4. items \in Seq(Seq(Word)) /\ L \in Seq(Seq(Word))
    BY <1>1, LeftItems
<1>5. A \in SUBSET DOMAIN items /\ S \in SUBSET DOMAIN items /\ A \cap S = {}
    BY <1>1 DEF CutAt, Named, ShortAt
<1>6. HowMany(L, K) + Cardinality(Among(items, A, K)) = HowMany(items, K)
    BY <1>1, <1>2, LeftCounts
<1>7. HowMany(L, K) <= HowMany(doc[f].items, K) + Cardinality(Among(items, S, K))
    BY <1>1, ShortCounts
<1>8. Len(L) + Cardinality(A) = Len(items)
    BY <1>1, <1>2, LengthLeft
<1>9. CountOf(items, t) = HowMany(items, K) /\ CountOf(F, t) = HowMany(F, K)
    BY <1>3, <1>4, CountIsHowMany
<1> HIDE DEF items, K, A, S, F, L
<1>10. /\ HowMany(L, K) \in Nat /\ HowMany(F, K) \in Nat /\ HowMany(items, K) \in Nat
       /\ Cardinality(Among(items, A, K)) \in Nat /\ Cardinality(Among(items, S, K)) \in Nat
    BY <1>3, <1>4, <1>5, HowManyType, AmongType
<1>11. CountOf(items, t) <= CountOf(F, t) + Cardinality(Among(items, A, K)) + Cardinality(Among(items, S, K))
    BY <1>2, <1>6, <1>7, <1>9, <1>10
<1> QED
    BY <1>2, <1>3, <1>4, <1>5, <1>8, <1>11 DEF items, K, A, S

Like(E, t) == {e \in E : Fold(e.token) = Fold(t)}

\* The entries that read like a text are as many as the cut and the shortened
\* items that do.
LEMMA EntriesLike ==
    ASSUME NEW f, NEW items \in Seq(Seq(Word)), NEW I \in SUBSET DOMAIN items,
           NEW J \in SUBSET DOMAIN items, NEW t
    PROVE  LET E == EntriesAt(f, items, I, "dropped") \cup EntriesAt(f, items, J, "compressed")
               K == Spelt(Fold(t))
           IN  /\ IsFiniteSet(Like(E, t))
               /\ Cardinality(Like(E, t)) = Cardinality(Among(items, I, K)) + Cardinality(Among(items, J, K))
<1> DEFINE K == Spelt(Fold(t))
           E == EntriesAt(f, items, I, "dropped") \cup EntriesAt(f, items, J, "compressed")
           D == EntriesAt(f, items, Among(items, I, K), "dropped")
           R == EntriesAt(f, items, Among(items, J, K), "compressed")
           T == Like(E, t)
<1>1. \A i \in DOMAIN items : items[i] \in K <=> Fold(items[i]) = Fold(t)
    BY DEF Spelt
<1> HIDE DEF K
<1>2. T = D \cup R
    BY <1>1 DEF EntriesAt, Among, Like
<1>3. D \cap R = {}
    BY DEF EntriesAt
<1>4. /\ IsFiniteSet(Among(items, I, K)) /\ Cardinality(Among(items, I, K)) \in Nat
      /\ IsFiniteSet(Among(items, J, K)) /\ Cardinality(Among(items, J, K)) \in Nat
    BY AmongType
<1>5. /\ IsFiniteSet(D) /\ Cardinality(D) = Cardinality(Among(items, I, K))
      /\ IsFiniteSet(R) /\ Cardinality(R) = Cardinality(Among(items, J, K))
    BY <1>4, EntryCount
<1> HIDE DEF D, R, T
<1>6. /\ IsFiniteSet(D \cup R)
      /\ Cardinality(D \cup R) = Cardinality(D) + Cardinality(R) - Cardinality(D \cap R)
    BY <1>5, FS_Union
<1>7. Cardinality(D \cap R) = 0
    BY <1>3, FS_EmptySet
<1>8. IsFiniteSet(T) /\ Cardinality(T) = Cardinality(Among(items, I, K)) + Cardinality(Among(items, J, K))
    BY <1>2, <1>4, <1>5, <1>6, <1>7
<1> QED
    BY <1>8 DEF T, K, E

LossesLedgered(source, doc, ledger) ==
    /\ source[SummaryField] # doc[SummaryField] =>
          {e \in ledger : e.fate = "compressed" /\ e.path.field = SummaryField} # {}
    /\ \A f \in Lists :
          LET before     == source[f].items
              after      == doc[f].items
              dropped    == {e \in ledger : e.fate = "dropped" /\ e.path.field = f}
              compressed == {e \in ledger : e.fate = "compressed" /\ e.path.field = f}
          IN  /\ Len(before) = Len(after) + Cardinality(dropped)
              /\ \A t \in ToSet(before) :
                    CountOf(before, t) <= CountOf(after, t)
                        + Cardinality({e \in dropped \cup compressed : Fold(e.token) = Fold(t)})

LEMMA FitLosesNothingUnledgered ==
    ASSUME NEW source, NEW doc, NEW ledger, NEW trims, NEW C, NEW cut, NEW short,
           FitOutcome(source, doc, ledger, trims, C, cut, short)
    PROVE  LossesLedgered(source, doc, ledger)
<1>0. LedgerSays(source, trims, ledger, cut, short) /\ SummaryState(source, doc, short)
    BY DEF FitOutcome, FitState
<1>1. ASSUME source[SummaryField] # doc[SummaryField]
      PROVE  {e \in ledger : e.fate = "compressed" /\ e.path.field = SummaryField} # {}
    BY <1>0, <1>1 DEF SummaryState, LedgerSays
<1>2. ASSUME NEW f \in Lists
      PROVE  LET before     == source[f].items
                 after      == doc[f].items
                 dropped    == {e \in ledger : e.fate = "dropped" /\ e.path.field = f}
                 compressed == {e \in ledger : e.fate = "compressed" /\ e.path.field = f}
             IN  /\ Len(before) = Len(after) + Cardinality(dropped)
                 /\ \A t \in ToSet(before) :
                       CountOf(before, t) <= CountOf(after, t)
                           + Cardinality({e \in dropped \cup compressed : Fold(e.token) = Fold(t)})
    <2> DEFINE items      == source[f].items
               after      == doc[f].items
               A          == CutAt(source, trims, cut, f)
               S          == ShortAt(source, short, f)
               dropped    == {e \in ledger : e.fate = "dropped" /\ e.path.field = f}
               compressed == {e \in ledger : e.fate = "compressed" /\ e.path.field = f}
    <2>1. dropped = EntriesAt(f, items, A, "dropped") /\ compressed = EntriesAt(f, items, S, "compressed")
        BY <1>0, <1>2 DEF LedgerSays
    <2>2. \A t : /\ after \in Seq(Seq(Word))
                 /\ items \in Seq(Seq(Word))
                 /\ A \in SUBSET DOMAIN items /\ S \in SUBSET DOMAIN items
                 /\ CountOf(items, t) <= CountOf(after, t)
                      + Cardinality(Among(items, A, Spelt(Fold(t))))
                      + Cardinality(Among(items, S, Spelt(Fold(t))))
                 /\ Len(items) = Len(after) + Cardinality(A)
        BY <1>2, CountsAccounted
    <2> HIDE DEF dropped, compressed, items, after, A, S
    <2>3. IsFiniteSet(A)
        <3> DEFINE n == Len(items)
        <3>1. n \in Nat /\ A \in SUBSET (1 .. n)
            BY <2>2
        <3> HIDE DEF n
        <3>2. IsFiniteSet(1 .. n)
            BY <3>1, FS_Interval
        <3> QED
            BY <3>1, <3>2, FS_Subset
    <2>4. Cardinality(dropped) = Cardinality(A)
        BY <2>1, <2>3, EntryCount
    <2>5. ASSUME NEW t
          PROVE  CountOf(items, t) <= CountOf(after, t)
                     + Cardinality({e \in dropped \cup compressed : Fold(e.token) = Fold(t)})
        <3> DEFINE T == {e \in dropped \cup compressed : Fold(e.token) = Fold(t)}
                   a == Cardinality(Among(items, A, Spelt(Fold(t))))
                   s == Cardinality(Among(items, S, Spelt(Fold(t))))
        <3>1. Cardinality(T) = a + s
            <4> DEFINE E == EntriesAt(f, items, A, "dropped") \cup EntriesAt(f, items, S, "compressed")
                       U == Like(E, t)
            <4>1. U = T
                BY <2>1 DEF Like
            <4>2. items \in Seq(Seq(Word)) /\ A \in SUBSET DOMAIN items /\ S \in SUBSET DOMAIN items
                BY <2>2
            <4>3. Cardinality(U) = a + s
                <5> HIDE DEF items, A, S
                <5> QED
                    BY <4>2, EntriesLike
            <4> HIDE DEF U, T
            <4> QED
                BY <4>1, <4>3
        <3>2. a \in Nat /\ s \in Nat /\ CountOf(after, t) \in Nat
            BY <2>2, AmongType, CountIsHowMany
        <3>3. CountOf(items, t) <= CountOf(after, t) + a + s
            BY <2>2
        <3> HIDE DEF T, a, s
        <3>4. CountOf(items, t) <= CountOf(after, t) + Cardinality(T)
            <4>1. CountOf(after, t) + a + s = CountOf(after, t) + Cardinality(T)
                BY <3>1, <3>2
            <4> QED
                BY <3>3, <4>1
        <3> QED
            BY <3>4 DEF T
    <2> QED
        BY <2>2, <2>4, <2>5 DEF items, after, dropped, compressed
<1> QED
    BY <1>1, <1>2 DEF LossesLedgered

DeferredKept(source, doc, ledger, deferred) ==
    \A f \in Lists :
        LET shortened == {e.path : e \in {d \in ledger : d.fate = "compressed" /\ d.path.field = f}}
            held      == {p \in deferred : p.field = f}
        IN  /\ \A p \in held \cap shortened :
                    Shortened(ItemAt(source, p)) \in ToSet(doc[f].items)
            /\ \A t \in ToSet(source[f].items) :
                    Cardinality({p \in held \ shortened :
                                    Fold(ItemAt(source, p)) = Fold(t)})
                        <= CountOf(doc[f].items, t)

\* Of the items outside two disjoint sets of positions at least the rest are left.
LEMMA RestOfKind ==
    ASSUME NEW items \in Seq(Seq(Word)), NEW A \in SUBSET DOMAIN items,
           NEW S \in SUBSET DOMAIN items, A \cap S = {}, NEW t
    PROVE  LET K == Spelt(Fold(t))
               Y == Among(items, DOMAIN items \ (A \cup S), K)
           IN  /\ IsFiniteSet(Y) /\ Cardinality(Y) \in Nat
               /\ Cardinality(Y) + Cardinality(Among(items, A, K)) + Cardinality(Among(items, S, K))
                      = CountOf(items, t)
<1> DEFINE K == Spelt(Fold(t))
           Y == Among(items, DOMAIN items \ (A \cup S), K)
           a == Among(items, A, K)
           s == Among(items, S, K)
           Z == {i \in DOMAIN items : items[i] \in K}
<1>1. CountOf(items, t) = Cardinality(Z)
    <2> HIDE DEF K
    <2> QED
        BY CountIsHowMany DEF HowMany, K
<1> HIDE DEF K
<1>2. /\ IsFiniteSet(a) /\ Cardinality(a) \in Nat
      /\ IsFiniteSet(s) /\ Cardinality(s) \in Nat
      /\ IsFiniteSet(Y) /\ Cardinality(Y) \in Nat
    <2>1. DOMAIN items \ (A \cup S) \in SUBSET DOMAIN items
        OBVIOUS
    <2> QED
        BY <2>1, AmongType
<1>3. Z = Y \cup (a \cup s) /\ Y \cap (a \cup s) = {} /\ a \cap s = {}
    BY DEF Among
<1> HIDE DEF Z, Y, a, s
<1>4. /\ IsFiniteSet(a \cup s)
      /\ Cardinality(a \cup s) = Cardinality(a) + Cardinality(s) - Cardinality(a \cap s)
    BY <1>2, FS_Union
<1>5. Cardinality(a \cap s) = 0 /\ Cardinality(Y \cap (a \cup s)) = 0
    BY <1>3, FS_EmptySet
<1>6. Cardinality(Y \cup (a \cup s)) = Cardinality(Y) + Cardinality(a \cup s) - Cardinality(Y \cap (a \cup s))
    BY <1>2, <1>4, FS_Union
<1>7. Cardinality(Y) + Cardinality(a) + Cardinality(s) = CountOf(items, t)
    BY <1>1, <1>2, <1>3, <1>4, <1>5, <1>6
<1> QED
    BY <1>2, <1>7 DEF Y, a, s, K

LEMMA FitKeepsDeferred ==
    ASSUME NEW source, NEW doc, NEW ledger, NEW trims, NEW C, NEW cut, NEW short,
           FitOutcome(source, doc, ledger, trims, C, cut, short),
           NEW deferred, deferred \cap trims = {},
           \A p \in deferred : p.field \in Lists => p \in Positions(source)
    PROVE  DeferredKept(source, doc, ledger, deferred)
<1> SUFFICES ASSUME NEW f \in Lists
             PROVE  LET shortened == {e.path : e \in {d \in ledger : d.fate = "compressed" /\ d.path.field = f}}
                        held      == {p \in deferred : p.field = f}
                    IN  /\ \A p \in held \cap shortened :
                                Shortened(ItemAt(source, p)) \in ToSet(doc[f].items)
                        /\ \A t \in ToSet(source[f].items) :
                                Cardinality({p \in held \ shortened :
                                                Fold(ItemAt(source, p)) = Fold(t)})
                                    <= CountOf(doc[f].items, t)
    BY DEF DeferredKept
<1> DEFINE items     == source[f].items
           after     == doc[f].items
           A         == CutAt(source, trims, cut, f)
           S         == ShortAt(source, short, f)
           shortened == {e.path : e \in {d \in ledger : d.fate = "compressed" /\ d.path.field = f}}
           held      == {p \in deferred : p.field = f}
<1>1. /\ IsSource(source) /\ short \in SUBSET LongPaths(source)
      /\ ListState(source, trims, doc, cut, short, f)
      /\ LedgerSays(source, trims, ledger, cut, short)
    BY DEF FitOutcome, FitState
<1>2. shortened = {Path(f, i) : i \in S}
    <2>1. {d \in ledger : d.fate = "compressed" /\ d.path.field = f} = EntriesAt(f, items, S, "compressed")
        BY <1>1 DEF LedgerSays
    <2>2. {e.path : e \in EntriesAt(f, items, S, "compressed")} = {Path(f, i) : i \in S}
        <3> DEFINE E == EntriesAt(f, items, S, "compressed")
        <3>1. \A e \in E : \E i \in S : e.path = Path(f, i)
            BY DEF EntriesAt
        <3>2. \A i \in S : \E e \in E : e.path = Path(f, i)
            <4> TAKE i \in S
            <4> DEFINE e == [path |-> Path(f, i), token |-> items[i], fate |-> "compressed"]
            <4>1. e \in E /\ e.path = Path(f, i)
                BY DEF EntriesAt
            <4> QED
                BY <4>1
        <3> HIDE DEF E, S
        <3>3. {e.path : e \in E} = {Path(f, i) : i \in S}
            BY <3>1, <3>2
        <3> QED
            BY <3>3 DEF E
    <2> QED
        BY <2>1, <2>2
<1>3. \A p \in held : \E i \in DOMAIN items : p = Path(f, i) /\ i \notin A
    <2> TAKE p \in held
    <2>1. p \in Positions(source) /\ p.field = f
        OBVIOUS
    <2>2. PICK g \in Lists : p \in {Path(g, i) : i \in DOMAIN source[g].items}
        BY <2>1 DEF Positions
    <2>3. PICK i \in DOMAIN source[g].items : p = Path(g, i)
        BY <2>2
    <2>4. g = f
        BY <2>1, <2>3 DEF Path
    <2>5. i \notin A
        BY <2>3, <2>4 DEF CutAt, Named
    <2> QED
        BY <2>3, <2>4, <2>5
<1>4. \A i : Path(f, i).field = f /\ Path(f, i).index = i
    BY DEF Path
<1>5. ASSUME NEW p \in held \cap shortened
      PROVE  Shortened(ItemAt(source, p)) \in ToSet(after)
    <2>1. PICK i \in S : p = Path(f, i)
        BY <1>2
    <2>2. Path(f, i) \in short
        BY DEF ShortAt
    <2> DEFINE F == FitItems(source, trims, cut, short, f)
               L == Left(source, trims, cut, f)
    <2>3. i \in DOMAIN L /\ after = F
        BY <1>1, <2>2 DEF ListState, List
    <2>4. i \in DOMAIN F /\ F[i] = Shortened(items[i])
        BY <2>2, <2>3 DEF FitItems
    <2>5. ItemAt(source, p) = items[i]
        BY <1>4, <2>1 DEF ItemAt
    <2> HIDE DEF F
    <2> QED
        BY <2>3, <2>4, <2>5 DEF ToSet
<1>6. ASSUME NEW t \in ToSet(items)
      PROVE  Cardinality({p \in held \ shortened : Fold(ItemAt(source, p)) = Fold(t)})
                 <= CountOf(after, t)
    <2> DEFINE K == Spelt(Fold(t))
               Y == Among(items, DOMAIN items \ (A \cup S), K)
               X == {p \in held \ shortened : Fold(ItemAt(source, p)) = Fold(t)}
               at == [p \in X |-> p.index]
               a == Cardinality(Among(items, A, K))
               s == Cardinality(Among(items, S, K))
    <2>1. /\ after \in Seq(Seq(Word)) /\ items \in Seq(Seq(Word))
          /\ A \in SUBSET DOMAIN items /\ S \in SUBSET DOMAIN items /\ A \cap S = {}
          /\ CountOf(items, t) <= CountOf(after, t) + a + s
        BY CountsAccounted
    <2>2. \A p \in X : p.index \in Y /\ p = Path(f, p.index)
        <3> TAKE p \in X
        <3>1. PICK i \in DOMAIN items : p = Path(f, i) /\ i \notin A
            BY <1>3
        <3>2. i \notin S /\ p.index = i /\ ItemAt(source, p) = items[i]
            BY <1>2, <1>4, <3>1 DEF ItemAt
        <3>3. items[i] \in K
            BY <2>1, <3>2 DEF Spelt
        <3> QED
            BY <3>1, <3>2, <3>3 DEF Among
    <2>3. IsFiniteSet(Y) /\ Cardinality(Y) \in Nat /\ Cardinality(Y) + a + s = CountOf(items, t)
        BY <2>1, RestOfKind
    <2>4. a \in Nat /\ s \in Nat /\ CountOf(after, t) \in Nat /\ CountOf(items, t) \in Nat
        BY <2>1, AmongType, CountIsHowMany
    <2> HIDE DEF Y, X, a, s
    <2>5. at \in [X -> Y] /\ \A p, q \in X : at[p] = at[q] => p = q
        BY <2>2
    <2>6. at \in Injection(X, Y)
        BY <2>5 DEF Injection, IsInjective
    <2>7. IsFiniteSet(X) /\ Cardinality(X) <= Cardinality(Y)
        BY <2>3, <2>6, FS_Injection
    <2>8. Cardinality(X) \in Nat
        BY <2>7, FS_CardinalityType
    <2>9. Cardinality(X) <= CountOf(after, t)
        BY <2>1, <2>3, <2>4, <2>7, <2>8
    <2> QED
        BY <2>9 DEF X
<1> QED
    BY <1>5, <1>6

LEMMA TextsOfOne ==
    /\ \A v : Texts([x |-> v]) = TextsOf(v)
    /\ \A w : TextsOf(Text(w)) = {w}
    /\ \A s : TextsOf(List(s)) = ToSet(s)
BY DEF Texts, TextsOf, Text, List, IsText, IsList

OnlySelects(source, doc) ==
    \A f \in Lists \cup {SummaryField} :
        \A t \in Texts([x |-> doc[f]]) \ Texts([x |-> source[f]]) :
            /\ f # SkillsField
            /\ Len(t) <= WordLimit(Path(f, 0))
            /\ \E before \in Texts([x |-> source[f]]) :
                  /\ ToSet(t) \subseteq ToSet(before)
                  /\ Tokens(before) \ Filler \subseteq Tokens(t)

LEMMA FitInventsNothing ==
    ASSUME NEW source, NEW doc, NEW ledger, NEW trims, NEW C, NEW cut, NEW short,
           FitOutcome(source, doc, ledger, trims, C, cut, short)
    PROVE  OnlySelects(source, doc)
<1> SUFFICES ASSUME NEW f \in Lists \cup {SummaryField},
                    NEW t \in Texts([x |-> doc[f]]) \ Texts([x |-> source[f]])
             PROVE  /\ f # SkillsField
                    /\ Len(t) <= WordLimit(Path(f, 0))
                    /\ \E before \in Texts([x |-> source[f]]) :
                          /\ ToSet(t) \subseteq ToSet(before)
                          /\ Tokens(before) \ Filler \subseteq Tokens(t)
    BY DEF OnlySelects
<1>1. /\ IsSource(source) /\ short \in SUBSET LongPaths(source) /\ short \subseteq C
      /\ Preserving(source, C)
      /\ SummaryState(source, doc, short)
      /\ \A g \in Lists : ListState(source, trims, doc, cut, short, g)
    BY DEF FitOutcome, FitState
<1>2. t \in TextsOf(doc[f]) /\ t \notin TextsOf(source[f]) /\ Texts([x |-> source[f]]) = TextsOf(source[f])
    BY TextsOfOne
\* A text that is new is a text shortened.
<1>3. \E p \in short : p.field = f /\ t = Shortened(ValueAt(source, p).words)
                       /\ ValueAt(source, p).words \in TextsOf(source[f])
    <2>1. CASE f = SummaryField
        <3> DEFINE p == Path(SummaryField, 0)
        <3>1. p.field = f /\ ValueAt(source, p).words = source[SummaryField].words
            BY <2>1 DEF Path, ValueAt
        <3>2. source[SummaryField] \in [words : Seq(Word)]
            BY <1>1 DEF IsSource
        <3>3. TextsOf(source[SummaryField]) = {source[SummaryField].words}
            BY <3>2 DEF TextsOf, IsText
        <3>4. p \in short
            BY <1>1, <1>2, <2>1 DEF SummaryState
        <3>5. doc[SummaryField] = Text(Shortened(source[SummaryField].words))
            BY <1>1, <3>4 DEF SummaryState
        <3>6. t = Shortened(source[SummaryField].words)
            BY <1>2, <2>1, <3>5, TextsOfOne
        <3> HIDE DEF p
        <3> QED
            BY <2>1, <3>1, <3>3, <3>4, <3>6
    <2>2. CASE f \in Lists
        <3> DEFINE F == FitItems(source, trims, cut, short, f)
                   L == Left(source, trims, cut, f)
                   items == source[f].items
        <3>1. doc[f] = List(F)
            BY <1>1, <2>2 DEF ListState
        <3>2. source[f] = List(items) /\ items \in Seq(Seq(Word))
            <4>1. source[f] \in [items : Seq(Seq(Word))]
                BY <1>1, <2>2 DEF IsSource
            <4> QED
                BY <4>1 DEF List
        <3>3. TextsOf(doc[f]) = ToSet(F) /\ TextsOf(source[f]) = ToSet(items)
            BY <3>1, <3>2, TextsOfOne
        <3>4. ToSet(L) \subseteq ToSet(items)
            BY <1>1, <2>2, LeftItems
        <3>5. IsSource(source) /\ short \in SUBSET LongPaths(source) /\ f \in Lists
            BY <1>1, <2>2
        <3>6. /\ F \in Seq(Seq(Word)) /\ DOMAIN F = DOMAIN L /\ Len(F) = Len(L)
              /\ \A i \in DOMAIN F : Path(f, i) \notin short => F[i] = L[i]
              /\ \A i \in DOMAIN F : Path(f, i) \in short =>
                     /\ F[i] = Shortened(items[i])
                     /\ ValueAt(source, Path(f, i)).words = items[i]
                     /\ i \in DOMAIN items
            <4>1. FormsOf(source, short, f, F, L)
                BY <3>5, FitItemForms
            <4> HIDE DEF F, L
            <4> QED
                BY <4>1 DEF FormsOf
        <3> HIDE DEF F, L, items
        <3>7. PICK i \in DOMAIN F : F[i] = t
            BY <1>2, <3>3 DEF ToSet
        <3>8. Path(f, i) \in short
            <4> SUFFICES ASSUME Path(f, i) \notin short PROVE FALSE
                OBVIOUS
            <4>1. t \in ToSet(L)
                BY <3>6, <3>7 DEF ToSet
            <4> QED
                BY <1>2, <3>3, <3>4, <4>1
        <3>9. Path(f, i).field = f
            BY DEF Path
        <3>10. items[i] \in ToSet(items)
            BY <3>6, <3>8 DEF ToSet
        <3> QED
            BY <3>3, <3>6, <3>7, <3>8, <3>9, <3>10
    <2> QED
        BY <2>1, <2>2
<1>4. PICK p \in short : p.field = f /\ t = Shortened(ValueAt(source, p).words)
                         /\ ValueAt(source, p).words \in TextsOf(source[f])
    BY <1>3
<1>5. p \in LongPaths(source) /\ p \in C
    BY <1>1
<1>6. f # SkillsField
    BY <1>1, <1>4, <1>5, LongPathsAreTexts, FieldClasses, RankingAssumption DEF Lists
<1>7. Len(t) <= WordLimit(p) /\ WordLimit(p) = WordLimit(Path(f, 0))
    BY <1>1, <1>4, <1>5 DEF Preserving, WordLimit, Path
<1>8. ValueAt(source, p).words \in Seq(Word)
    BY <1>1, <1>5, LongPathsAreTexts
<1>9. /\ ToSet(t) \subseteq ToSet(ValueAt(source, p).words)
      /\ Tokens(ValueAt(source, p).words) \ Filler \subseteq Tokens(t)
    BY <1>4, <1>8, ShortenedWords
<1> QED
    BY <1>2, <1>4, <1>6, <1>7, <1>9

-----------------------------------------------------------------------------
(* The rankers cut as many as they are asked for.                          *)

\* A part of a set of numbered items that takes every item numbered lower than one
\* outside has more than that item has below it.
LEMMA ReachesCount ==
    ASSUME NEW S, IsFiniteSet(S), NEW count \in Nat, count <= Cardinality(S),
           NEW T \in SUBSET S, NEW low \in [S -> SUBSET S],
           \A y \in S \ T : Cardinality(low[y]) >= count,
           \A y \in S : \A x \in low[y] : Cardinality(low[x]) < Cardinality(low[y])
    PROVE  IsFiniteSet(T) /\ Cardinality(T) \in Nat /\ Cardinality(T) >= count
<1>1. IsFiniteSet(T) /\ Cardinality(T) \in Nat /\ Cardinality(S) \in Nat
    BY FS_Subset, FS_CardinalityType
<1>2. CASE S \ T = {}
    <2>1. T = S
        BY <1>2
    <2> QED
        BY <1>1, <2>1
<1>3. CASE S \ T # {}
    <2> DEFINE N == {Cardinality(low[y]) : y \in S \ T}
    <2>1. \A y \in S : IsFiniteSet(low[y]) /\ Cardinality(low[y]) \in Nat
        <3> TAKE y \in S
        <3>1. low[y] \in SUBSET S
            OBVIOUS
        <3>2. IsFiniteSet(low[y])
            BY <3>1, FS_Subset
        <3> QED
            BY <3>2, FS_CardinalityType
    <2>2. N \in SUBSET Nat /\ N # {}
        BY <1>3, <2>1
    <2>3. Min(N) \in N /\ \A n \in N : Min(N) <= n
        BY <2>2, MinOfNaturals
    <2>4. PICK y \in S \ T : Cardinality(low[y]) = Min(N)
        BY <2>3
    <2>5. \A x \in S \ T : Cardinality(low[y]) <= Cardinality(low[x])
        BY <2>3, <2>4
    <2> HIDE DEF N
    <2>6. low[y] \in SUBSET T
        <3> SUFFICES ASSUME NEW x \in low[y], x \notin T PROVE FALSE
            OBVIOUS
        <3>1. x \in S \ T /\ y \in S
            OBVIOUS
        <3>2. Cardinality(low[x]) < Cardinality(low[y]) /\ Cardinality(low[y]) <= Cardinality(low[x])
            BY <2>5, <3>1
        <3>3. Cardinality(low[x]) \in Nat /\ Cardinality(low[y]) \in Nat
            BY <2>1, <3>1
        <3> QED
            BY <3>2, <3>3
    <2>7. Cardinality(low[y]) <= Cardinality(T) /\ Cardinality(low[y]) >= count
        BY <1>1, <2>6, FS_Subset
    <2>8. Cardinality(low[y]) \in Nat
        BY <2>1
    <2> QED
        BY <1>1, <2>7, <2>8
<1> QED
    BY <1>2, <1>3

LEMMA SelectedAreEnough ==
    ASSUME NEW S, IsFiniteSet(S), NEW score \in [S -> Int], NEW count \in Nat,
           count <= Cardinality(S)
    PROVE  LET chosen == Selected(score, count)
           IN  IsFiniteSet(chosen) /\ Cardinality(chosen) \in Nat /\ Cardinality(chosen) >= count
<1> DEFINE chosen == Selected(score, count)
           low == [y \in S |-> Below(score, y)]
<1>1. chosen \in SUBSET S /\ \A y \in S \ chosen : ~(Cardinality(Below(score, y)) < count)
    BY DEF Selected, Below
<1>2. \A y \in S : Below(score, y) \in SUBSET S
    BY DEF Below
<1>3. \A y \in S : Cardinality(Below(score, y)) \in Nat
    BY BelowIsMonotone
<1>4. \A y \in S : \A x \in Below(score, y) :
          x \in S /\ Cardinality(Below(score, x)) < Cardinality(Below(score, y))
    <2> TAKE y \in S
    <2> TAKE x \in Below(score, y)
    <2>1. x \in S /\ score[x] < score[y]
        BY DEF Below
    <2> QED
        BY <2>1, BelowIsMonotone
<1>5. low \in [S -> SUBSET S]
    BY <1>2
<1>6. \A y \in S \ chosen : Cardinality(low[y]) >= count
    BY <1>1, <1>3
<1>7. \A y \in S : \A x \in low[y] : Cardinality(low[x]) < Cardinality(low[y])
    BY <1>4
<1> HIDE DEF chosen, low
<1>8. IsFiniteSet(chosen) /\ Cardinality(chosen) \in Nat /\ Cardinality(chosen) >= count
    BY <1>1, <1>5, <1>6, <1>7, ReachesCount
<1> QED
    BY <1>8 DEF chosen

LEMMA LowestAreEnough ==
    ASSUME NEW S, NEW score \in [S -> Int], NEW items \in SUBSET S, OfOneRole(items),
           NEW count \in Nat, count <= Cardinality(items)
    PROVE  LET chosen == Lowest(score, items, count)
           IN  IsFiniteSet(chosen) /\ Cardinality(chosen) \in Nat /\ Cardinality(chosen) >= count
<1> DEFINE chosen == Lowest(score, items, count)
           low == [y \in items |-> Preceding(score, items, y)]
<1>1. chosen \in SUBSET items /\ \A y \in items \ chosen : ~(Cardinality(Preceding(score, items, y)) < count)
    BY DEF Lowest, Preceding
<1>2. \A y \in items : Preceding(score, items, y) \in SUBSET items
    BY DEF Preceding
<1>3. \A y \in items : Cardinality(Preceding(score, items, y)) \in Nat
    BY RankingIsTotal
<1>4. \A y \in items : \A x \in Preceding(score, items, y) :
          x \in items /\ Cardinality(Preceding(score, items, x)) < Cardinality(Preceding(score, items, y))
    <2> TAKE y \in items
    <2> TAKE x \in Preceding(score, items, y)
    <2>1. x \in items /\ RankedBefore(score, x, y)
        BY DEF Preceding
    <2> QED
        BY <2>1, RankingIsTotal
<1>5. low \in [items -> SUBSET items]
    BY <1>2
<1>6. \A y \in items \ chosen : Cardinality(low[y]) >= count
    BY <1>1, <1>3
<1>7. \A y \in items : \A x \in low[y] : Cardinality(low[x]) < Cardinality(low[y])
    BY <1>4
<1>8. IsFiniteSet(items)
    BY DEF OfOneRole
<1> HIDE DEF chosen, low
<1>9. IsFiniteSet(chosen) /\ Cardinality(chosen) \in Nat /\ Cardinality(chosen) >= count
    BY <1>1, <1>5, <1>6, <1>7, <1>8, ReachesCount
<1> QED
    BY <1>9 DEF chosen

\* Asking for more takes no item back.
LEMMA LowestGrows ==
    ASSUME NEW S, NEW score \in [S -> Int], NEW items \in SUBSET S, OfOneRole(items),
           NEW m \in Nat, NEW n \in Nat, m <= n
    PROVE  Lowest(score, items, m) \subseteq Lowest(score, items, n)
<1> SUFFICES ASSUME NEW p \in Lowest(score, items, m) PROVE p \in Lowest(score, items, n)
    OBVIOUS
<1>1. p \in items /\ Cardinality(Preceding(score, items, p)) < m
    BY DEF Lowest, Preceding
<1>2. Cardinality(Preceding(score, items, p)) \in Nat
    BY <1>1, RankingIsTotal
<1>3. Cardinality(Preceding(score, items, p)) < n
    BY <1>1, <1>2
<1> QED
    BY <1>1, <1>3 DEF Lowest, Preceding

-----------------------------------------------------------------------------
(* What the ranked work does to the budgets.                               *)

LimitOf(f) == IF f = SkillsField THEN Budget.skills ELSE Budget.bullets

\* Every list that loses items is left with its budget, or is of a role chosen for
\* compression and loses one.
CutsInBounds(doc, trims, roles) ==
    \A f \in Lists :
        Named(doc, f, trims) # {} =>
            \/ /\ LimitOf(f) # NoLimit
               /\ Len(doc[f].items) - Cardinality(Named(doc, f, trims)) >= LimitOf(f)
            \/ /\ Cardinality(Named(doc, f, trims)) = 1
               /\ \E k \in roles : Roles[k] = f

\* A list of which nothing is deferred loses all that is over its budget.
CutsEnough(doc, trims, deferred) ==
    \A f \in Lists :
        (\A p \in deferred : p.field # f) =>
            Within(LimitOf(f), Len(doc[f].items) - Cardinality(Named(doc, f, trims)))

LEMMA OverageRange ==
    ASSUME NEW limit \in Nat \cup {NoLimit}, NEW n \in Nat
    PROVE  Overage(limit, n) \in Nat /\ Overage(limit, n) <= n
    BY DEF Overage, NoLimit

LEMMA OverageBounds ==
    ASSUME NEW limit \in Nat \cup {NoLimit}, NEW n \in Nat, NEW c \in Nat
    PROVE  /\ c <= Overage(limit, n) /\ c # 0 => limit # NoLimit /\ n - c >= limit
           /\ c >= Overage(limit, n) => Within(limit, n - c)
    BY DEF Overage, NoLimit, Within

LEMMA LimitTypes ==
    ASSUME NEW doc, IsResume(doc), NEW f \in Lists
    PROVE  /\ LimitOf(f) \in Nat \cup {NoLimit}
           /\ Len(doc[f].items) \in Nat
           /\ DOMAIN doc[f].items = 1 .. Len(doc[f].items)
           /\ IsFiniteSet(DOMAIN doc[f].items)
           /\ Cardinality(DOMAIN doc[f].items) = Len(doc[f].items)
<1>1. Budget.skills \in Nat \cup {NoLimit} /\ Budget.bullets \in Nat \cup {NoLimit}
    BY RankingAssumption
<1>2. doc[f].items \in Seq(Seq(Word))
    BY DEF IsResume
<1>3. Len(doc[f].items) \in Nat /\ DOMAIN doc[f].items = 1 .. Len(doc[f].items)
    BY <1>2
<1> DEFINE n == Len(doc[f].items)
<1>4. IsFiniteSet(1 .. n) /\ Cardinality(1 .. n) = n
    <2> HIDE DEF n
    <2>1. n \in Nat
        BY <1>3 DEF n
    <2> QED
        BY <2>1, FS_Interval
<1> QED
    BY <1>1, <1>3, <1>4 DEF LimitOf

\* The paths of a list and its positions are as many.
LEMMA NamedCount ==
    ASSUME NEW doc, IsResume(doc), NEW f \in Lists, NEW trims
    PROVE  LET paths == {Path(f, i) : i \in Named(doc, f, trims)}
           IN  /\ IsFiniteSet(Named(doc, f, trims)) /\ IsFiniteSet(paths)
               /\ Cardinality(Named(doc, f, trims)) \in Nat
               /\ Cardinality(paths) = Cardinality(Named(doc, f, trims))
<1> DEFINE N == Named(doc, f, trims)
           paths == {Path(f, i) : i \in N}
           at == [i \in N |-> Path(f, i)]
<1>1. N \in SUBSET DOMAIN doc[f].items
    BY DEF Named
<1>2. IsFiniteSet(N) /\ Cardinality(N) \in Nat
    BY <1>1, LimitTypes, FS_Subset, FS_CardinalityType
<1>3. \A i, j : Path(f, i) = Path(f, j) => i = j
    BY DEF Path
<1> HIDE DEF N
<1>4. at \in Bijection(N, paths)
    BY <1>3 DEF Bijection, Injection, Surjection, IsInjective
<1> HIDE DEF paths, at
<1>5. IsFiniteSet(paths) /\ Cardinality(paths) = Cardinality(N)
    BY <1>2, <1>4, FS_Bijection DEF ExistsBijection
<1> QED
    BY <1>2, <1>5 DEF N, paths

\* What the rankers name are items of their lists.
LEMMA RankedSkills ==
    ASSUME NEW doc, NEW job, NEW index, NEW count,
           NEW p \in RankSkills(doc, job, index, count).trim
                     \cup RankSkills(doc, job, index, count).defer
    PROVE  \E i \in DOMAIN doc[SkillsField].items : p = Path(SkillsField, i)
<1> DEFINE S      == DOMAIN doc[SkillsField].items
           score  == [i \in S |-> SkillScore(doc, job, index, i)]
           chosen == Selected(score, count)
           tied   == Tied(score, chosen)
<1>1. RankSkills(doc, job, index, count) =
            [trim  |-> {Path(SkillsField, i) : i \in chosen \ tied},
             defer |-> {Path(SkillsField, i) : i \in tied}]
    BY DEF RankSkills
<1>2. chosen \in SUBSET S
    BY DEF Selected
<1>3. tied \in SUBSET chosen
    BY DEF Tied
<1> HIDE DEF chosen, tied, S
<1>4. \E i \in S : p = Path(SkillsField, i)
    BY <1>1, <1>2, <1>3
<1> QED
    BY <1>4 DEF S

LEMMA RankedBullets ==
    ASSUME NEW doc, NEW job, NEW index, NEW count, NEW r,
           NEW p \in RankRoleBullets(doc, job, index, r, count).trim
                     \cup RankRoleBullets(doc, job, index, r, count).defer
    PROVE  p \in BulletPaths(doc) /\ p.field = r
    BY DEF RankRoleBullets, Lowest

RoleWork(doc, job, index, r) == RankRoleBullets(doc, job, index, r, BulletsOver(doc, r))
SkillsWork(doc, job, index) == RankSkills(doc, job, index, SkillsOver(doc))

\* What is cut of the skills, and what of a role.
LEMMA WorkOfLists ==
    ASSUME NEW doc, IsResume(doc), NEW job \in Job, NEW index, NEW others
    PROVE  LET work     == BudgetWork(doc, job, index)
               deferred == work.defer \cup others
               trims    == Trims(work, deferred)
           IN  /\ trims \in SUBSET Positions(doc)
               /\ work.defer \in SUBSET Positions(doc)
               /\ deferred \cap trims = {}
               /\ SkillsWork(doc, job, index).defer \subseteq deferred
               /\ SkillsWork(doc, job, index).trim \ deferred \subseteq trims
               /\ \A p \in trims : p.field = SkillsField => p \in SkillsWork(doc, job, index).trim
               /\ \A r \in ToSet(Roles) :
                     /\ RoleWork(doc, job, index, r).defer \subseteq deferred
                     /\ RoleWork(doc, job, index, r).trim \ deferred \subseteq trims
                     /\ \A p \in trims : p.field = r =>
                           \/ p \in RoleWork(doc, job, index, r).trim
                           \/ /\ p \in RankRoleBullets(doc, job, index, r, 1).trim
                              /\ \E k \in work.roles : Roles[k] = r
<1> DEFINE skills   == RankSkills(doc, job, index, SkillsOver(doc))
           entries  == RankExperience(doc, job, index, EntriesOver(doc))
           One(k)   == RankRoleBullets(doc, job, index, Roles[k], 1)
           ByRole   == { One(k) : k \in entries.compress }
                       \cup { RoleWork(doc, job, index, r) : r \in ToSet(Roles) }
           work     == BudgetWork(doc, job, index)
           deferred == work.defer \cup others
           trims    == Trims(work, deferred)
<1>1. work = [trim  |-> skills.trim \cup UNION {b.trim : b \in ByRole},
              defer |-> skills.defer \cup UNION {b.defer : b \in ByRole},
              roles |-> entries.defer]
    BY DEF BudgetWork, RoleWork
<1>2. entries.compress \subseteq entries.defer /\ entries.compress \subseteq DOMAIN Roles
    BY DEF RankExperience, Selected
<1>3. \A p \in skills.trim \cup skills.defer :
          p.field = SkillsField /\ \E i \in DOMAIN doc[SkillsField].items : p = Path(SkillsField, i)
    <2>1. \A p \in skills.trim \cup skills.defer :
              \E i \in DOMAIN doc[SkillsField].items : p = Path(SkillsField, i)
        BY RankedSkills
    <2>2. \A i : Path(SkillsField, i).field = SkillsField
        BY DEF Path
    <2> QED
        BY <2>1, <2>2
<1>4. \A k : \A p \in One(k).trim \cup One(k).defer : p \in BulletPaths(doc) /\ p.field = Roles[k]
    <2> TAKE k
    <2> TAKE p \in One(k).trim \cup One(k).defer
    <2> QED
        BY RankedBullets
<1>5. \A r : \A p \in RoleWork(doc, job, index, r).trim \cup RoleWork(doc, job, index, r).defer :
          p \in BulletPaths(doc) /\ p.field = r
    <2> TAKE r
    <2> TAKE p \in RoleWork(doc, job, index, r).trim \cup RoleWork(doc, job, index, r).defer
    <2> QED
        BY RankedBullets DEF RoleWork
<1>6. \A b \in ByRole : \/ \E k \in entries.compress : b = One(k)
                        \/ \E r \in ToSet(Roles) : b = RoleWork(doc, job, index, r)
    OBVIOUS
<1>7. \A r \in ToSet(Roles) : RoleWork(doc, job, index, r) \in ByRole
    OBVIOUS
<1> HIDE DEF ByRole
<1>8. \A k : One(k) = RankRoleBullets(doc, job, index, Roles[k], 1)
    OBVIOUS
<1> HIDE DEF skills, entries, One, work
<1>9. /\ trims = (skills.trim \cup UNION {b.trim : b \in ByRole}) \ deferred
      /\ skills.defer \subseteq deferred
      /\ \A b \in ByRole : b.defer \subseteq deferred
      /\ work.roles = entries.defer
      /\ work.defer = skills.defer \cup UNION {b.defer : b \in ByRole}
    BY <1>1 DEF Trims
<1> HIDE DEF trims, deferred
<1>10. \A b \in ByRole : \A p \in b.trim \cup b.defer : p \in BulletPaths(doc) /\ p.field # SkillsField
    <2> TAKE b \in ByRole
    <2> TAKE p \in b.trim \cup b.defer
    <2>1. p \in BulletPaths(doc)
        BY <1>4, <1>5, <1>6
    <2>2. p.field \in ToSet(Roles)
        BY <2>1 DEF BulletPaths, Path
    <2> QED
        BY <2>1, <2>2, RankingAssumption
<1>11. \A p \in BulletPaths(doc) : p \in Positions(doc)
    BY DEF BulletPaths, Positions, Lists
<1>12. \A p \in skills.trim \cup skills.defer : p \in Positions(doc)
    <2> TAKE p \in skills.trim \cup skills.defer
    <2>1. PICK i \in DOMAIN doc[SkillsField].items : p = Path(SkillsField, i)
        BY <1>3
    <2>2. p \in {Path(SkillsField, j) : j \in DOMAIN doc[SkillsField].items}
        BY <2>1
    <2> QED
        BY <2>2 DEF Positions, Lists
<1>13. trims \in SUBSET Positions(doc)
    BY <1>9, <1>10, <1>11, <1>12
<1>14. work.defer \in SUBSET Positions(doc)
    BY <1>9, <1>10, <1>11, <1>12
<1>15. deferred \cap trims = {}
    BY <1>9
<1>16. skills.trim \ deferred \subseteq trims
    BY <1>9
<1>17. \A p \in trims : p.field = SkillsField => p \in skills.trim
    BY <1>9, <1>10
<1>18. ASSUME NEW r \in ToSet(Roles)
       PROVE  /\ RoleWork(doc, job, index, r).defer \subseteq deferred
              /\ RoleWork(doc, job, index, r).trim \ deferred \subseteq trims
              /\ \A p \in trims : p.field = r =>
                    \/ p \in RoleWork(doc, job, index, r).trim
                    \/ /\ p \in RankRoleBullets(doc, job, index, r, 1).trim
                       /\ \E k \in work.roles : Roles[k] = r
    <2>1. RoleWork(doc, job, index, r).defer \subseteq deferred
          /\ RoleWork(doc, job, index, r).trim \ deferred \subseteq trims
        BY <1>7, <1>9
    <2>2. ASSUME NEW p \in trims, p.field = r
          PROVE  \/ p \in RoleWork(doc, job, index, r).trim
                 \/ /\ p \in RankRoleBullets(doc, job, index, r, 1).trim
                    /\ \E k \in work.roles : Roles[k] = r
        <3>1. p \notin skills.trim
            BY <1>3, <2>2, RankingAssumption
        <3>2. PICK b \in ByRole : p \in b.trim
            BY <1>9, <3>1
        <3>3. CASE \E k \in entries.compress : b = One(k)
            <4>1. PICK k \in entries.compress : b = One(k)
                BY <3>3
            <4>2. Roles[k] = r /\ k \in work.roles
                BY <1>2, <1>4, <1>9, <2>2, <3>2, <4>1
            <4> QED
                BY <1>8, <3>2, <4>1, <4>2
        <3>4. CASE \E q \in ToSet(Roles) : b = RoleWork(doc, job, index, q)
            <4>1. PICK q \in ToSet(Roles) : b = RoleWork(doc, job, index, q)
                BY <3>4
            <4>2. q = r
                BY <1>5, <2>2, <3>2, <4>1
            <4> QED
                BY <3>2, <4>1, <4>2
        <3> QED
            BY <1>6, <3>3, <3>4
    <2> QED
        BY <2>1, <2>2
<1> QED
    BY <1>9, <1>13, <1>14, <1>15, <1>16, <1>17, <1>18 DEF skills, trims, deferred, work, SkillsWork

\* The bound and the reach of the cuts of one list.
ListInBounds(doc, trims, roles, f) ==
    Named(doc, f, trims) # {} =>
        \/ /\ LimitOf(f) # NoLimit
           /\ Len(doc[f].items) - Cardinality(Named(doc, f, trims)) >= LimitOf(f)
        \/ /\ Cardinality(Named(doc, f, trims)) = 1
           /\ \E k \in roles : Roles[k] = f

ListCutEnough(doc, trims, deferred, f) ==
    (\A p \in deferred : p.field # f) =>
        Within(LimitOf(f), Len(doc[f].items) - Cardinality(Named(doc, f, trims)))

LEMMA CutsOfSkills ==
    ASSUME NEW doc, IsResume(doc), NEW job \in Job, NEW index, NEW trims, NEW deferred, NEW roles,
           SkillsWork(doc, job, index).defer \subseteq deferred,
           SkillsWork(doc, job, index).trim \ deferred \subseteq trims,
           \A p \in trims : p.field = SkillsField => p \in SkillsWork(doc, job, index).trim
    PROVE  /\ ListInBounds(doc, trims, roles, SkillsField)
           /\ ListCutEnough(doc, trims, deferred, SkillsField)
<1> DEFINE S      == DOMAIN doc[SkillsField].items
           count  == SkillsOver(doc)
           score  == [i \in S |-> SkillScore(doc, job, index, i)]
           chosen == Selected(score, count)
           tied   == Tied(score, chosen)
           N      == Named(doc, SkillsField, trims)
           n      == Len(doc[SkillsField].items)
           limit  == LimitOf(SkillsField)
<1>1. SkillsWork(doc, job, index) =
          [trim  |-> {Path(SkillsField, i) : i \in chosen \ tied},
           defer |-> {Path(SkillsField, i) : i \in tied}]
    BY DEF SkillsWork, RankSkills
<1>2. SkillsField \in Lists
    BY DEF Lists
<1>3. limit \in Nat \cup {NoLimit} /\ n \in Nat /\ S = 1 .. n /\ IsFiniteSet(S) /\ Cardinality(S) = n
    BY <1>2, LimitTypes
<1>4. count = Overage(limit, n)
    BY DEF SkillsOver, LimitOf
<1>5. count \in Nat /\ count <= n
    BY <1>3, <1>4, OverageRange
<1>6. score \in [S -> Int]
    BY ScoreTypes
<1>7. chosen \in SUBSET S /\ tied \in SUBSET chosen
    BY DEF Selected, Tied
<1>8. N \in SUBSET S /\ IsFiniteSet(N) /\ Cardinality(N) \in Nat
    <2>1. IsFiniteSet(N) /\ Cardinality(N) \in Nat
        BY <1>2, NamedCount
    <2> QED
        BY <2>1 DEF Named
<1>9. \A i \in S : i \in N <=> Path(SkillsField, i) \in trims
    BY DEF Named
<1>10. \A i : Path(SkillsField, i).field = SkillsField
    BY DEF Path
<1>11. \A i, j : Path(SkillsField, i) = Path(SkillsField, j) => i = j
    BY DEF Path
<1> HIDE DEF S, count, score, chosen, N, n, limit
<1>12. N \subseteq chosen \ tied
    <2> SUFFICES ASSUME NEW i \in N PROVE i \in chosen \ tied
        OBVIOUS
    <2>1. Path(SkillsField, i) \in SkillsWork(doc, job, index).trim
        BY <1>8, <1>9, <1>10
    <2> HIDE DEF tied
    <2> QED
        BY <1>1, <1>11, <2>1
<1>13. IsFiniteSet(chosen) /\ Cardinality(chosen) \in Nat /\ Cardinality(chosen) >= count
    BY <1>3, <1>5, <1>6, SelectedAreEnough DEF chosen
<1>14. Cardinality(chosen \ tied) <= count
    BY <1>3, <1>5, <1>6, NeverOvercuts DEF chosen
<1>15. Cardinality(N) <= count
    <2> HIDE DEF tied
    <2>1. IsFiniteSet(chosen \ tied)
        BY <1>13, FS_Subset
    <2>2. Cardinality(N) <= Cardinality(chosen \ tied) /\ Cardinality(chosen \ tied) \in Nat
        BY <1>12, <2>1, FS_Subset, FS_CardinalityType
    <2> QED
        BY <1>5, <1>8, <1>14, <2>2
<1>16. N # {} => limit # NoLimit /\ n - Cardinality(N) >= limit
    <2>1. N # {} => Cardinality(N) # 0
        BY <1>8, FS_EmptySet
    <2> QED
        BY <1>3, <1>4, <1>8, <1>15, <2>1, OverageBounds
<1>17. ASSUME \A p \in deferred : p.field # SkillsField
       PROVE  Within(limit, n - Cardinality(N))
    <2> HIDE DEF tied
    <2>1. tied = {}
        <3> SUFFICES ASSUME NEW i \in tied PROVE FALSE
            OBVIOUS
        <3>1. Path(SkillsField, i) \in SkillsWork(doc, job, index).defer
            BY <1>1
        <3> QED
            BY <1>10, <1>17, <3>1
    <2>2. chosen \subseteq N
        <3> SUFFICES ASSUME NEW i \in chosen PROVE i \in N
            OBVIOUS
        <3>1. Path(SkillsField, i) \in SkillsWork(doc, job, index).trim
            BY <1>1, <2>1
        <3>2. Path(SkillsField, i) \notin deferred
            BY <1>10, <1>17
        <3>3. Path(SkillsField, i) \in trims
            BY <3>1, <3>2
        <3> QED
            BY <1>7, <1>9, <3>3
    <2>3. Cardinality(chosen) <= Cardinality(N)
        BY <1>8, <2>2, FS_Subset
    <2>4. Cardinality(N) >= count
        BY <1>5, <1>8, <1>13, <2>3
    <2> QED
        BY <1>3, <1>4, <1>8, <2>4, OverageBounds
<1>18. ListInBounds(doc, trims, roles, SkillsField)
    BY <1>16 DEF ListInBounds, N, n, limit
<1>19. ListCutEnough(doc, trims, deferred, SkillsField)
    BY <1>17 DEF ListCutEnough, N, n, limit
<1> QED
    BY <1>18, <1>19

LEMMA CutsOfRole ==
    ASSUME NEW doc, IsResume(doc), NEW job \in Job, NEW index, NEW trims, NEW deferred, NEW roles,
           NEW f \in ToSet(Roles), trims \in SUBSET Positions(doc),
           RoleWork(doc, job, index, f).defer \subseteq deferred,
           RoleWork(doc, job, index, f).trim \ deferred \subseteq trims,
           \A p \in trims : p.field = f =>
               \/ p \in RoleWork(doc, job, index, f).trim
               \/ /\ p \in RankRoleBullets(doc, job, index, f, 1).trim
                  /\ \E k \in roles : Roles[k] = f
    PROVE  /\ ListInBounds(doc, trims, roles, f)
           /\ ListCutEnough(doc, trims, deferred, f)
<1> DEFINE S      == BulletPaths(doc)
           score  == [p \in S |-> BulletScore(doc, job, index, p)]
           items  == {p \in S : p.field = f}
           count  == BulletsOver(doc, f)
           chosen == Lowest(score, items, count)
           one    == Lowest(score, items, 1)
           tied   == Tied(score, S)
           N      == Named(doc, f, trims)
           paths  == {Path(f, i) : i \in N}
           n      == Len(doc[f].items)
           limit  == LimitOf(f)
<1>1. /\ RoleWork(doc, job, index, f) = [trim |-> chosen \ tied, defer |-> chosen \cap tied]
      /\ RankRoleBullets(doc, job, index, f, 1).trim = one \ tied
    BY DEF RoleWork, RankRoleBullets
<1>2. f \in Lists /\ f # SkillsField
    BY RankingAssumption DEF Lists
<1>3. /\ limit \in Nat \cup {NoLimit} /\ n \in Nat
      /\ IsFiniteSet(DOMAIN doc[f].items) /\ Cardinality(DOMAIN doc[f].items) = n
    BY <1>2, LimitTypes
<1>4. count = Overage(limit, n)
    BY <1>2 DEF BulletsOver, LimitOf
<1>5. count \in Nat /\ count <= n
    BY <1>3, <1>4, OverageRange
<1>6. score \in [S -> Int]
    BY ScoreTypes
<1>7. OfOneRole(items) /\ items \in SUBSET S
    BY BulletsOfOneRole
<1>8. chosen \in SUBSET items /\ one \in SUBSET items
    BY DEF Lowest
<1>9. IsFiniteSet(N) /\ IsFiniteSet(paths) /\ Cardinality(N) \in Nat /\ Cardinality(paths) = Cardinality(N)
    BY <1>2, NamedCount
<1>10. \A i : Path(f, i).field = f
    BY DEF Path
<1>11. \A p \in paths : p \in trims /\ p.field = f
    BY <1>10 DEF Named
<1>12. items = {Path(f, i) : i \in DOMAIN doc[f].items}
    <2>1. \A i \in DOMAIN doc[f].items : Path(f, i) \in BulletPaths(doc)
        BY DEF BulletPaths
    <2>2. \A p \in BulletPaths(doc) : p.field = f => \E i \in DOMAIN doc[f].items : p = Path(f, i)
        <3> SUFFICES ASSUME NEW p \in BulletPaths(doc), p.field = f
                     PROVE  \E i \in DOMAIN doc[f].items : p = Path(f, i)
            OBVIOUS
        <3>1. PICK r \in ToSet(Roles) : \E i \in DOMAIN doc[r].items : p = Path(r, i)
            BY DEF BulletPaths
        <3>2. PICK i \in DOMAIN doc[r].items : p = Path(r, i)
            BY <3>1
        <3>3. r = f
            BY <3>2 DEF Path
        <3> QED
            BY <3>2, <3>3
    <2> QED
        BY <1>10, <2>1, <2>2
<1>13. \A p \in items : p \in trims => p \in paths
    BY <1>12 DEF Named
<1>14. IsFiniteSet(items) /\ Cardinality(items) = n
    <2> DEFINE all == {Path(f, i) : i \in Named(doc, f, items)}
    <2>1. Named(doc, f, items) = DOMAIN doc[f].items
        BY <1>12 DEF Named
    <2>2. all = items
        BY <1>12, <2>1
    <2>3. IsFiniteSet(all) /\ Cardinality(all) = Cardinality(Named(doc, f, items))
        <3> HIDE DEF items
        <3> QED
            BY <1>2, NamedCount
    <2> QED
        BY <1>3, <2>1, <2>2, <2>3
<1> HIDE DEF S, score, items, count, chosen, one, tied, N, paths, n, limit
<1>15. IsFiniteSet(chosen) /\ Cardinality(chosen) \in Nat /\ Cardinality(chosen) >= count
    BY <1>5, <1>6, <1>7, <1>14, LowestAreEnough DEF chosen
<1>16. Cardinality(chosen) <= count
    BY <1>5, <1>6, <1>7, NeverOvercutsARole DEF chosen
<1>17. Cardinality(one) <= 1
    BY <1>6, <1>7, NeverOvercutsARole DEF one
<1>18. IsFiniteSet(one) /\ Cardinality(one) \in Nat
    BY <1>8, <1>14, FS_Subset, FS_CardinalityType
<1>19. count >= 1 => one \subseteq chosen
    BY <1>5, <1>6, <1>7, LowestGrows DEF one, chosen
<1>20. \A p \in paths : p \in chosen \/ (p \in one /\ \E k \in roles : Roles[k] = f)
    BY <1>1, <1>11
<1>21. ASSUME count >= 1
       PROVE  ListInBounds(doc, trims, roles, f)
    <2>1. paths \subseteq chosen
        BY <1>19, <1>20, <1>21
    <2>2. Cardinality(paths) <= Cardinality(chosen)
        BY <1>15, <2>1, FS_Subset
    <2>3. Cardinality(N) <= count
        BY <1>5, <1>9, <1>15, <1>16, <2>2
    <2>4. N # {} => Cardinality(N) # 0
        BY <1>9, FS_EmptySet
    <2>5. N # {} => limit # NoLimit /\ n - Cardinality(N) >= limit
        BY <1>3, <1>4, <1>9, <2>3, <2>4, OverageBounds
    <2> QED
        BY <2>5 DEF ListInBounds, N, n, limit
<1>22. ASSUME count = 0
       PROVE  ListInBounds(doc, trims, roles, f)
    <2>1. Cardinality(chosen) = 0
        BY <1>15, <1>16, <1>22
    <2>2. chosen = {}
        BY <1>15, <2>1, FS_EmptySet
    <2>3. paths \subseteq one /\ (paths # {} => \E k \in roles : Roles[k] = f)
        BY <1>20, <2>2
    <2>4. Cardinality(paths) <= 1
        <3>1. Cardinality(paths) <= Cardinality(one)
            BY <1>18, <2>3, FS_Subset
        <3> QED
            BY <1>9, <1>17, <1>18, <3>1
    <2>5. N # {} => Cardinality(N) = 1
        <3>1. N # {} => Cardinality(N) # 0
            BY <1>9, FS_EmptySet
        <3> QED
            BY <1>9, <2>4, <3>1
    <2>6. N # {} => paths # {}
        BY DEF paths
    <2>7. N # {} => Cardinality(N) = 1 /\ \E k \in roles : Roles[k] = f
        BY <2>3, <2>5, <2>6
    <2> QED
        BY <2>7 DEF ListInBounds, N
<1>23. ListInBounds(doc, trims, roles, f)
    BY <1>5, <1>21, <1>22
<1>24. ASSUME \A p \in deferred : p.field # f
       PROVE  Within(limit, n - Cardinality(N))
    <2>1. \A p \in chosen : p.field = f
        BY <1>8 DEF items
    <2>2. chosen \cap tied = {}
        BY <1>1, <1>24, <2>1
    <2>3. chosen \subseteq trims
        BY <1>1, <1>24, <2>1, <2>2
    <2>4. chosen \subseteq paths
        BY <1>8, <1>13, <2>3
    <2>5. Cardinality(chosen) <= Cardinality(paths)
        BY <1>9, <2>4, FS_Subset
    <2>6. Cardinality(N) >= count
        BY <1>5, <1>9, <1>15, <2>5
    <2> QED
        BY <1>3, <1>4, <1>9, <2>6, OverageBounds
<1>25. ListCutEnough(doc, trims, deferred, f)
    BY <1>24 DEF ListCutEnough, N, n, limit
<1> QED
    BY <1>23, <1>25

\* The ranking cuts every list down to its budget where nothing of it is deferred,
\* and never further, but for one bullet of a role chosen for compression.
THEOREM WorkMeetsBudgets ==
    ASSUME NEW doc, IsResume(doc), NEW job \in Job, NEW index, NEW others
    PROVE  LET work     == BudgetWork(doc, job, index)
               deferred == work.defer \cup others
               trims    == Trims(work, deferred)
           IN  CutsInBounds(doc, trims, work.roles) /\ CutsEnough(doc, trims, deferred)
<1> DEFINE work     == BudgetWork(doc, job, index)
           deferred == work.defer \cup others
           trims    == Trims(work, deferred)
           roles    == work.roles
<1>1. /\ trims \in SUBSET Positions(doc)
      /\ SkillsWork(doc, job, index).defer \subseteq deferred
      /\ SkillsWork(doc, job, index).trim \ deferred \subseteq trims
      /\ \A p \in trims : p.field = SkillsField => p \in SkillsWork(doc, job, index).trim
      /\ \A r \in ToSet(Roles) :
            /\ RoleWork(doc, job, index, r).defer \subseteq deferred
            /\ RoleWork(doc, job, index, r).trim \ deferred \subseteq trims
            /\ \A p \in trims : p.field = r =>
                  \/ p \in RoleWork(doc, job, index, r).trim
                  \/ /\ p \in RankRoleBullets(doc, job, index, r, 1).trim
                     /\ \E k \in roles : Roles[k] = r
    BY WorkOfLists
<1> HIDE DEF trims, deferred, roles
<1>2. ASSUME NEW f \in Lists
      PROVE  ListInBounds(doc, trims, roles, f) /\ ListCutEnough(doc, trims, deferred, f)
    <2>1. CASE f = SkillsField
        BY <1>1, <2>1, CutsOfSkills
    <2>2. CASE f \in ToSet(Roles)
        BY <1>1, <2>2, CutsOfRole
    <2> QED
        BY <2>1, <2>2 DEF Lists
<1>3. CutsInBounds(doc, trims, roles)
    BY <1>2 DEF ListInBounds, CutsInBounds
<1>4. CutsEnough(doc, trims, deferred)
    BY <1>2 DEF ListCutEnough, CutsEnough
<1> QED
    BY <1>3, <1>4 DEF trims, deferred, roles

-----------------------------------------------------------------------------
(* What a fit does to the budgets.                                         *)

WithinBudgets(source, doc, ledger, roles) ==
    \A f \in Lists :
        LET left  == Len(doc[f].items)
            extra == When(\E k \in roles : Roles[k] = f, 1)
            limit == IF f = SkillsField THEN Budget.skills ELSE Budget.bullets
        IN  {e \in ledger : e.fate = "dropped" /\ e.path.field = f} # {} =>
                \/ limit # NoLimit /\ left >= limit
                \/ left + extra = Len(source[f].items)

LEMMA SourceIsResume ==
    ASSUME NEW doc, IsSource(doc)
    PROVE  IsResume(doc)
<1> SUFFICES ASSUME NEW f \in Lists PROVE doc[f].items \in Seq(Seq(Word))
    BY DEF IsResume
<1> QED
    BY LeftItems

\* What is left of a list, and how much.
LEMMA ListOfOutcome ==
    ASSUME NEW source, NEW doc, NEW ledger, NEW trims, NEW C, NEW cut, NEW short,
           FitOutcome(source, doc, ledger, trims, C, cut, short),
           NEW f \in Lists
    PROVE  /\ Len(doc[f].items) = Len(source[f].items) - Cardinality(CutAt(source, trims, cut, f))
           /\ Cardinality(CutAt(source, trims, cut, f)) \in Nat
           /\ Len(source[f].items) \in Nat /\ Len(doc[f].items) \in Nat
<1>1. \A t : /\ doc[f].items \in Seq(Seq(Word)) /\ source[f].items \in Seq(Seq(Word))
             /\ Len(source[f].items) = Len(doc[f].items) + Cardinality(CutAt(source, trims, cut, f))
    BY CountsAccounted
<1>2. /\ doc[f].items \in Seq(Seq(Word)) /\ source[f].items \in Seq(Seq(Word))
      /\ Len(source[f].items) = Len(doc[f].items) + Cardinality(CutAt(source, trims, cut, f))
    BY <1>1
<1>3. IsSource(source) /\ (f \in cut => ~Removed(source, trims, f).missing)
    BY DEF FitOutcome, FitState, ListState
<1>4. Cardinality(CutAt(source, trims, cut, f)) \in Nat
    BY <1>3, LengthLeft
<1>5. Len(doc[f].items) \in Nat /\ Len(source[f].items) \in Nat
    BY <1>2
<1> QED
    BY <1>2, <1>4, <1>5

LEMMA FitCutsWithinBudgets ==
    ASSUME NEW source, NEW doc, NEW ledger, NEW trims, NEW C, NEW cut, NEW short,
           FitOutcome(source, doc, ledger, trims, C, cut, short),
           NEW roles, CutsInBounds(source, trims, roles)
    PROVE  WithinBudgets(source, doc, ledger, roles)
<1>1. LedgerSays(source, trims, ledger, cut, short)
    BY DEF FitOutcome
<1>2. ASSUME NEW f \in Lists, {e \in ledger : e.fate = "dropped" /\ e.path.field = f} # {}
      PROVE  LET left  == Len(doc[f].items)
                 extra == When(\E k \in roles : Roles[k] = f, 1)
                 limit == IF f = SkillsField THEN Budget.skills ELSE Budget.bullets
             IN  \/ limit # NoLimit /\ left >= limit
                 \/ left + extra = Len(source[f].items)
    <2> DEFINE left == Len(doc[f].items)
               n    == Len(source[f].items)
               N    == Named(source, f, trims)
               A    == CutAt(source, trims, cut, f)
    <2>1. EntriesAt(f, source[f].items, A, "dropped") # {}
        BY <1>1, <1>2 DEF LedgerSays
    <2>2. A # {}
        BY <2>1 DEF EntriesAt
    <2>3. A = N /\ N # {}
        BY <2>2 DEF CutAt
    <2>4. left = n - Cardinality(A) /\ Cardinality(A) \in Nat /\ n \in Nat /\ left \in Nat
        BY ListOfOutcome
    <2>5. \/ LimitOf(f) # NoLimit /\ n - Cardinality(N) >= LimitOf(f)
          \/ Cardinality(N) = 1 /\ \E k \in roles : Roles[k] = f
        BY <2>3 DEF CutsInBounds
    <2> HIDE DEF left, n, N, A
    <2>6. CASE LimitOf(f) # NoLimit /\ n - Cardinality(N) >= LimitOf(f)
        <3>1. LimitOf(f) # NoLimit /\ left >= LimitOf(f)
            BY <2>3, <2>4, <2>6
        <3> QED
            BY <3>1 DEF LimitOf, left
    <2>7. CASE Cardinality(N) = 1 /\ \E k \in roles : Roles[k] = f
        <3>1. left + 1 = n
            BY <2>3, <2>4, <2>7
        <3>2. When(\E k \in roles : Roles[k] = f, 1) = 1
            BY <2>7 DEF When
        <3> QED
            BY <3>1, <3>2 DEF left, n
    <2> QED
        BY <2>5, <2>6, <2>7
<1> QED
    BY <1>2 DEF WithinBudgets

\* Every removal is applied, and every compression but those left undecided.
Settled(source, trims, C, cut, short, provenance) ==
    /\ \A f \in Lists : Named(source, f, trims) # {} => f \in cut
    /\ \A p \in C : p \in short \/ LeftUndecided(provenance, ValueAt(source, p).words)

\* Every text that is too long is shortened, cut or deferred.
LongAreHandled(source, trims, C, deferred) ==
    LongPaths(source) \subseteq C \cup trims \cup deferred

StillLong(source, deferred, provenance, text, f) ==
    \E p \in ToSet(TooLong(source)) :
        /\ p.field = f /\ Fold(ValueAt(source, p).words) = Fold(text)
        /\ p \in deferred \/ LeftUndecided(provenance, ValueAt(source, p).words)

BudgetsMet(source, doc, deferred, provenance) ==
    /\ \A f \in Lists :
          (\E p \in deferred : p.field = f) \/ Within(LimitOf(f), Len(doc[f].items))
    /\ \A f \in {SummaryField} \cup ToSet(Roles) :
          \A t \in Texts([x |-> doc[f]]) :
              \/ Within(WordLimit(Path(f, 0)), Len(t))
              \/ StillLong(source, deferred, provenance, t, f)

LEMMA FoldLength ==
    ASSUME NEW a \in Seq(Word), NEW b \in Seq(Word), Fold(a) = Fold(b)
    PROVE  Len(a) = Len(b)
<1>1. DOMAIN Fold(a) = DOMAIN a /\ DOMAIN Fold(b) = DOMAIN b
    BY DEF Fold
<1>2. DOMAIN a = DOMAIN b
    BY <1>1
<1> QED
    BY <1>2

LEMMA BudgetTypes ==
    \A w \in Seq(Word) :
        /\ Budget.summaryWords \in Nat \cup {NoLimit} /\ Budget.bulletWords \in Nat \cup {NoLimit}
        /\ Len(w) \in Nat
        /\ Overage(Budget.summaryWords, Len(w)) = 0 <=> Within(Budget.summaryWords, Len(w))
        /\ Overage(Budget.bulletWords, Len(w)) > 0 <=> ~Within(Budget.bulletWords, Len(w))
        /\ Len(w) <= Budget.summaryWords => Within(Budget.summaryWords, Len(w))
        /\ Len(w) <= Budget.bulletWords => Within(Budget.bulletWords, Len(w))
<1> TAKE w \in Seq(Word)
<1>1. Budget.summaryWords \in Nat \cup {NoLimit} /\ Budget.bulletWords \in Nat \cup {NoLimit}
    BY RankingAssumption
<1>2. Len(w) \in Nat
    OBVIOUS
<1> QED
    BY <1>1, <1>2 DEF Overage, Within, NoLimit

LEMMA SummaryMeetsBudget ==
    ASSUME NEW source, NEW doc, NEW ledger, NEW trims, NEW C, NEW cut, NEW short,
           FitOutcome(source, doc, ledger, trims, C, cut, short),
           NEW deferred, NEW provenance, Settled(source, trims, C, cut, short, provenance),
           LongAreHandled(source, trims, C, deferred)
    PROVE  \/ Within(Budget.summaryWords, Len(doc[SummaryField].words))
           \/ StillLong(source, deferred, provenance, doc[SummaryField].words, SummaryField)
<1> DEFINE p == Path(SummaryField, 0)
           w == source[SummaryField].words
<1>1. /\ IsSource(source) /\ C \in SUBSET LongPaths(source) /\ short \subseteq C
      /\ trims \in SUBSET Positions(source)
      /\ SummaryState(source, doc, short) /\ Preserving(source, C)
    BY DEF FitOutcome, FitState
<1>2. w \in Seq(Word)
    BY <1>1 DEF IsSource
<1>3. p.field = SummaryField /\ p.index = 0
    BY DEF Path
<1>4. p \notin trims
    <2> SUFFICES ASSUME p \in trims PROVE FALSE
        OBVIOUS
    <2>1. PICK f \in Lists : p \in {Path(f, i) : i \in DOMAIN source[f].items}
        BY <1>1 DEF Positions
    <2>2. p.field = f
        BY <2>1 DEF Path
    <2> QED
        BY <1>3, <2>2, FieldClasses
<1>5. ASSUME p \in short
      PROVE  Within(Budget.summaryWords, Len(doc[SummaryField].words))
    <2>1. ValueAt(source, p).words = w
        BY <1>3 DEF ValueAt
    <2>2. Len(Shortened(w)) <= Budget.summaryWords
        BY <1>1, <1>3, <1>5, <2>1 DEF Preserving, WordLimit
    <2>3. doc[SummaryField] = Text(Shortened(w))
        BY <1>1, <1>5 DEF SummaryState
    <2>4. doc[SummaryField].words = Shortened(w)
        BY <2>3 DEF Text
    <2> HIDE DEF w
    <2>5. Shortened(w) \in Seq(Word)
        BY <1>2, ShortenedWords
    <2> QED
        BY <2>2, <2>4, <2>5, BudgetTypes
<1>6. ASSUME p \notin short, ~Within(Budget.summaryWords, Len(doc[SummaryField].words))
      PROVE  StillLong(source, deferred, provenance, doc[SummaryField].words, SummaryField)
    <2>1. doc[SummaryField].words = w /\ ValueAt(source, p).words = w
        BY <1>1, <1>3, <1>6 DEF SummaryState, ValueAt
    <2>2. SummaryOver(source) # 0
        BY <1>2, <1>6, <2>1, BudgetTypes DEF SummaryOver
    <2>3. p \in LongPaths(source)
        BY <2>2 DEF LongPaths
    <2>4. p \in ToSet(TooLong(source))
        BY <1>1, <2>3, LongTexts
    <2>5. p \in C \/ p \in deferred
        BY <1>4, <2>3 DEF LongAreHandled
    <2>6. p \in deferred \/ LeftUndecided(provenance, ValueAt(source, p).words)
        BY <1>6, <2>5 DEF Settled
    <2> HIDE DEF w, p
    <2> QED
        BY <1>3, <2>1, <2>4, <2>6 DEF StillLong
<1> QED
    BY <1>5, <1>6

TooWordy == {w \in Seq(Word) : ~Within(Budget.bulletWords, Len(w))}

\* An item left in a list that is too long is shortened, unless the source has an
\* item reading as it does that is deferred or left undecided: the items reading so
\* are otherwise all cut or shortened, and as many are left as are shortened.
LEMMA WordyAreShortened ==
    ASSUME NEW source, NEW doc, NEW ledger, NEW trims, NEW C, NEW cut, NEW short,
           FitOutcome(source, doc, ledger, trims, C, cut, short),
           NEW deferred, NEW provenance, Settled(source, trims, C, cut, short, provenance),
           LongAreHandled(source, trims, C, deferred),
           NEW f \in ToSet(Roles),
           NEW i \in DOMAIN Left(source, trims, cut, f),
           Left(source, trims, cut, f)[i] \in TooWordy,
           ~StillLong(source, deferred, provenance, Left(source, trims, cut, f)[i], f)
    PROVE  Path(f, i) \in short
<1> DEFINE items == source[f].items
           left == Left(source, trims, cut, f)
           A == CutAt(source, trims, cut, f)
           K == {w \in Seq(Word) : Fold(w) = Fold(left[i])}
           S == {j \in ShortAt(source, short, f) : items[j] \in K}
           W == {j \in DOMAIN left : left[j] \in K}
<1>1. /\ IsSource(source) /\ C \in SUBSET LongPaths(source) /\ short \subseteq C
      /\ trims \in SUBSET Positions(source) /\ C \cap trims = {}
      /\ ListState(source, trims, doc, cut, short, f)
      /\ f \in Lists
    BY DEF FitOutcome, FitState, Lists
<1>2. items \in Seq(Seq(Word)) /\ left \in Seq(Seq(Word))
    BY <1>1, LeftItems
<1>3. f \in cut => ~Removed(source, trims, f).missing
    BY <1>1 DEF ListState
<1>4. \A j : Path(f, j).field = f /\ Path(f, j).index = j
    BY DEF Path
<1>5. A = Named(source, f, trims)
    BY <1>1 DEF CutAt, Settled
<1>6. \A j \in DOMAIN items : items[j] \in K => Path(f, j) \in LongPaths(source)
    <2> SUFFICES ASSUME NEW j \in DOMAIN items, items[j] \in K
                 PROVE  Path(f, j) \in LongPaths(source)
        OBVIOUS
    <2>1. Path(f, j) \in BulletPaths(source)
        BY DEF BulletPaths
    <2>2. items[j] \in Seq(Word) /\ left[i] \in Seq(Word) /\ Fold(items[j]) = Fold(left[i])
          /\ ~Within(Budget.bulletWords, Len(left[i]))
        BY <1>2 DEF TooWordy
    <2>3. Len(items[j]) = Len(left[i])
        BY <2>2, FoldLength
    <2>4. BulletOver(source, Path(f, j)) = Overage(Budget.bulletWords, Len(items[j]))
        BY <1>4 DEF BulletOver, ItemAt
    <2> HIDE DEF items, left
    <2>5. BulletOver(source, Path(f, j)) > 0
        BY <2>2, <2>3, <2>4, BudgetTypes
    <2> QED
        BY <2>1, <2>5 DEF LongPaths
<1>7. \A j \in DOMAIN items : items[j] \in K => j \in A \cup S
    <2> SUFFICES ASSUME NEW j \in DOMAIN items, items[j] \in K, j \notin A PROVE j \in S
        OBVIOUS
    <2>1. Path(f, j) \notin trims
        BY <1>5 DEF Named
    <2>2. Path(f, j) \in LongPaths(source)
        BY <1>6
    <2>3. Path(f, j) \in ToSet(TooLong(source))
        BY <1>1, <2>2, LongTexts
    <2>4. ValueAt(source, Path(f, j)).words = items[j]
        <3>1. j # 0
            BY <1>2
        <3> QED
            BY <1>4, <3>1 DEF ValueAt, Text
    <2>5. Fold(ValueAt(source, Path(f, j)).words) = Fold(left[i])
        BY <2>4
    <2>6. Path(f, j) \notin deferred /\ ~LeftUndecided(provenance, ValueAt(source, Path(f, j)).words)
        BY <1>4, <2>3, <2>5 DEF StillLong
    <2>7. Path(f, j) \in C
        BY <2>1, <2>2, <2>6 DEF LongAreHandled
    <2>8. Path(f, j) \in short
        BY <2>6, <2>7 DEF Settled
    <2> QED
        BY <2>8 DEF ShortAt
<1>8. \A j \in S : j \in DOMAIN items /\ items[j] \in K /\ j \notin A /\ j \in W
    <2> TAKE j \in S
    <2>1. j \in DOMAIN items /\ Path(f, j) \in short /\ items[j] \in K
        BY DEF ShortAt
    <2>2. Path(f, j) \notin trims
        BY <1>1, <2>1
    <2>3. j \notin A
        BY <1>5, <2>2 DEF Named
    <2>4. j \in DOMAIN left /\ Fold(left[j]) = Fold(items[j])
        BY <1>1, <2>1 DEF ListState
    <2>5. left[j] \in Seq(Word)
        BY <1>2, <2>4
    <2>6. left[j] \in K
        BY <2>1, <2>4, <2>5
    <2> QED
        BY <2>1, <2>3, <2>4, <2>6
<1>9. A \in SUBSET DOMAIN items /\ S \in SUBSET DOMAIN items
    BY DEF CutAt, Named, ShortAt
<1>10. Cardinality(W) + Cardinality(Among(items, A, K)) = HowMany(items, K)
    <2>1. HowMany(left, K) + Cardinality(Among(items, A, K)) = HowMany(items, K)
        BY <1>1, <1>3, LeftCounts
    <2> QED
        BY <2>1 DEF HowMany
<1> HIDE DEF items, left, A, S, W, K
<1>11. HowMany(items, K) = Cardinality(Among(items, A, K)) + Cardinality(S)
    <2> DEFINE all == {j \in DOMAIN items : items[j] \in K}
               B == Among(items, A, K)
    <2>1. IsFiniteSet(B) /\ Cardinality(B) \in Nat
        BY <1>2, <1>9, AmongType
    <2>2. IsFiniteSet(S) /\ Cardinality(S) \in Nat
        <3>1. S = Among(items, S, K)
            BY <1>8 DEF Among
        <3>2. IsFiniteSet(Among(items, S, K)) /\ Cardinality(Among(items, S, K)) \in Nat
            BY <1>2, <1>9, AmongType
        <3> QED
            BY <3>1, <3>2
    <2>3. all = B \cup S /\ B \cap S = {}
        BY <1>7, <1>8, <1>9 DEF Among
    <2> HIDE DEF B, all
    <2>4. Cardinality(all) = Cardinality(B) + Cardinality(S)
        <3>1. Cardinality(B \cup S) = Cardinality(B) + Cardinality(S) - Cardinality(B \cap S)
            BY <2>1, <2>2, FS_Union
        <3>2. Cardinality(B \cap S) = 0
            BY <2>3, FS_EmptySet
        <3> QED
            BY <2>1, <2>2, <2>3, <3>1, <3>2
    <2> QED
        BY <2>4 DEF all, B, HowMany
<1>12. IsFiniteSet(W) /\ Cardinality(W) \in Nat /\ IsFiniteSet(S) /\ Cardinality(S) \in Nat
    <2>1. W = Among(left, DOMAIN left, K)
        BY DEF Among, W
    <2>2. IsFiniteSet(Among(left, DOMAIN left, K)) /\ Cardinality(Among(left, DOMAIN left, K)) \in Nat
        BY <1>2, AmongType
    <2>3. S \in SUBSET W
        BY <1>8
    <2> QED
        BY <2>1, <2>2, <2>3, FS_Subset, FS_CardinalityType
<1>13. Cardinality(Among(items, A, K)) \in Nat
    BY <1>2, <1>9, AmongType
<1>14. Cardinality(W) = Cardinality(S)
    BY <1>10, <1>11, <1>12, <1>13
<1>15. S \in SUBSET W
    BY <1>8
<1>16. S = W
    BY <1>12, <1>14, <1>15, FS_Subset
<1>17. i \in W
    <2>1. left[i] \in Seq(Word)
        BY DEF left, TooWordy
    <2> QED
        BY <2>1 DEF W, left, K
<1> QED
    BY <1>16, <1>17 DEF S, ShortAt

\* What is over its budget is cut or shortened, deferred or left undecided.
LEMMA FitMeetsBudgets ==
    ASSUME NEW source, NEW doc, NEW ledger, NEW trims, NEW C, NEW cut, NEW short,
           FitOutcome(source, doc, ledger, trims, C, cut, short),
           NEW deferred, NEW provenance, Settled(source, trims, C, cut, short, provenance),
           LongAreHandled(source, trims, C, deferred),
           CutsEnough(source, trims, deferred)
    PROVE  BudgetsMet(source, doc, deferred, provenance)
<1>1. ASSUME NEW f \in Lists, \A p \in deferred : p.field # f
      PROVE  Within(LimitOf(f), Len(doc[f].items))
    <2>1. CutAt(source, trims, cut, f) = Named(source, f, trims)
        BY DEF CutAt, Settled
    <2>2. Len(doc[f].items) = Len(source[f].items) - Cardinality(CutAt(source, trims, cut, f))
        BY ListOfOutcome
    <2>3. Within(LimitOf(f), Len(source[f].items) - Cardinality(Named(source, f, trims)))
        BY <1>1 DEF CutsEnough
    <2> QED
        BY <2>1, <2>2, <2>3
<1>2. ASSUME NEW t \in Texts([x |-> doc[SummaryField]])
      PROVE  \/ Within(WordLimit(Path(SummaryField, 0)), Len(t))
             \/ StillLong(source, deferred, provenance, t, SummaryField)
    <2>1. WordLimit(Path(SummaryField, 0)) = Budget.summaryWords
        BY DEF WordLimit, Path
    <2>2. t = doc[SummaryField].words
        <3>1. IsSource(source) /\ SummaryState(source, doc, short)
            BY DEF FitOutcome, FitState
        <3>2. doc[SummaryField] = Text(doc[SummaryField].words)
            BY <3>1 DEF IsSource, SummaryState, Text
        <3>3. Texts([x |-> doc[SummaryField]]) = {doc[SummaryField].words}
            BY <3>2, TextsOfOne
        <3> QED
            BY <3>3
    <2>3. \/ Within(Budget.summaryWords, Len(doc[SummaryField].words))
          \/ StillLong(source, deferred, provenance, doc[SummaryField].words, SummaryField)
        BY SummaryMeetsBudget
    <2> QED
        BY <2>1, <2>2, <2>3
<1>3. ASSUME NEW f \in ToSet(Roles), NEW t \in Texts([x |-> doc[f]]),
             ~StillLong(source, deferred, provenance, t, f)
      PROVE  Within(WordLimit(Path(f, 0)), Len(t))
    <2>1. f \in Lists /\ f # SummaryField
        BY FieldClasses DEF Lists
    <2>2. WordLimit(Path(f, 0)) = Budget.bulletWords
        BY <2>1 DEF WordLimit, Path
    <2>3. /\ IsSource(source) /\ C \in SUBSET LongPaths(source) /\ short \in SUBSET LongPaths(source)
          /\ short \subseteq C /\ Preserving(source, C)
          /\ ListState(source, trims, doc, cut, short, f)
        BY <2>1 DEF FitOutcome, FitState
    <2> DEFINE F == FitItems(source, trims, cut, short, f)
               L == Left(source, trims, cut, f)
    <2>4. FormsOf(source, short, f, F, L)
        BY <2>1, <2>3, FitItemForms
    <2>5. L \in Seq(Seq(Word))
        BY <2>1, <2>3, LeftItems
    <2>6. doc[f] = List(F)
        BY <2>3 DEF ListState
    <2> HIDE DEF F
    <2>7. t \in ToSet(F)
        BY <2>6, TextsOfOne
    <2>8. PICK i \in DOMAIN F : t = F[i]
        BY <2>7 DEF ToSet
    <2>9. CASE Path(f, i) \in short
        <3> DEFINE w == ValueAt(source, Path(f, i)).words
        <3>1. t = Shortened(w) /\ t \in Seq(Word)
            BY <2>4, <2>8, <2>9 DEF FormsOf
        <3>2. Len(t) <= WordLimit(Path(f, i))
            BY <2>3, <2>9, <3>1 DEF Preserving
        <3>3. WordLimit(Path(f, i)) = Budget.bulletWords
            BY <2>1 DEF WordLimit, Path
        <3> HIDE DEF w
        <3> QED
            BY <2>2, <3>1, <3>2, <3>3, BudgetTypes
    <2>10. CASE Path(f, i) \notin short
        <3>1. t = L[i] /\ i \in DOMAIN L /\ t \in Seq(Word)
            BY <2>4, <2>8, <2>10 DEF FormsOf
        <3>2. L[i] \notin TooWordy
            <4> SUFFICES ASSUME L[i] \in TooWordy PROVE FALSE
                OBVIOUS
            <4>1. ~StillLong(source, deferred, provenance, L[i], f)
                BY <1>3, <3>1
            <4>2. Path(f, i) \in short
                BY <3>1, <4>1, WordyAreShortened
            <4> QED
                BY <2>10, <4>2
        <3> QED
            BY <2>2, <3>1, <3>2 DEF TooWordy
    <2> QED
        BY <2>9, <2>10
<1> QED
    BY <1>1, <1>2, <1>3 DEF BudgetsMet

-----------------------------------------------------------------------------
(* The plan of a fit.                                                      *)

\* What build_perfect has worked out of the resume when it opens the session.
Planned(source, trims, deferred, roles, C, changes) ==
    /\ IsSource(source)
    /\ trims \in SUBSET Positions(source)
    /\ C \in SUBSET LongPaths(source)
    /\ C \cap trims = {}
    /\ Preserving(source, C)
    /\ Proposes(source, trims, C, changes)
    /\ deferred \cap trims = {}
    /\ \A p \in deferred : p.field \in Lists => p \in Positions(source)
    /\ LongAreHandled(source, trims, C, deferred)
    /\ CutsInBounds(source, trims, roles)
    /\ CutsEnough(source, trims, deferred)

\* A compression that is proposed kept its claim, so it is not empty and it fits.
LEMMA ClaimKept ==
    ASSUME NEW doc, NEW p, NEW limit, NEW evidence, ClaimPreserving(doc, p, limit, evidence)
    PROVE  /\ Shortened(ValueAt(doc, p).words) # <<>>
           /\ Len(Shortened(ValueAt(doc, p).words)) <= limit
<1> DEFINE after == Shortened(ValueAt(doc, p).words)
           claim == Claim(p.field, p.index, after)
           rewritten == SetAt(doc, p, Text(after))
<1>1. Len(after) <= limit /\ claim \in CollectClaims(rewritten)
    BY DEF ClaimPreserving
<1>2. claim.words = after
    BY DEF Claim
<1> HIDE DEF claim, rewritten, after
<1>3. claim.words # <<>>
    BY <1>1 DEF CollectClaims
<1> QED
    BY <1>1, <1>2, <1>3 DEF after

LEMMA FitIsPlanned ==
    ASSUME NEW doc, IsSource(doc), NEW job \in Job, NEW index, NEW evidence
    PROVE  LET work      == BudgetWork(doc, job, index)
               long      == TooLong(doc)
               compressed == ItemsAt(long, {i \in DOMAIN long :
                                 ClaimPreserving(doc, long[i], WordLimit(long[i]), evidence)})
               deferred  == work.defer \cup (ToSet(long) \ ToSet(compressed))
               trims     == Trims(work, deferred)
           IN  Planned(doc, trims, deferred, work.roles, ToSet(compressed) \ trims,
                       FitProposals(doc, trims, compressed))
<1> DEFINE work      == BudgetWork(doc, job, index)
           long      == TooLong(doc)
           kept      == {i \in DOMAIN long :
                            ClaimPreserving(doc, long[i], WordLimit(long[i]), evidence)}
           compressed == ItemsAt(long, kept)
           others    == ToSet(long) \ ToSet(compressed)
           deferred  == work.defer \cup others
           trims     == Trims(work, deferred)
           C         == ToSet(compressed) \ trims
<1>1. IsResume(doc)
    BY SourceIsResume
<1>2. long \in Seq(FitPaths) /\ Distinct(long) /\ ToSet(long) = LongPaths(doc)
    BY LongTexts
<1>3. \A i \in kept : Shortened(ValueAt(doc, long[i]).words) # <<>>
                      /\ Len(Shortened(ValueAt(doc, long[i]).words)) <= WordLimit(long[i])
    BY ClaimKept
<1> HIDE DEF long, kept, compressed, others
<1>4. /\ trims \in SUBSET Positions(doc) /\ work.defer \in SUBSET Positions(doc)
      /\ deferred \cap trims = {}
    BY <1>1, WorkOfLists
<1>5. CutsInBounds(doc, trims, work.roles) /\ CutsEnough(doc, trims, deferred)
    BY <1>1, WorkMeetsBudgets
<1> HIDE DEF work
<1>6. compressed \in Seq(FitPaths) /\ ToSet(compressed) = {long[i] : i \in DOMAIN long \cap kept}
    BY <1>2, ItemsAtMembers DEF compressed
<1>7. Distinct(compressed)
    BY <1>2, ItemsAtDistinct DEF compressed
<1>8. ToSet(compressed) \subseteq LongPaths(doc)
    BY <1>2, <1>6 DEF ToSet
<1>9. Preserving(doc, C)
    <2> SUFFICES ASSUME NEW p \in ToSet(compressed)
                 PROVE  LET w == Shortened(ValueAt(doc, p).words)
                        IN  w # <<>> /\ Len(w) <= WordLimit(p)
        BY DEF Preserving
    <2>1. PICK i \in kept : p = long[i]
        BY <1>6
    <2> QED
        BY <1>3, <2>1
<1> HIDE DEF trims
<1>10. Proposes(doc, trims, C, FitProposals(doc, trims, compressed))
    BY <1>4, <1>6, <1>7, <1>8, FitProposes
<1>11. \A p \in deferred : p.field \in Lists => p \in Positions(doc)
    <2> SUFFICES ASSUME NEW p \in LongPaths(doc), p.field \in Lists PROVE p \in Positions(doc)
        BY <1>2, <1>4 DEF others
    <2>1. p.index \in DOMAIN doc[p.field].items /\ p = Path(p.field, p.index)
        BY LongPathsAreTexts
    <2>2. p \in {Path(p.field, i) : i \in DOMAIN doc[p.field].items}
        BY <2>1
    <2> QED
        BY <2>2 DEF Positions
<1>12. LongAreHandled(doc, trims, C, deferred)
    BY <1>2 DEF LongAreHandled, others
<1> HIDE DEF deferred
<1>13. C \in SUBSET LongPaths(doc) /\ C \cap trims = {}
    BY <1>8
<1>14. Planned(doc, trims, deferred, work.roles, C, FitProposals(doc, trims, compressed))
    BY <1>4, <1>5, <1>9, <1>10, <1>11, <1>12, <1>13 DEF Planned
<1> QED
    BY <1>14 DEF work, long, kept, compressed, others, deferred, trims

-----------------------------------------------------------------------------
(* The decisions of the session the fit drives.                            *)

\* A selection keeps the order of the items.
LEMMA ItemsAtOrdered ==
    ASSUME NEW X, NEW s \in Seq(X), NEW I, NEW R,
           \A i, j \in DOMAIN s : i < j => <<s[i], s[j]>> \in R
    PROVE  \A i, j \in DOMAIN ItemsAt(s, I) : i < j => <<ItemsAt(s, I)[i], ItemsAt(s, I)[j]>> \in R
<1> DEFINE n == Len(s)
<1>1. n \in Nat /\ DOMAIN s = 1 .. n /\ \A i \in 1 .. n : s[i] \in X
    OBVIOUS
<1>2. PICK h : SelectingRun(h, s, I) /\ ItemsAt(s, I) = h[n]
    BY ItemsAtRun
<1>3. h[0] = <<>> /\ \A i \in 1 .. n : h[i] = IF i \in I THEN Append(h[i - 1], s[i]) ELSE h[i - 1]
    BY <1>2 DEF SelectingRun
<1> HIDE DEF n
<1> DEFINE good == {i \in 0 .. n :
                       /\ h[i] \in Seq(X)
                       /\ \A a \in DOMAIN h[i] : \E j \in 1 .. i : h[i][a] = s[j]
                       /\ \A a, b \in DOMAIN h[i] : a < b => <<h[i][a], h[i][b]>> \in R}
<1>4. 0 \in good
    <2>1. h[0] \in Seq(X) /\ DOMAIN h[0] = {} /\ 0 \in 0 .. n
        BY <1>1, <1>3
    <2> QED
        BY <2>1
<1>5. \A i \in 1 .. n : i - 1 \in good => i \in good
    <2> SUFFICES ASSUME NEW i \in 1 .. n, i - 1 \in good PROVE i \in good
        OBVIOUS
    <2> DEFINE t == h[i - 1]
               m == Len(t)
    <2>1. /\ t \in Seq(X)
          /\ \A a \in DOMAIN t : \E j \in 1 .. i - 1 : t[a] = s[j]
          /\ \A a, b \in DOMAIN t : a < b => <<t[a], t[b]>> \in R
          /\ i \in 0 .. n /\ i \in Nat /\ i \in DOMAIN s /\ s[i] \in X
          /\ \A j \in 1 .. i - 1 : j \in DOMAIN s /\ j < i /\ j \in 1 .. i
        BY <1>1
    <2>2. h[i] = IF i \in I THEN Append(t, s[i]) ELSE t
        BY <1>3
    <2> HIDE DEF t
    <2>3. CASE i \notin I
        BY <2>1, <2>2, <2>3
    <2>4. CASE i \in I
        <3>1. /\ Append(t, s[i]) \in Seq(X) /\ m \in Nat
              /\ DOMAIN t = 1 .. m /\ DOMAIN Append(t, s[i]) = 1 .. m + 1
              /\ \A a \in 1 .. m : Append(t, s[i])[a] = t[a]
              /\ Append(t, s[i])[m + 1] = s[i]
            BY <2>1
        <3> HIDE DEF m
        <3> DEFINE u == Append(t, s[i])
        <3>2. u \in Seq(X) /\ DOMAIN u = 1 .. m + 1 /\ u[m + 1] = s[i] /\ \A a \in 1 .. m : u[a] = t[a]
            BY <3>1
        <3>3. h[i] = u
            BY <2>2, <2>4
        <3> HIDE DEF u
        <3>4. \A a \in DOMAIN u : a \in 1 .. m \/ a = m + 1
            BY <3>1, <3>2
        <3>5. \A a \in DOMAIN u : \E j \in 1 .. i : u[a] = s[j]
            BY <2>1, <3>1, <3>2, <3>4
        <3>6. \A a, b \in DOMAIN u : a < b => <<u[a], u[b]>> \in R
            <4> SUFFICES ASSUME NEW a \in DOMAIN u, NEW b \in DOMAIN u, a < b
                         PROVE  <<u[a], u[b]>> \in R
                OBVIOUS
            <4>1. a \in 1 .. m
                BY <3>1, <3>2
            <4>2. CASE b = m + 1
                <5>1. PICK j \in 1 .. i - 1 : t[a] = s[j]
                    BY <2>1, <3>1, <4>1
                <5> QED
                    BY <2>1, <3>2, <4>1, <4>2, <5>1
            <4>3. CASE b \in 1 .. m
                BY <2>1, <3>1, <3>2, <4>1, <4>3
            <4> QED
                BY <3>4, <4>2, <4>3
        <3> QED
            BY <2>1, <3>2, <3>3, <3>5, <3>6
    <2> QED
        BY <2>3, <2>4
<1>6. n \in good
    <2> HIDE DEF good
    <2> QED
        BY <1>1, <1>4, <1>5, StepsUp
<1> QED
    BY <1>2, <1>6

ComesAfter(c, d) == c.path # d.path /\ (d.action = "remove" => c.action = "remove")

Recorded == [change : Change, action : ReviewAction, content : {Null}]

SessionFields == {"id", "mode", "resume", "job", "changes", "evidence", "provenance",
                  "cursor", "decisions", "logged"}

\* What is answered with each change of the session.
ActionOn(auto, answers, k) == IF auto THEN "approve" ELSE answers[k]

\* The first n changes were taken up, in their order, and of those in auto mode
\* some were left undecided.
Underway(s, auto, answers, n) ==
    /\ DOMAIN s = SessionFields
    /\ s.decisions \in Seq(Recorded)
    /\ \A i \in DOMAIN s.decisions : \E k \in 1 .. n :
          /\ s.decisions[i].change = s.changes[k]
          /\ s.decisions[i].action = ActionOn(auto, answers, k)
    /\ \A i, j \in DOMAIN s.decisions :
          i < j => ComesAfter(s.decisions[i].change, s.decisions[j].change)
    /\ s.logged \subseteq 1 .. n
    /\ \A k \in s.logged : \E i \in DOMAIN s.decisions : s.decisions[i].change = s.changes[k]
    /\ n \in 0 .. Len(s.changes)

LEMMA LeastOfOne ==
    \A n : Least({n}) = n
    BY DEF Least

Taken(s, auto, answers, n) ==
    WithDecision(s, s.changes[n + 1], ActionOn(auto, answers, n + 1), Null)

\* Answering the next change adds its decision, and settles no other change.
LEMMA DecisionTaken ==
    ASSUME NEW doc, NEW trims, NEW C, NEW s, Proposes(doc, trims, C, s.changes),
           NEW auto, NEW answers, NEW n, Underway(s, auto, answers, n), n < Len(s.changes),
           ActionOn(auto, answers, n + 1) \in ReviewAction
    PROVE  /\ Underway(Taken(s, auto, answers, n), auto, answers, n + 1)
           /\ Taken(s, auto, answers, n).changes = s.changes
           /\ Taken(s, auto, answers, n).resume = s.resume
<1> DEFINE changes == s.changes
           c == changes[n + 1]
           action == ActionOn(auto, answers, n + 1)
           key == KeyFor(changes, c, s.logged)
           logged == IF action \in Terminal THEN s.logged \cup key ELSE s.logged
           d == Decision(c, action, Null)
           decisions == Append(s.decisions, d)
           t == Taken(s, auto, answers, n)
           m == Len(s.decisions)
<1>1. /\ changes \in Seq(Change)
      /\ \A i, j \in DOMAIN changes : i < j => ComesAfter(changes[i], changes[j])
    BY DEF Proposes, ComesAfter
<1>2. /\ DOMAIN s = SessionFields
      /\ s.decisions \in Seq(Recorded)
      /\ s.logged \subseteq 1 .. n
      /\ n \in 0 .. Len(changes) /\ n < Len(changes) /\ Len(changes) \in Nat
    BY <1>1 DEF Underway
<1>3. n \in Nat /\ n + 1 \in DOMAIN changes /\ n + 1 \in 1 .. n + 1 /\ n + 1 \notin s.logged
      /\ \A k \in 1 .. n : k \in DOMAIN changes /\ k < n + 1 /\ k \in 1 .. n + 1
    BY <1>1, <1>2
<1>4. key = {n + 1}
    <2>1. \A k \in DOMAIN changes : changes[k] = c => k = n + 1
        <3> SUFFICES ASSUME NEW k \in DOMAIN changes, changes[k] = c, k # n + 1 PROVE FALSE
            OBVIOUS
        <3>1. k < n + 1 \/ n + 1 < k
            BY <1>1, <1>3
        <3>2. changes[k].path # c.path
            BY <1>1, <1>3, <3>1 DEF ComesAfter
        <3> QED
            BY <3>2
    <2> DEFINE equal == {k \in DOMAIN changes \ s.logged : changes[k] = c}
    <2>2. equal = {n + 1}
        BY <1>3, <2>1
    <2>3. key = {Least(equal)}
        BY <2>2 DEF KeyFor, Keys
    <2> HIDE DEF equal
    <2> QED
        BY <2>2, <2>3, LeastOfOne
<1>5. /\ t.decisions = decisions /\ t.logged = logged /\ DOMAIN t = SessionFields
      /\ t.changes = changes /\ t.resume = s.resume /\ t.job = s.job
    <2>1. /\ t = [s EXCEPT !.decisions = decisions, !.logged = logged,
                           !.cursor = HeldCursor(changes, logged, s.cursor, action)]
          /\ {"decisions", "logged", "cursor", "changes", "resume", "job"} \subseteq DOMAIN s
        BY <1>2 DEF Taken, WithDecision, SessionFields
    <2> HIDE DEF t, decisions, logged
    <2> QED
        BY <1>2, <2>1
<1>6. d \in Recorded /\ d.change = c /\ d.action = action
    BY <1>1, <1>3 DEF Recorded, Decision
<1> HIDE DEF t, d, key
<1>7. /\ decisions \in Seq(Recorded) /\ m \in Nat
      /\ DOMAIN s.decisions = 1 .. m /\ DOMAIN decisions = 1 .. m + 1
      /\ decisions[m + 1] = d /\ \A i \in 1 .. m : decisions[i] = s.decisions[i]
    BY <1>2, <1>6
<1> HIDE DEF decisions, m
<1>8. \A i \in DOMAIN decisions : i = m + 1 \/ (i \in 1 .. m /\ decisions[i] = s.decisions[i])
    BY <1>7
<1>9. \A i \in 1 .. m : \E k \in 1 .. n : s.decisions[i].change = changes[k]
                                          /\ s.decisions[i].action = ActionOn(auto, answers, k)
    BY <1>7 DEF Underway
<1>10. \A i \in DOMAIN decisions : \E k \in 1 .. n + 1 :
           decisions[i].change = changes[k] /\ decisions[i].action = ActionOn(auto, answers, k)
    <2> TAKE i \in DOMAIN decisions
    <2>1. CASE i = m + 1
        BY <1>3, <1>6, <1>7, <2>1
    <2>2. CASE i \in 1 .. m
        BY <1>3, <1>7, <1>9, <2>2
    <2> QED
        BY <1>8, <2>1, <2>2
<1>11. \A i, j \in DOMAIN decisions : i < j => ComesAfter(decisions[i].change, decisions[j].change)
    <2> SUFFICES ASSUME NEW i \in DOMAIN decisions, NEW j \in DOMAIN decisions, i < j
                 PROVE  ComesAfter(decisions[i].change, decisions[j].change)
        OBVIOUS
    <2>1. i \in 1 .. m
        BY <1>7
    <2>2. CASE j = m + 1
        <3>1. PICK k \in 1 .. n : decisions[i].change = changes[k]
            BY <1>7, <1>9, <2>1
        <3>2. ComesAfter(changes[k], c)
            BY <1>1, <1>3
        <3> QED
            BY <1>6, <1>7, <2>2, <3>1, <3>2
    <2>3. CASE j \in 1 .. m
        BY <1>7, <2>1, <2>3 DEF Underway
    <2> QED
        BY <1>8, <2>2, <2>3
<1>12. logged \subseteq 1 .. n + 1 /\ logged \subseteq s.logged \cup {n + 1}
    BY <1>2, <1>3, <1>4
<1>13. \A k \in logged : \E i \in DOMAIN decisions : decisions[i].change = changes[k]
    <2> TAKE k \in logged
    <2>1. CASE k \in s.logged
        <3>1. PICK i \in DOMAIN s.decisions : s.decisions[i].change = changes[k]
            BY <2>1 DEF Underway
        <3> QED
            BY <1>7, <3>1
    <2>2. CASE k = n + 1
        <3>1. m + 1 \in DOMAIN decisions
            BY <1>7
        <3> QED
            BY <1>6, <1>7, <2>2, <3>1
    <2> QED
        BY <1>12, <2>1, <2>2
<1>14. n + 1 \in 0 .. Len(changes)
    BY <1>2
<1> HIDE DEF logged, c, action
<1>15. Underway(t, auto, answers, n + 1)
    <2>1. decisions \in Seq(Recorded)
        BY <1>7
    <2>2. logged \subseteq 1 .. n + 1
        BY <1>12
    <2> HIDE DEF changes
    <2> QED
        BY <1>5, <1>10, <1>11, <1>13, <1>14, <2>1, <2>2, Zenon DEF Underway
<1> QED
    BY <1>5, <1>15 DEF t, c, action

\* Leaving the next change undecided.
LEMMA DecisionLeft ==
    ASSUME NEW s, NEW auto, NEW answers, NEW n, Underway(s, auto, answers, n),
           s.changes \in Seq(Change), n < Len(s.changes)
    PROVE  Underway(s, auto, answers, n + 1)
<1>1. n \in 0 .. Len(s.changes) /\ Len(s.changes) \in Nat
    BY DEF Underway
<1>2. /\ n \in Nat /\ n + 1 \in 0 .. Len(s.changes)
      /\ \A k \in 1 .. n : k \in 1 .. n + 1
    BY <1>1
<1>3. \A i \in DOMAIN s.decisions : \E k \in 1 .. n + 1 :
          /\ s.decisions[i].change = s.changes[k]
          /\ s.decisions[i].action = ActionOn(auto, answers, k)
    BY <1>2 DEF Underway
<1> QED
    BY <1>2, <1>3 DEF Underway

\* What is applied are some of the proposals, in their order; in auto mode, all
\* that were not left undecided.
LEMMA AcceptedAreSelected ==
    ASSUME NEW doc, NEW trims, NEW C, NEW s, Proposes(doc, trims, C, s.changes),
           NEW auto, NEW answers, NEW n, Underway(s, auto, answers, n)
    PROVE  /\ Selects(doc, trims, C, AcceptedChanges(s))
           /\ \A c \in ToSet(AcceptedChanges(s)) : \E k \in DOMAIN s.changes :
                  c = s.changes[k] /\ ActionOn(auto, answers, k) \in Applying
           /\ auto => \A k \in s.logged : s.changes[k] \in ToSet(AcceptedChanges(s))
<1> DEFINE changes == s.changes
           D == s.decisions
           I == {i \in DOMAIN D : D[i].action \in Applying}
           applying == ItemsAt(D, I)
           A == [i \in DOMAIN applying |-> applying[i].change]
           R == {p \in Recorded \X Recorded : ComesAfter(p[1].change, p[2].change)}
<1>1. /\ changes \in Seq(Change)
      /\ \A i \in DOMAIN changes : Cuts(doc, trims, changes[i]) \/ Shortens(doc, C, changes[i])
    BY DEF Proposes
<1>2. /\ D \in Seq(Recorded)
      /\ \A i, j \in DOMAIN D : i < j => ComesAfter(D[i].change, D[j].change)
      /\ n \in 0 .. Len(changes) /\ Len(changes) \in Nat
    BY <1>1 DEF Underway
<1>3. \A i \in DOMAIN D : \E k \in DOMAIN changes :
          D[i].change = changes[k] /\ D[i].action = ActionOn(auto, answers, k)
    <2> TAKE i \in DOMAIN D
    <2>1. PICK k \in 1 .. n : D[i].change = changes[k] /\ D[i].action = ActionOn(auto, answers, k)
        BY DEF Underway
    <2>2. k \in DOMAIN changes
        BY <1>1, <1>2
    <2> QED
        BY <2>1, <2>2
<1>4. \A k \in s.logged : \E i \in DOMAIN D : D[i].change = changes[k]
    BY DEF Underway
<1>5. AcceptedChanges(s) =
          [i \in DOMAIN applying |->
              IF applying[i].action = "edit" /\ applying[i].content # Null
              THEN [applying[i].change EXCEPT !.value = applying[i].content]
              ELSE applying[i].change]
    BY DEF AcceptedChanges
<1> HIDE DEF changes, D
<1>6. \A i, j \in DOMAIN D : i < j => <<D[i], D[j]>> \in R
    BY <1>2
<1>r. \A x, y : <<x, y>> \in R => ComesAfter(x.change, y.change)
    OBVIOUS
<1> HIDE DEF R
<1>7. applying \in Seq(Recorded) /\ ToSet(applying) = {D[i] : i \in DOMAIN D \cap I}
    BY <1>2, ItemsAtMembers
<1>8. \A i, j \in DOMAIN applying : i < j => <<applying[i], applying[j]>> \in R
    BY <1>2, <1>6, ItemsAtOrdered
<1>9. \A i \in DOMAIN applying : applying[i] \in Recorded /\ \E j \in I : applying[i] = D[j]
    <2> SUFFICES ASSUME NEW i \in DOMAIN applying
                 PROVE  applying[i] \in Recorded /\ \E j \in I : applying[i] = D[j]
        OBVIOUS
    <2> HIDE DEF applying, I
    <2>1. applying[i] \in Recorded
        BY <1>7
    <2>2. applying[i] \in ToSet(applying)
        BY DEF ToSet
    <2> QED
        BY <1>7, <2>1, <2>2
<1>10. \A i \in I : \E j \in DOMAIN applying : applying[j] = D[i]
    BY <1>7 DEF ToSet
<1> HIDE DEF applying
<1>11. AcceptedChanges(s) = A
    <2>1. \A i \in DOMAIN applying : applying[i].content = Null
        BY <1>9 DEF Recorded
    <2> QED
        BY <1>5, <2>1
<1>12. /\ A \in Seq(Change) /\ DOMAIN A = DOMAIN applying
       /\ \A i \in DOMAIN A : A[i] = applying[i].change
    <2>1. \A i \in DOMAIN applying : applying[i].change \in Change
        BY <1>9 DEF Recorded
    <2> QED
        BY <1>7, <2>1
<1> HIDE DEF A
<1>13. \A i \in DOMAIN A : \E k \in DOMAIN changes :
           A[i] = changes[k] /\ ActionOn(auto, answers, k) \in Applying
    <2> TAKE i \in DOMAIN A
    <2>1. PICK j \in I : applying[i] = D[j]
        BY <1>9, <1>12
    <2>2. PICK k \in DOMAIN changes : D[j].change = changes[k] /\ D[j].action = ActionOn(auto, answers, k)
        BY <1>3, <2>1
    <2> QED
        BY <1>12, <2>1, <2>2
<1>14. \A i, j \in DOMAIN A : i < j => ComesAfter(A[i], A[j])
    <2> SUFFICES ASSUME NEW i \in DOMAIN A, NEW j \in DOMAIN A, i < j
                 PROVE  ComesAfter(A[i], A[j])
        OBVIOUS
    <2>1. ComesAfter(applying[i].change, applying[j].change)
        BY <1>8, <1>12, <1>r
    <2> QED
        BY <1>12, <2>1
<1>15. Selects(doc, trims, C, A)
    <2>1. \A i \in DOMAIN A : Cuts(doc, trims, A[i]) \/ Shortens(doc, C, A[i])
        BY <1>1, <1>13
    <2> QED
        BY <1>12, <1>14, <2>1 DEF Selects, ComesAfter
<1>16. \A c \in ToSet(A) : \E k \in DOMAIN changes :
           c = changes[k] /\ ActionOn(auto, answers, k) \in Applying
    BY <1>13 DEF ToSet
<1>17. ASSUME auto
       PROVE  \A k \in s.logged : changes[k] \in ToSet(A)
    <2> TAKE k \in s.logged
    <2>1. PICK i \in DOMAIN D : D[i].change = changes[k]
        BY <1>4
    <2>2. D[i].action = "approve"
        BY <1>3, <1>17 DEF ActionOn
    <2>3. i \in I
        BY <2>2 DEF Applying
    <2>4. PICK j \in DOMAIN A : A[j] = D[i].change
        BY <1>10, <1>12, <2>3
    <2> QED
        BY <2>1, <2>4 DEF ToSet
<1> QED
    BY <1>11, <1>15, <1>16, <1>17 DEF changes

-----------------------------------------------------------------------------
(* What the fit writes.                                                    *)

CutOf(s)   == CutBy(AcceptedChanges(s), Len(AcceptedChanges(s)))
ShortOf(s) == ShortBy(AcceptedChanges(s), Len(AcceptedChanges(s)))

\* The assembled resume is the source with what was approved cut and shortened.
LEMMA AssembledState ==
    ASSUME NEW source, NEW trims, NEW deferred, NEW roles, NEW C, NEW s,
           Planned(source, trims, deferred, roles, C, s.changes),
           NEW auto, NEW answers, NEW n, Underway(s, auto, answers, n),
           NEW level, NEW skills,
           ApplyDiffs(source, AcceptedChanges(s), level, skills).rejected = <<>>
    PROVE  FitState(source, trims,
                    ValidateResume(ApplyDiffs(source, AcceptedChanges(s), level, skills).doc),
                    CutOf(s), ShortOf(s))
<1> DEFINE A == AcceptedChanges(s)
           d == ApplyDiffs(source, A, level, skills).doc
<1>1. /\ IsSource(source) /\ trims \in SUBSET Positions(source)
      /\ C \in SUBSET LongPaths(source) /\ Preserving(source, C)
      /\ Proposes(source, trims, C, s.changes)
    BY DEF Planned
<1>2. Selects(source, trims, C, A)
    BY <1>1, AcceptedAreSelected
<1> HIDE DEF A
<1>3. d \in [DOMAIN source -> Value] /\ FitState(source, trims, d, CutBy(A, Len(A)), ShortBy(A, Len(A)))
    BY <1>1, <1>2, FitResult DEF A
<1>4. ShortBy(A, Len(A)) \subseteq C
    BY <1>1, <1>2, LedgerOfFit
<1> HIDE DEF d
<1>5. FitState(source, trims, ValidateResume(d), CutBy(A, Len(A)), ShortBy(A, Len(A)))
    BY <1>1, <1>3, <1>4, FitStateIsValid
<1> QED
    BY <1>5 DEF A, d, CutOf, ShortOf

LEMMA OutcomeOfFit ==
    ASSUME NEW source, NEW trims, NEW deferred, NEW roles, NEW C, NEW s,
           Planned(source, trims, deferred, roles, C, s.changes),
           NEW auto, NEW answers, NEW n, Underway(s, auto, answers, n),
           NEW doc, FitState(source, trims, doc, CutOf(s), ShortOf(s))
    PROVE  FitOutcome(source, doc, FitLedger(source, ToSet(AcceptedChanges(s)), trims),
                   trims, C, CutOf(s), ShortOf(s))
<1> DEFINE A == AcceptedChanges(s)
           ledger == FitLedger(source, ToSet(A), trims)
<1>1. /\ IsSource(source) /\ trims \in SUBSET Positions(source)
      /\ C \in SUBSET LongPaths(source) /\ C \cap trims = {} /\ Preserving(source, C)
      /\ Proposes(source, trims, C, s.changes)
    BY DEF Planned
<1>2. Selects(source, trims, C, A)
    BY <1>1, AcceptedAreSelected
<1> HIDE DEF A
<1>3. /\ CutBy(A, Len(A)) \subseteq {f \in Lists : Named(source, f, trims) # {}}
      /\ ShortBy(A, Len(A)) \subseteq C
      /\ LedgerSays(source, trims, ledger, CutBy(A, Len(A)), ShortBy(A, Len(A)))
    BY <1>1, <1>2, LedgerOfFit
<1>4. CutOf(s) = CutBy(A, Len(A)) /\ ShortOf(s) = ShortBy(A, Len(A))
    BY DEF CutOf, ShortOf, A
<1> HIDE DEF ledger
<1>5. FitOutcome(source, doc, ledger, trims, C, CutOf(s), ShortOf(s))
    BY <1>1, <1>3, <1>4 DEF FitOutcome
<1> QED
    BY <1>5 DEF ledger, A

\* Every change has provenance at its path, and only such that auto mode takes.
Provided(changes, provenance) ==
    \A k \in DOMAIN changes :
        /\ \E q \in provenance : q.path = changes[k].path
        /\ \A q \in provenance : q.path = changes[k].path => q.status \in AutoAllowed

\* What build_perfect gives an auto session provides for its changes: the claims of a
\* list are at its items, a removal is at the whole list, and the claims of the texts
\* that are compressed are taken out.
LEMMA FitProvides ==
    ASSUME NEW doc, IsSource(doc), NEW trims, NEW C \in SUBSET LongPaths(doc), NEW changes,
           Proposes(doc, trims, C, changes), NEW evidence
    PROVE  Provided(changes, FitProvenance(doc, evidence, changes, TRUE))
<1> DEFINE given == FitProvenance(doc, evidence, changes, TRUE)
           rewritten == {c.path : c \in {d \in ToSet(changes) : d.action = "replace"}}
           left == {c \in CollectClaims(doc) : Path(c.field, c.index) \notin rewritten}
           own(c) == [path |-> Path(c.field, c.index), claim |-> c.words,
                      status |-> ClaimStatus(doc, c, evidence, GateIndex)]
<1>1. given = {own(c) : c \in left} \cup VouchedFor(changes, TRUE)
    BY DEF FitProvenance
<1>2. \A q \in VouchedFor(changes, TRUE) : q.status = "verified"
    BY DEF VouchedFor
<1>3. ASSUME NEW c \in ToSet(changes)
      PROVE  \E q \in VouchedFor(changes, TRUE) : q.path = c.path
    <2> DEFINE q == [path |-> c.path, claim |-> IF c.action = "remove" THEN <<>> ELSE c.value.words,
                     status |-> "verified"]
    <2>1. c \in {d \in ToSet(changes) : TRUE \/ d.action = "replace"}
        OBVIOUS
    <2>2. q \in VouchedFor(changes, TRUE)
        BY <2>1, Zenon DEF VouchedFor
    <2>3. q.path = c.path
        OBVIOUS
    <2> QED
        BY <2>2, <2>3
<1>4. \A k \in DOMAIN changes : changes[k] \in ToSet(changes)
    BY DEF ToSet
<1>5. ASSUME NEW k \in DOMAIN changes, NEW c \in left,
             Path(c.field, c.index) = changes[k].path
      PROVE  FALSE
    <2>1. CASE Shortens(doc, C, changes[k])
        <3>1. changes[k].action = "replace"
            BY <2>1, CompressionIsChange DEF Shortens
        <3> QED
            BY <1>4, <1>5, <3>1
    <2>2. CASE Cuts(doc, trims, changes[k])
        <3>1. PICK f \in Lists : changes[k].path = Path(f, 0)
            BY <2>2, RemovalIsChange DEF Cuts
        <3>2. c.field = f /\ c.index = 0
            <4>1. Path(c.field, c.index).field = Path(f, 0).field
                  /\ Path(c.field, c.index).index = Path(f, 0).index
                BY <1>5, <3>1
            <4> QED
                BY <4>1 DEF Path
        <3>3. doc[f] \in [items : Seq(Seq(Word))]
            BY DEF IsSource
        <3>4. ~IsText(doc[f]) /\ IsList(doc[f])
            BY <3>3 DEF IsText, IsList
        <3>5. PICK g \in ClaimFields \cap DOMAIN doc :
                  c \in IF IsText(doc[g])
                        THEN {d \in {Claim(g, 0, doc[g].words)} : d.words # <<>>}
                        ELSE IF IsList(doc[g])
                        THEN {d \in {Claim(g, i, doc[g].items[i]) : i \in DOMAIN doc[g].items} :
                                d.words # <<>>}
                        ELSE {}
            BY DEF CollectClaims
        <3>6. c.field = g
            BY <3>5 DEF Claim
        <3>7. PICK i \in DOMAIN doc[f].items : c = Claim(f, i, doc[f].items[i])
            BY <3>2, <3>4, <3>5, <3>6
        <3>8. c.index = i
            BY <3>7 DEF Claim
        <3> QED
            BY <3>2, <3>3, <3>8
    <2> QED
        BY <2>1, <2>2 DEF Proposes
<1>6. "verified" \in AutoAllowed
    BY DEF AutoAllowed
<1>7. \A c : own(c).path = Path(c.field, c.index)
    OBVIOUS
<1> HIDE DEF given, own, left, rewritten
<1>8. ASSUME NEW k \in DOMAIN changes
      PROVE  /\ \E q \in given : q.path = changes[k].path
             /\ \A q \in given : q.path = changes[k].path => q.status \in AutoAllowed
    <2>1. \E q \in given : q.path = changes[k].path
        BY <1>1, <1>3, <1>4
    <2>2. ASSUME NEW q \in given, q.path = changes[k].path
          PROVE  q.status \in AutoAllowed
        <3>1. CASE q \in VouchedFor(changes, TRUE)
            BY <1>2, <1>6, <3>1
        <3>2. CASE q \notin VouchedFor(changes, TRUE)
            <4>1. PICK c \in left : q = own(c)
                BY <1>1, <3>2
            <4>2. Path(c.field, c.index) = changes[k].path
                BY <1>7, <2>2, <4>1
            <4> QED
                BY <1>5, <4>2
        <3> QED
            BY <3>1, <3>2
    <2> QED
        BY <2>1, <2>2
<1>9. Provided(changes, given)
    BY <1>8 DEF Provided
<1> QED
    BY <1>9 DEF given

\* In auto mode a removal is applied, and a compression is or is left undecided.
LEMMA AutoSettles ==
    ASSUME NEW source, NEW trims, NEW deferred, NEW roles, NEW C, NEW s,
           Planned(source, trims, deferred, roles, C, s.changes),
           NEW answers, NEW n, Underway(s, TRUE, answers, n),
           Provided(s.changes, s.provenance), s.mode = "auto", UnloggedKeys(s) = {}
    PROVE  Settled(source, trims, C, CutOf(s), ShortOf(s), s.provenance)
<1> DEFINE A == AcceptedChanges(s)
           changes == s.changes
<1>1. /\ IsSource(source) /\ C \in SUBSET LongPaths(source)
      /\ Proposes(source, trims, C, changes)
    BY DEF Planned
<1>2. A \in Seq(Change) /\ \A k \in s.logged : changes[k] \in ToSet(A)
    <2>1. Selects(source, trims, C, A) /\ \A k \in s.logged : changes[k] \in ToSet(A)
        BY <1>1, AcceptedAreSelected
    <2> QED
        BY <2>1 DEF Selects
<1>3. CutOf(s) = CutBy(A, Len(A)) /\ ShortOf(s) = ShortBy(A, Len(A))
    BY DEF CutOf, ShortOf
<1>4. \A k \in DOMAIN changes : k \in s.logged \/ ~AutoCanApply(s, changes[k])
    BY DEF UnloggedKeys, Keys
<1> HIDE DEF A
<1>5. \A c \in ToSet(A) : \E i \in 1 .. Len(A) : A[i] = c
    <2>1. DOMAIN A = 1 .. Len(A)
        BY <1>2
    <2> QED
        BY <2>1 DEF ToSet
<1>6. \A c \in ToSet(A) : /\ c.action = "remove" => c.path.field \in CutBy(A, Len(A))
                          /\ c.action = "replace" => c.path \in ShortBy(A, Len(A))
    <2> TAKE c \in ToSet(A)
    <2>1. PICK i \in 1 .. Len(A) : A[i] = c
        BY <1>5
    <2> QED
        BY <2>1 DEF CutBy, ShortBy
<1>7. ASSUME NEW k \in DOMAIN changes, changes[k].action \in {"remove", "replace"},
             \A q \in s.provenance :
                 NonEmptyText(changes[k].value) /\ q.claim = changes[k].value.words
                     => q.status \in AutoAllowed
      PROVE  changes[k] \in ToSet(A)
    <2>1. ~IsAddition(changes[k])
        BY <1>7 DEF IsAddition
    <2>2. /\ MatchingProvenance(s, changes[k]) # {}
          /\ \A q \in MatchingProvenance(s, changes[k]) : q.status \in AutoAllowed
        BY <1>7 DEF MatchingProvenance, Provided
    <2>3. AutoCanApply(s, changes[k])
        BY <2>1, <2>2 DEF AutoCanApply
    <2> QED
        BY <1>2, <1>4, <2>3
<1> HIDE DEF changes
<1>8. ASSUME NEW f \in Lists, Named(source, f, trims) # {}
      PROVE  f \in CutBy(A, Len(A))
    <2>1. PICK k \in DOMAIN changes : changes[k] = Removal(source, f, trims)
        BY <1>1, <1>8 DEF Proposes
    <2>2. changes[k].action = "remove" /\ changes[k].path.field = f /\ IsList(changes[k].value)
        BY <1>1, <2>1, RemovalIsChange
    <2>3. ~NonEmptyText(changes[k].value)
        BY <2>2 DEF NonEmptyText, IsText, IsList
    <2> QED
        BY <1>6, <1>7, <2>2, <2>3
<1>9. ASSUME NEW p \in C, ~LeftUndecided(s.provenance, ValueAt(source, p).words)
      PROVE  p \in ShortBy(A, Len(A))
    <2>1. PICK k \in DOMAIN changes : changes[k] = Compression(source, p)
        BY <1>1 DEF Proposes
    <2>2. /\ changes[k].action = "replace" /\ changes[k].path = p
          /\ changes[k].value.words = Shortened(ValueAt(source, p).words)
        BY <1>1, <2>1, CompressionIsChange
    <2>3. \A q \in s.provenance : q.claim = changes[k].value.words => q.status \in AutoAllowed
        BY <1>9, <2>2 DEF LeftUndecided
    <2> QED
        BY <1>6, <1>7, <2>2, <2>3
<1> QED
    BY <1>3, <1>8, <1>9 DEF Settled

AskedFor(ledger, answers, changes) ==
    \A e \in ledger :
        \E i \in DOMAIN answers :
            /\ answers[i] \in Applying
            /\ changes[i].path \in {e.path, Path(e.path.field, 0)}

\* With explicit decisions every entry is of a change that was approved.
LEMMA LedgerIsAskedFor ==
    ASSUME NEW source, NEW trims, NEW deferred, NEW roles, NEW C, NEW s,
           Planned(source, trims, deferred, roles, C, s.changes),
           NEW answers, DOMAIN answers = DOMAIN s.changes,
           NEW n, Underway(s, FALSE, answers, n)
    PROVE  AskedFor(FitLedger(source, ToSet(AcceptedChanges(s)), trims), answers, s.changes)
<1> DEFINE applied == ToSet(AcceptedChanges(s))
           changes == s.changes
<1>1. /\ IsSource(source) /\ C \in SUBSET LongPaths(source)
      /\ Proposes(source, trims, C, changes)
    BY DEF Planned
<1>2. \A c \in applied : \E k \in DOMAIN changes : c = changes[k] /\ answers[k] \in Applying
    <2>1. \A c \in applied : \E k \in DOMAIN changes :
              c = changes[k] /\ ActionOn(FALSE, answers, k) \in Applying
        BY <1>1, AcceptedAreSelected
    <2> HIDE DEF applied, changes
    <2> QED
        BY <2>1 DEF ActionOn
<1>3. \A k \in DOMAIN changes :
          changes[k].action = "remove" => changes[k].path = Path(changes[k].path.field, 0)
    <2> SUFFICES ASSUME NEW k \in DOMAIN changes, changes[k].action = "remove"
                 PROVE  changes[k].path = Path(changes[k].path.field, 0)
        OBVIOUS
    <2>1. ~Shortens(source, C, changes[k])
        BY <1>1, CompressionIsChange DEF Shortens
    <2>2. PICK f \in Lists : changes[k] = Removal(source, f, trims)
        BY <1>1, <2>1 DEF Proposes, Cuts
    <2> QED
        BY <1>1, <2>2, RemovalIsChange
<1> HIDE DEF applied, changes
<1>4. SUFFICES ASSUME NEW e \in FitLedger(source, applied, trims)
               PROVE  \E i \in DOMAIN changes :
                          /\ answers[i] \in Applying
                          /\ changes[i].path \in {e.path, Path(e.path.field, 0)}
    BY DEF AskedFor, applied, changes
<1>5. CASE \E p \in Dropped(applied, trims) : e.path = p
    <2>1. PICK c \in applied : c.action = "remove" /\ c.path.field = e.path.field
        BY <1>5 DEF Dropped
    <2>2. PICK k \in DOMAIN changes : c = changes[k] /\ answers[k] \in Applying
        BY <1>2
    <2> QED
        BY <1>3, <2>1, <2>2
<1>6. CASE \E c \in applied : e.path = c.path
    BY <1>2, <1>6
<1> QED
    BY <1>5, <1>6 DEF FitLedger

-----------------------------------------------------------------------------
(* The invariant of the call.                                              *)

\* Sequence todo is what is left of sequence all.
Remains(todo, all) ==
    /\ Len(todo) <= Len(all)
    /\ \A i \in DOMAIN todo : todo[i] = all[Len(all) - Len(todo) + i]

LEMMA RemainsOfAll ==
    ASSUME NEW X, NEW all \in Seq(X)
    PROVE  Remains(all, all) /\ Len(all) - Len(all) = 0
<1>1. Len(all) \in Nat /\ \A i \in DOMAIN all : Len(all) - Len(all) + i = i
    OBVIOUS
<1> QED
    BY <1>1 DEF Remains

LEMMA NextOfRemains ==
    ASSUME NEW X, NEW all \in Seq(X), NEW todo \in Seq(X), todo # <<>>, Remains(todo, all)
    PROVE  LET n == Len(all) - Len(todo)
           IN  /\ n \in Nat /\ n < Len(all) /\ n + 1 \in DOMAIN all
               /\ Head(todo) = all[n + 1]
               /\ Tail(todo) \in Seq(X)
               /\ Remains(Tail(todo), all)
               /\ Len(all) - Len(Tail(todo)) = n + 1
<1> DEFINE L == Len(all)
           m == Len(todo)
           rest == Tail(todo)
<1>1. /\ L \in Nat /\ m \in Nat /\ m # 0 /\ m <= L
      /\ DOMAIN all = 1 .. L /\ DOMAIN todo = 1 .. m
      /\ rest \in Seq(X) /\ Len(rest) = m - 1 /\ DOMAIN rest = 1 .. m - 1
      /\ \A i \in 1 .. m - 1 : rest[i] = todo[i + 1]
      /\ Head(todo) = todo[1]
    BY DEF Remains
<1>2. \A i \in 1 .. m : todo[i] = all[L - m + i]
    BY <1>1 DEF Remains
<1> HIDE DEF L, m, rest
<1>3. L - m \in Nat /\ L - m < L /\ L - m + 1 \in 1 .. L /\ 1 \in 1 .. m
    BY <1>1
<1>4. Head(todo) = all[L - m + 1]
    BY <1>1, <1>2, <1>3
<1>5. L - Len(rest) = L - m + 1 /\ Len(rest) <= L
    BY <1>1
<1>6. \A i \in 1 .. m - 1 : rest[i] = all[L - Len(rest) + i]
    <2> TAKE i \in 1 .. m - 1
    <2>1. i + 1 \in 1 .. m /\ L - m + (i + 1) = L - Len(rest) + i
        BY <1>1
    <2> QED
        BY <1>1, <1>2, <2>1
<1>7. Remains(rest, all)
    BY <1>1, <1>5, <1>6 DEF Remains, L
<1> QED
    BY <1>1, <1>3, <1>4, <1>5, <1>7 DEF L, m, rest

FitFields == {"at", "auto", "source", "trims", "deferred", "roles", "todo", "answers"}

\* Session s holds the plan of fit f, for the resume it is of, and its first n
\* changes were taken up.
InFlight(f, resume, s, n) ==
    /\ \E C : Planned(f.source, f.trims, f.deferred, f.roles, C, s.changes)
    /\ Underway(s, f.auto, f.answers, n)
    /\ s.resume = resume
    /\ f.auto = FALSE => DOMAIN f.answers = DOMAIN s.changes
    /\ \A k \in DOMAIN s.changes : ActionOn(f.auto, f.answers, k) \in ReviewAction
    /\ f.auto = TRUE => s.mode = "auto" /\ Provided(s.changes, s.provenance)

\* What was committed is the outcome of the plan.
Made(f, resume, commit) ==
    /\ \E n : InFlight(f, resume, commit.session, n)
    /\ FitState(f.source, f.trims, commit.doc, CutOf(commit.session), ShortOf(commit.session))
    /\ UnloggedKeys(commit.session) = {}

FitType(f, resume, source) ==
    /\ DOMAIN f = FitFields
    /\ f.at \in {"open", "decide", "commit", "write"}
    /\ f.auto \in BOOLEAN
    /\ resume \in Resume
    /\ f.source = source

\* The session being opened: in auto mode its proposals are taken up one by one.
Opening(f, resume, st) ==
    /\ st.at = "resolve"
    /\ DOMAIN st = {"at", "session", "records", "todo"}
    /\ f.auto = TRUE =>
          /\ st.todo \in Seq(Change)
          /\ Remains(st.todo, st.session.changes)
          /\ InFlight(f, resume, st.session, Len(st.session.changes) - Len(st.todo))
    /\ f.auto = FALSE =>
          /\ st.todo = <<>>
          /\ f.answers \in Seq(ReviewAction)
          /\ f.todo = f.answers
          /\ InFlight(f, resume, st.session, 0)

\* The answers given one by one.
Deciding(f, resume, s) ==
    /\ f.auto = FALSE
    /\ f.answers \in Seq(ReviewAction)
    /\ f.todo \in Seq(ReviewAction)
    /\ Remains(f.todo, f.answers)
    /\ InFlight(f, resume, s, Len(f.answers) - Len(f.todo))

\* The commit on its way to the tailored file, and in it.
Writing(f, resume, st, s, files_) ==
    \/ st.at \in {"grow", "write_tailored"} /\ Made(f, resume, st.commit)
    \/ /\ st = Idle
       /\ Made(f, resume, files_[WorkingFile[s.resume]])
       /\ files_[WorkingFile[s.resume]].session = s

\* Every property of a final file.
Sound(fin) ==
    /\ LossesLedgered(fin.source, fin.doc, fin.ledger)
    /\ OnlySelects(fin.source, fin.doc)
    /\ DeferredKept(fin.source, fin.doc, fin.ledger, fin.deferred)
    /\ fin.auto = FALSE => AskedFor(fin.ledger, fin.answers, fin.changes)
    /\ WithinBudgets(fin.source, fin.doc, fin.ledger, fin.roles)
    /\ fin.auto = TRUE => BudgetsMet(fin.source, fin.doc, fin.deferred, fin.provenance)
    /\ fin.auto \in BOOLEAN

PlanInv ==
    /\ config.resume \in Resume \cup {NoDocument}
    /\ config.job \in Job \cup {NoDocument}
    /\ \A r \in Resume : resumes[r] \in Revisions[r]
    /\ DOMAIN tailored = TailoredFiles
    /\ fit = NoFit => step = Idle
    /\ fit # NoFit => FitType(fit, config.resume, resumes[config.resume])
    /\ fit.at = "open" => Opening(fit, config.resume, step)
    /\ fit.at = "decide" => step = Idle /\ Deciding(fit, config.resume, session)
    /\ fit.at = "commit" => step = Idle /\ \E n : InFlight(fit, config.resume, session, n)
    /\ fit.at = "write" => Writing(fit, config.resume, step, session, tailored)
    /\ final # NoFinal => Sound(final)

LEMMA SoundFinal ==
    ASSUME final # NoFinal => Sound(final)
    PROVE  NothingLostOrInvented /\ HumanDecidesTheRest /\ FitsToTheBudget
<1> SUFFICES ASSUME final # NoFinal, Sound(final)
             PROVE  NothingLostOrInvented /\ HumanDecidesTheRest /\ FitsToTheBudget
    <2>1. CASE final = NoFinal
        BY <2>1 DEF NothingLostOrInvented, EveryLossIsLedgered, NothingInvented,
                    HumanDecidesTheRest, DeferredSurvives, NothingDroppedUnasked,
                    FitsToTheBudget, NoCutBelowBudget, FitsOrDefers
    <2> QED
        BY <2>1
<1>1. EveryLossIsLedgered
    BY DEF EveryLossIsLedgered, Sound, LossesLedgered, Entries
<1>2. NothingInvented
    BY DEF NothingInvented, Sound, OnlySelects
<1>3. DeferredSurvives
    BY DEF DeferredSurvives, Sound, DeferredKept, Entries
<1>4. NothingDroppedUnasked
    BY DEF NothingDroppedUnasked, Sound, AskedFor
<1>5. NoCutBelowBudget
    BY DEF NoCutBelowBudget, Sound, WithinBudgets, Entries
<1>6. FitsOrDefers
    BY DEF FitsOrDefers, Excused, Sound, BudgetsMet, StillLong, LimitOf
<1> QED
    BY <1>1, <1>2, <1>3, <1>4, <1>5, <1>6
       DEF NothingLostOrInvented, HumanDecidesTheRest, FitsToTheBudget

LEMMA FitInitPlansNothing == FitInit => PlanInv
<1> SUFFICES ASSUME FitInit PROVE PlanInv
    OBVIOUS
<1>1. /\ config.resume \in Resume \cup {NoDocument}
      /\ config.job \in Job \cup {NoDocument}
      /\ \A r \in Resume : resumes[r] \in Revisions[r]
    BY DEF FitInit, Init
<1>2. DOMAIN tailored = TailoredFiles
    BY DEF FitInit, Init
<1>3. step = Idle /\ fit = NoFit /\ fit.at = "idle" /\ final = NoFinal
    BY DEF FitInit, Init, NoFit
<1> QED
    BY <1>1, <1>2, <1>3 DEF PlanInv

\* A session just opened has no decision.
LEMMA NothingDecided ==
    ASSUME NEW s, DOMAIN s = SessionFields, s.decisions = <<>>, s.logged = {},
           s.changes \in Seq(Change), NEW auto, NEW answers
    PROVE  Underway(s, auto, answers, 0)
<1>1. 0 \in 0 .. Len(s.changes)
    OBVIOUS
<1>2. s.decisions \in Seq(Recorded) /\ DOMAIN s.decisions = {}
    OBVIOUS
<1> QED
    BY <1>1, <1>2 DEF Underway

LEMMA StartFitPlans ==
    ASSUME PlanInv, NEW evidence \in Evidence, NEW fitMode \in FitModes, StartFit(evidence, fitMode)
    PROVE  PlanInv'
<1> DEFINE doc       == resumes[config.resume]
           work      == BudgetWork(doc, config.job, GateIndex)
           long      == TooLong(doc)
           compressed == ItemsAt(long, {i \in DOMAIN long :
                                 ClaimPreserving(doc, long[i], WordLimit(long[i]), evidence)})
           deferred  == work.defer \cup (ToSet(long) \ ToSet(compressed))
           trims     == Trims(work, deferred)
           proposals == FitProposals(doc, trims, compressed)
           C         == ToSet(compressed) \ trims
           auto      == fitMode = "auto"
           s         == step'.session
<1>1. /\ config.resume \in Resume
      /\ config.job \in Job
      /\ UNCHANGED <<config, resumes, tailored, final>>
    BY DEF StartFit, OpenSession, PlanInv
<1>2. IsSource(doc)
    BY <1>1, RevisionIsSource DEF PlanInv
<1>3. Planned(doc, trims, deferred, work.roles, C, proposals)
    BY <1>1, <1>2, FitIsPlanned
<1>4. /\ step' = [at |-> "resolve", session |-> s, records |-> <<>>, todo |-> step'.todo]
      /\ step'.todo = IF auto THEN proposals ELSE <<>>
      /\ DOMAIN s = SessionFields
      /\ s.changes = proposals /\ s.decisions = <<>> /\ s.logged = {}
      /\ s.resume = config.resume
      /\ s.mode = IF auto THEN "auto" ELSE "review_at_end"
      /\ s.provenance = FitProvenance(doc, evidence, proposals, auto)
    BY DEF StartFit, OpenSession, NewSession, SessionFields
<1>5. /\ DOMAIN fit' = FitFields
      /\ fit'.at = "open" /\ fit'.auto = auto
      /\ fit'.source = doc /\ fit'.trims = trims /\ fit'.deferred = deferred
      /\ fit'.roles = work.roles /\ fit'.todo = fit'.answers
      /\ fit'.answers \in IF auto THEN {<<>>} ELSE [DOMAIN proposals -> FitAnswers]
    <2>1. PICK answers \in IF auto THEN {<<>>} ELSE [DOMAIN proposals -> FitAnswers] :
              fit' = [at |-> "open", auto |-> auto, source |-> doc,
                      trims |-> trims, deferred |-> deferred, roles |-> work.roles,
                      todo |-> answers, answers |-> answers]
        BY Zenon DEF StartFit
    <2> HIDE DEF doc, work, long, compressed, deferred, trims, proposals, auto
    <2> QED
        BY <2>1 DEF FitFields
<1> HIDE DEF doc, work, long, compressed, deferred, trims, proposals, C, s
<1>14. auto = TRUE => Provided(s.changes, s.provenance)
    <2>1. Proposes(doc, trims, C, proposals) /\ C \in SUBSET LongPaths(doc)
        BY <1>3 DEF Planned
    <2>2. Provided(proposals, FitProvenance(doc, evidence, proposals, TRUE))
        BY <1>2, <2>1, FitProvides
    <2> HIDE DEF auto
    <2> QED
        BY <1>4, <2>2
<1>6. proposals \in Seq(Change)
    BY <1>3 DEF Planned, Proposes
<1>7. auto \in BOOLEAN
    OBVIOUS
<1>8. ~auto => fit'.answers \in Seq(ReviewAction) /\ DOMAIN fit'.answers = DOMAIN proposals
    <2> SUFFICES ASSUME ~auto
                 PROVE  fit'.answers \in Seq(ReviewAction) /\ DOMAIN fit'.answers = DOMAIN proposals
        OBVIOUS
    <2>1. fit'.answers \in [1 .. Len(proposals) -> ReviewAction] /\ Len(proposals) \in Nat
          /\ DOMAIN fit'.answers = DOMAIN proposals
        BY <1>5, <1>6, FitAssumption
    <2> QED
        BY <2>1
<1>9. \A k \in DOMAIN proposals : ActionOn(auto, fit'.answers, k) \in ReviewAction
    <2>1. "approve" \in ReviewAction
        BY DEF ReviewAction, Terminal
    <2>2. ~auto => \A k \in DOMAIN proposals : fit'.answers[k] \in ReviewAction
        BY <1>8
    <2> QED
        BY <2>1, <2>2 DEF ActionOn
<1> HIDE DEF auto
<1>10. InFlight(fit', config.resume, s, 0)
    <2>1. \E c : Planned(fit'.source, fit'.trims, fit'.deferred, fit'.roles, c, s.changes)
        BY <1>3, <1>4, <1>5
    <2>2. Underway(s, fit'.auto, fit'.answers, 0)
        BY <1>4, <1>6, NothingDecided
    <2> QED
        BY <1>4, <1>5, <1>8, <1>9, <1>14, <2>1, <2>2 DEF InFlight
<1>11. Opening(fit', config.resume, step')
    <2>1. step'.at = "resolve" /\ DOMAIN step' = {"at", "session", "records", "todo"}
        BY <1>4
    <2>2. ASSUME auto
          PROVE  /\ step'.todo \in Seq(Change)
                 /\ Remains(step'.todo, s.changes)
                 /\ Len(s.changes) - Len(step'.todo) = 0
        BY <1>4, <1>6, <2>2, RemainsOfAll
    <2>3. ASSUME ~auto
          PROVE  step'.todo = <<>> /\ fit'.answers \in Seq(ReviewAction) /\ fit'.todo = fit'.answers
        BY <1>4, <1>5, <1>8, <2>3
    <2> QED
        BY <1>5, <1>10, <2>1, <2>2, <2>3 DEF Opening, s
<1>12. FitType(fit', config.resume, resumes[config.resume])
    BY <1>1, <1>5, <1>7 DEF FitType, doc
<1>13. fit' # NoFit
    BY <1>5 DEF NoFit
<1> QED
    BY <1>1, <1>5, <1>11, <1>12, <1>13 DEF PlanInv

-----------------------------------------------------------------------------
(* The steps of the call.                                                  *)

\* A fit is carried on without a change to what it planned.
SamePlan(f, g) ==
    /\ g.source = f.source /\ g.trims = f.trims /\ g.deferred = f.deferred
    /\ g.roles = f.roles /\ g.auto = f.auto /\ g.answers = f.answers

LEMMA PlanCarriedOn ==
    ASSUME NEW f, NEW g, SamePlan(f, g), NEW resume
    PROVE  /\ \A s, n : InFlight(f, resume, s, n) => InFlight(g, resume, s, n)
           /\ \A commit : Made(f, resume, commit) => Made(g, resume, commit)
<1>1. \A s, n : InFlight(f, resume, s, n) => InFlight(g, resume, s, n)
    BY DEF SamePlan, InFlight
<1>2. \A commit : Made(f, resume, commit) => Made(g, resume, commit)
    BY <1>1 DEF SamePlan, Made
<1> QED
    BY <1>1, <1>2

LEMMA InFlightTyped ==
    ASSUME NEW f, NEW resume, NEW s, NEW n, InFlight(f, resume, s, n)
    PROVE  /\ s.changes \in Seq(Change) /\ Len(s.changes) \in Nat
           /\ DOMAIN s.changes = 1 .. Len(s.changes)
           /\ DOMAIN s = SessionFields
           /\ s.resume = resume
<1>1. s.changes \in Seq(Change)
    BY DEF InFlight, Planned, Proposes
<1>2. DOMAIN s = SessionFields /\ s.resume = resume
    BY DEF InFlight, Underway
<1> QED
    BY <1>1, <1>2 DEF InFlight

LEMMA NextTaken ==
    ASSUME NEW f, NEW resume, NEW s, NEW n, InFlight(f, resume, s, n),
           n \in Nat, n < Len(s.changes)
    PROVE  InFlight(f, resume, Taken(s, f.auto, f.answers, n), n + 1)
<1> DEFINE t == Taken(s, f.auto, f.answers, n)
<1>0. s.changes \in Seq(Change)
    BY Zenon, InFlightTyped
<1>1. n + 1 \in DOMAIN s.changes
    BY <1>0
<1>2. ActionOn(f.auto, f.answers, n + 1) \in ReviewAction
    BY <1>1 DEF InFlight
<1>3. PICK C : Planned(f.source, f.trims, f.deferred, f.roles, C, s.changes)
    BY DEF InFlight
<1>4. Proposes(f.source, f.trims, C, s.changes) /\ Underway(s, f.auto, f.answers, n)
    BY <1>3 DEF Planned, InFlight
<1>5. /\ Underway(t, f.auto, f.answers, n + 1) /\ t.changes = s.changes /\ t.resume = s.resume
      /\ t.mode = s.mode /\ t.provenance = s.provenance
    <2>1. n < Len(s.changes)
        OBVIOUS
    <2> HIDE DEF t
    <2>2. Underway(Taken(s, f.auto, f.answers, n), f.auto, f.answers, n + 1)
        BY <1>2, <1>4, <2>1, DecisionTaken
    <2>3. DOMAIN s = SessionFields
        BY <1>4 DEF Underway
    <2>4. /\ Taken(s, f.auto, f.answers, n).changes = s.changes
          /\ Taken(s, f.auto, f.answers, n).resume = s.resume
          /\ Taken(s, f.auto, f.answers, n).mode = s.mode
          /\ Taken(s, f.auto, f.answers, n).provenance = s.provenance
        BY <2>3 DEF Taken, WithDecision, SessionFields
    <2> QED
        BY <2>2, <2>4 DEF t
<1> HIDE DEF t
<1>6. InFlight(f, resume, t, n + 1)
    BY <1>5 DEF InFlight
<1> QED
    BY <1>6 DEF t

LEMMA NextLeft ==
    ASSUME NEW f, NEW resume, NEW s, NEW n, InFlight(f, resume, s, n), n < Len(s.changes)
    PROVE  InFlight(f, resume, s, n + 1)
<1>1. s.changes \in Seq(Change)
    BY InFlightTyped
<1>2. Underway(s, f.auto, f.answers, n + 1)
    BY <1>1, DecisionLeft DEF InFlight
<1> QED
    BY <1>2 DEF InFlight

\* The cursor of a session is no part of the plan.
LEMMA CursorMoved ==
    ASSUME NEW f, NEW resume, NEW s, NEW n, InFlight(f, resume, s, n), NEW cursor
    PROVE  /\ InFlight(f, resume, [s EXCEPT !.cursor = cursor], n)
           /\ [s EXCEPT !.cursor = cursor].changes = s.changes
<1> DEFINE t == [s EXCEPT !.cursor = cursor]
<1>1. DOMAIN s = SessionFields
    BY InFlightTyped
<1>2. /\ DOMAIN t = SessionFields /\ t.changes = s.changes /\ t.resume = s.resume
      /\ t.decisions = s.decisions /\ t.logged = s.logged
      /\ t.mode = s.mode /\ t.provenance = s.provenance
    BY <1>1 DEF SessionFields
<1> HIDE DEF t
<1>3. Underway(t, f.auto, f.answers, n)
    BY <1>2 DEF InFlight, Underway
<1>4. InFlight(f, resume, t, n) /\ t.changes = s.changes
    BY <1>2, <1>3 DEF InFlight
<1> QED
    BY <1>4 DEF t

LEMMA AutoResolveKeepsPlan ==
    ASSUME PlanInv, AutoResolve, UNCHANGED <<fit, final>>
    PROVE  PlanInv'
<1> DEFINE s == step.session
           n == Len(s.changes) - Len(step.todo)
           c == Head(step.todo)
           t == AutoResolved(s, c)
<1>1. step.at = "resolve" /\ step.todo # <<>>
      /\ UNCHANGED <<config, resumes, session, tailored, fit, final>>
    BY DEF AutoResolve, files
<1>2. fit # NoFit /\ fit.at = "open"
    BY <1>1 DEF PlanInv, FitType, Writing, Idle
<1>3. Opening(fit, config.resume, step)
    BY <1>2 DEF PlanInv
<1>4. fit.auto = TRUE
    BY <1>1, <1>2, <1>3 DEF PlanInv, FitType, Opening
<1>5. /\ step.todo \in Seq(Change)
      /\ Remains(step.todo, s.changes)
      /\ InFlight(fit, config.resume, s, n)
      /\ DOMAIN step = {"at", "session", "records", "todo"}
    BY <1>3, <1>4 DEF Opening
<1>6. s.changes \in Seq(Change)
    <2> HIDE DEF s, n
    <2> QED
        BY <1>5, Zenon, InFlightTyped
<1>7. /\ n \in Nat /\ n < Len(s.changes)
      /\ c = s.changes[n + 1]
      /\ Tail(step.todo) \in Seq(Change)
      /\ Remains(Tail(step.todo), s.changes)
      /\ Len(s.changes) - Len(Tail(step.todo)) = n + 1
    BY <1>1, <1>5, <1>6, NextOfRemains
<1>8. InFlight(fit, config.resume, t, n + 1) /\ t.changes = s.changes
    <2> DEFINE u == [s EXCEPT !.cursor = SectionOf(c)]
    <2>1. InFlight(fit, config.resume, u, n) /\ u.changes = s.changes
        <3> HIDE DEF s, n, c
        <3> QED
            BY <1>5, Zenon, CursorMoved
    <2>2. t = WithDecision(u, c, "approve", Null)
        BY DEF AutoResolved
    <2> HIDE DEF u, t, n, c, s
    <2>3. InFlight(fit, config.resume, Taken(u, fit.auto, fit.answers, n), n + 1)
        BY <1>7, <2>1, NextTaken
    <2>4. ActionOn(fit.auto, fit.answers, n + 1) = "approve"
        BY <1>4 DEF ActionOn
    <2>5. DOMAIN u = SessionFields
        BY <2>1, InFlightTyped
    <2>6. WithDecision(u, c, "approve", Null).changes = u.changes
        BY <2>5 DEF WithDecision, SessionFields
    <2> QED
        BY <1>7, <2>1, <2>2, <2>3, <2>4, <2>6 DEF Taken
<1>9. InFlight(fit, config.resume, s, n + 1)
    BY <1>5, <1>7, NextLeft
<1>10. /\ step'.at = "resolve" /\ DOMAIN step' = {"at", "session", "records", "todo"}
       /\ step'.todo = Tail(step.todo)
       /\ step'.session = t \/ step'.session = s
    <2> DEFINE rec == Append(step.records,
                             FeedbackRecord(s, Least(KeyFor(s.changes, c, {})), "approve"))
    <2>1. \/ step' = [step EXCEPT !.todo = Tail(@), !.session = t, !.records = rec]
          \/ step' = [step EXCEPT !.todo = Tail(@)]
        BY DEF AutoResolve
    <2> HIDE DEF rec, t
    <2> QED
        BY <1>1, <1>5, <2>1
<1> HIDE DEF t, n, c, s
<1>11. step'.session.changes = s.changes /\ InFlight(fit, config.resume, step'.session, n + 1)
    BY <1>8, <1>9, <1>10
<1>12. Opening(fit, config.resume, step')
    BY <1>4, <1>7, <1>10, <1>11 DEF Opening
<1> QED
    BY <1>1, <1>2, <1>12 DEF PlanInv

LEMMA FitOpenedKeepsPlan ==
    ASSUME PlanInv, FitOpened
    PROVE  PlanInv'
<1> DEFINE s == step.session
<1>1. /\ fit.at = "open" /\ step.todo = <<>>
      /\ session' = s /\ step' = Idle
      /\ fit' = [fit EXCEPT !.at = IF fit.auto THEN "commit" ELSE "decide"]
      /\ UNCHANGED <<config, resumes, tailored, final>>
    BY DEF FitOpened
<1>2. fit # NoFit
    BY <1>1 DEF NoFit
<1>3. FitType(fit, config.resume, resumes[config.resume]) /\ Opening(fit, config.resume, step)
    BY <1>1, <1>2 DEF PlanInv
<1>4. /\ DOMAIN fit' = FitFields /\ SamePlan(fit, fit') /\ fit'.todo = fit.todo
      /\ fit'.at = IF fit.auto THEN "commit" ELSE "decide"
    BY <1>1, <1>3 DEF FitType, FitFields, SamePlan
<1> HIDE DEF s
<1>5. /\ FitType(fit', config.resume, resumes[config.resume]) /\ fit' # NoFit
      /\ fit.auto \in BOOLEAN
    BY <1>3, <1>4 DEF FitType, SamePlan, NoFit
<1>6. \A n : InFlight(fit, config.resume, s, n) => InFlight(fit', config.resume, s, n)
    BY <1>4, PlanCarriedOn
<1>7. CASE fit.auto = TRUE
    <2>1. InFlight(fit, config.resume, s, Len(s.changes) - Len(step.todo))
        BY <1>3, <1>7 DEF Opening, s
    <2>2. \E n : InFlight(fit', config.resume, session', n)
        BY <1>1, <1>6, <2>1
    <2>3. fit'.at = "commit"
        BY <1>4, <1>7
    <2> QED
        BY <1>1, <1>5, <2>2, <2>3 DEF PlanInv
<1>8. CASE fit.auto = FALSE
    <2>1. /\ fit.answers \in Seq(ReviewAction) /\ fit.todo = fit.answers
          /\ InFlight(fit, config.resume, s, 0)
        BY <1>3, <1>8 DEF Opening, s
    <2>2. Remains(fit.todo, fit.answers) /\ Len(fit.answers) - Len(fit.todo) = 0
        BY <2>1, RemainsOfAll
    <2>3. InFlight(fit', config.resume, session', 0)
        BY <1>1, <1>6, <2>1
    <2>4. Deciding(fit', config.resume, session')
        BY <1>4, <1>8, <2>1, <2>2, <2>3 DEF Deciding, SamePlan
    <2>5. fit'.at = "decide"
        BY <1>4, <1>8
    <2> QED
        BY <1>1, <1>5, <2>4, <2>5 DEF PlanInv
<1> QED
    BY <1>5, <1>7, <1>8

LEMMA FitDecideKeepsPlan ==
    ASSUME PlanInv, FitDecide
    PROVE  PlanInv'
<1> DEFINE n == Len(fit.answers) - Len(fit.todo)
<1>1. /\ fit.at = "decide" /\ fit.todo # <<>>
      /\ session' = WithDecision(session, session.changes[n + 1], Head(fit.todo), Null)
      /\ fit' = [fit EXCEPT !.todo = Tail(@)]
      /\ UNCHANGED <<config, resumes, tailored, step, final>>
    BY DEF FitDecide, CurrentKey
<1>2. fit # NoFit
    BY <1>1 DEF NoFit
<1>3. /\ FitType(fit, config.resume, resumes[config.resume])
      /\ step = Idle /\ Deciding(fit, config.resume, session)
    BY <1>1, <1>2 DEF PlanInv
<1>4. /\ DOMAIN fit' = FitFields /\ SamePlan(fit, fit') /\ fit'.at = "decide"
      /\ fit'.todo = Tail(fit.todo)
    BY <1>1, <1>3 DEF FitType, FitFields, SamePlan
<1>5. FitType(fit', config.resume, resumes[config.resume]) /\ fit' # NoFit
    BY <1>3, <1>4 DEF FitType, SamePlan, NoFit
<1>6. /\ fit.auto = FALSE
      /\ fit.answers \in Seq(ReviewAction) /\ fit.todo \in Seq(ReviewAction)
      /\ Remains(fit.todo, fit.answers)
      /\ InFlight(fit, config.resume, session, n)
    BY <1>3 DEF Deciding
<1>7. /\ n \in Nat /\ n < Len(fit.answers)
      /\ Head(fit.todo) = fit.answers[n + 1]
      /\ Tail(fit.todo) \in Seq(ReviewAction)
      /\ Remains(Tail(fit.todo), fit.answers)
      /\ Len(fit.answers) - Len(Tail(fit.todo)) = n + 1
    <2> DEFINE all == fit.answers
               todo == fit.todo
    <2>1. all \in Seq(ReviewAction) /\ todo \in Seq(ReviewAction) /\ todo # <<>>
          /\ Remains(todo, all)
        BY <1>1, <1>6
    <2> HIDE DEF all, todo
    <2>2. /\ Len(all) - Len(todo) \in Nat /\ Len(all) - Len(todo) < Len(all)
          /\ Head(todo) = all[Len(all) - Len(todo) + 1]
          /\ Tail(todo) \in Seq(ReviewAction)
          /\ Remains(Tail(todo), all)
          /\ Len(all) - Len(Tail(todo)) = Len(all) - Len(todo) + 1
        BY <2>1, NextOfRemains
    <2> QED
        BY <2>2 DEF all, todo
<1> HIDE DEF n
<1>8. n < Len(session.changes)
    <2>1. session.changes \in Seq(Change)
        BY <1>6, Zenon, InFlightTyped
    <2>2. DOMAIN fit.answers = DOMAIN session.changes
        BY <1>6 DEF InFlight
    <2> QED
        BY <1>6, <1>7, <2>1, <2>2
<1>9. session' = Taken(session, fit.auto, fit.answers, n)
    BY <1>1, <1>6, <1>7 DEF Taken, ActionOn, n
<1>10. InFlight(fit, config.resume, session', n + 1)
    BY <1>6, <1>7, <1>8, <1>9, NextTaken
<1>11. InFlight(fit', config.resume, session', n + 1)
    BY <1>4, <1>10, PlanCarriedOn
<1>12. Deciding(fit', config.resume, session')
    BY <1>4, <1>6, <1>7, <1>11 DEF Deciding, SamePlan
<1> QED
    BY <1>1, <1>3, <1>4, <1>5, <1>12 DEF PlanInv

LEMMA FitCommitKeepsPlan ==
    ASSUME PlanInv, FitCommit
    PROVE  PlanInv'
<1> DEFINE s == session
           source == resumes[s.resume]
           accepted == AcceptedChanges(s)
           skills == VerifiedSkillKeys(source, s.job, accepted, s.evidence)
           result == ApplyDiffs(source, accepted, FitFreedom, skills)
           doc == ValidateResume(result.doc)
<1>1. /\ fit.at \in {"commit", "decide"}
      /\ fit.at = "decide" => fit.todo = <<>>
      /\ fit' = [fit EXCEPT !.at = "write"]
      /\ result.rejected = <<>> /\ UnloggedKeys(s) = {}
      /\ step'.at = "grow" /\ step'.commit.doc = doc /\ step'.commit.session = s
      /\ UNCHANGED <<config, resumes, session, tailored, final>>
    BY DEF FitCommit, CommitSession, files
<1>2. fit # NoFit
    BY <1>1 DEF NoFit
<1>3. FitType(fit, config.resume, resumes[config.resume])
    BY <1>2 DEF PlanInv
<1>4. /\ DOMAIN fit' = FitFields /\ SamePlan(fit, fit') /\ fit'.at = "write"
    BY <1>1, <1>3 DEF FitType, FitFields, SamePlan
<1>5. FitType(fit', config.resume, resumes[config.resume]) /\ fit' # NoFit
    BY <1>3, <1>4 DEF FitType, SamePlan, NoFit
<1>6. PICK n : InFlight(fit, config.resume, s, n)
    BY <1>1 DEF PlanInv, Deciding
<1>7. s.resume = config.resume /\ source = fit.source
    BY <1>3, <1>6 DEF InFlight, FitType
<1>8. PICK C : Planned(fit.source, fit.trims, fit.deferred, fit.roles, C, s.changes)
    BY <1>6 DEF InFlight
<1>9. Underway(s, fit.auto, fit.answers, n)
    BY <1>6 DEF InFlight
<1>10. FitState(fit.source, fit.trims, doc, CutOf(s), ShortOf(s))
    <2>1. ApplyDiffs(fit.source, AcceptedChanges(s), FitFreedom, skills).rejected = <<>>
        BY <1>1, <1>7
    <2>2. doc = ValidateResume(ApplyDiffs(fit.source, AcceptedChanges(s), FitFreedom, skills).doc)
        BY <1>7
    <2> HIDE DEF doc, result, accepted, skills, source, s
    <2>3. FitState(fit.source, fit.trims,
                   ValidateResume(ApplyDiffs(fit.source, AcceptedChanges(s), FitFreedom, skills).doc),
                   CutOf(s), ShortOf(s))
        BY <1>8, <1>9, <2>1, Zenon, AssembledState
    <2> QED
        BY <2>2, <2>3
<1> HIDE DEF doc, result, accepted, skills, source
<1>11. Made(fit, config.resume, step'.commit)
    BY <1>1, <1>6, <1>10 DEF Made
<1>12. Made(fit', config.resume, step'.commit)
    BY <1>4, <1>11, PlanCarriedOn
<1>13. Writing(fit', config.resume, step', session', tailored')
    BY <1>1, <1>12 DEF Writing
<1> QED
    BY <1>1, <1>4, <1>5, <1>13 DEF PlanInv

LEMMA FitWritesKeepPlan ==
    ASSUME PlanInv, WriteAliases \/ WriteTailored, UNCHANGED <<fit, final>>
    PROVE  PlanInv'
<1>1. /\ step.at \in {"grow", "write_tailored"}
      /\ UNCHANGED <<config, resumes, fit, final>>
    BY DEF WriteAliases, WriteTailored
<1>2. fit # NoFit /\ fit.at = "write"
    <2>1. step # Idle /\ step.at # "resolve"
        BY <1>1 DEF Idle
    <2>2. fit # NoFit /\ fit.at # "decide" /\ fit.at # "commit" /\ fit.at # "open"
        BY <2>1 DEF PlanInv, Opening
    <2>3. fit.at \in {"open", "decide", "commit", "write"}
        BY <2>2 DEF PlanInv, FitType
    <2> QED
        BY <2>2, <2>3
<1>3. /\ FitType(fit, config.resume, resumes[config.resume])
      /\ Made(fit, config.resume, step.commit)
    BY <1>1, <1>2 DEF PlanInv, Writing, Idle
<1>4. CASE WriteAliases
    <2>1. step'.at = "write_tailored" /\ step'.commit = step.commit
          /\ UNCHANGED <<session, tailored>>
        BY <1>4 DEF WriteAliases
    <2>2. Writing(fit', config'.resume, step', session', tailored')
        BY <1>1, <1>3, <2>1 DEF Writing
    <2> QED
        BY <1>1, <1>2, <1>3, <2>1, <2>2 DEF PlanInv
<1>5. CASE WriteTailored
    <2>1. /\ step' = Idle /\ session' = step.commit.session
          /\ tailored' = [tailored EXCEPT ![WorkingFile[step.commit.session.resume]] = step.commit]
        BY <1>5 DEF WriteTailored
    <2>2. session'.resume = config.resume /\ config.resume \in Resume
        BY <1>3, <2>1 DEF Made, InFlight, FitType
    <2>3. WorkingFile[session'.resume] \in DOMAIN tailored
        BY <2>2 DEF PlanInv, TailoredFiles
    <2>4. tailored'[WorkingFile[session'.resume]] = step.commit /\ DOMAIN tailored' = DOMAIN tailored
        BY <2>1, <2>3
    <2>5. Writing(fit', config'.resume, step', session', tailored')
        BY <1>1, <1>3, <2>1, <2>4 DEF Writing
    <2> QED
        BY <1>1, <1>2, <1>3, <2>1, <2>4, <2>5 DEF PlanInv
<1> QED
    BY <1>4, <1>5

\* A fit that reaches its end wrote a sound file.
LEMMA WrittenIsSound ==
    ASSUME NEW f, NEW resume, NEW s, NEW n, InFlight(f, resume, s, n), f.auto \in BOOLEAN,
           UnloggedKeys(s) = {},
           NEW doc, FitState(f.source, f.trims, doc, CutOf(s), ShortOf(s)),
           NEW job,
           NEW fin,
           fin = [doc |-> doc,
                  source |-> f.source, auto |-> f.auto, answers |-> f.answers,
                  changes |-> s.changes, deferred |-> f.deferred,
                  roles |-> f.roles, job |-> job,
                  provenance |-> s.provenance,
                  ledger |-> FitLedger(f.source, ToSet(AcceptedChanges(s)), f.trims)]
    PROVE  Sound(fin)
<1> DEFINE ledger == FitLedger(f.source, ToSet(AcceptedChanges(s)), f.trims)
<1>1. /\ fin.doc = doc /\ fin.source = f.source /\ fin.auto = f.auto /\ fin.answers = f.answers
      /\ fin.changes = s.changes /\ fin.deferred = f.deferred /\ fin.roles = f.roles
      /\ fin.provenance = s.provenance /\ fin.ledger = ledger
    OBVIOUS
<1>2. PICK C : Planned(f.source, f.trims, f.deferred, f.roles, C, s.changes)
    BY DEF InFlight
<1>3. Underway(s, f.auto, f.answers, n)
    BY DEF InFlight
<1>4. FitOutcome(f.source, doc, ledger, f.trims, C, CutOf(s), ShortOf(s))
    BY <1>2, <1>3, Zenon, OutcomeOfFit
<1> HIDE DEF ledger
<1>5. LossesLedgered(f.source, doc, ledger)
    BY <1>4, FitLosesNothingUnledgered
<1>6. OnlySelects(f.source, doc)
    BY <1>4, FitInventsNothing
<1>7. DeferredKept(f.source, doc, ledger, f.deferred)
    <2>1. f.deferred \cap f.trims = {}
          /\ \A p \in f.deferred : p.field \in Lists => p \in Positions(f.source)
        BY <1>2 DEF Planned
    <2> QED
        BY <1>4, <2>1, FitKeepsDeferred
<1>8. WithinBudgets(f.source, doc, ledger, f.roles)
    <2>1. CutsInBounds(f.source, f.trims, f.roles)
        BY <1>2 DEF Planned
    <2> QED
        BY <1>4, <2>1, FitCutsWithinBudgets
<1>9. ASSUME f.auto = FALSE
      PROVE  AskedFor(ledger, f.answers, s.changes)
    <2>1. DOMAIN f.answers = DOMAIN s.changes
        BY <1>9 DEF InFlight
    <2>2. Underway(s, FALSE, f.answers, n)
        BY <1>3, <1>9
    <2>3. AskedFor(FitLedger(f.source, ToSet(AcceptedChanges(s)), f.trims), f.answers, s.changes)
        BY <1>2, <2>1, <2>2, LedgerIsAskedFor
    <2> QED
        BY <2>3 DEF ledger
<1>10. ASSUME f.auto = TRUE
       PROVE  BudgetsMet(f.source, doc, f.deferred, s.provenance)
    <2>1. /\ Underway(s, TRUE, f.answers, n)
          /\ s.mode = "auto" /\ Provided(s.changes, s.provenance)
        BY <1>3, <1>10 DEF InFlight
    <2>2. Settled(f.source, f.trims, C, CutOf(s), ShortOf(s), s.provenance)
        BY <1>2, <2>1, AutoSettles
    <2>3. LongAreHandled(f.source, f.trims, C, f.deferred)
          /\ CutsEnough(f.source, f.trims, f.deferred)
        BY <1>2 DEF Planned
    <2> QED
        BY <1>4, <2>2, <2>3, FitMeetsBudgets
<1> QED
    BY <1>1, <1>5, <1>6, <1>7, <1>8, <1>9, <1>10 DEF Sound

LEMMA WriteFinalKeepsPlan ==
    ASSUME PlanInv, WriteFinal
    PROVE  PlanInv'
<1> DEFINE commit == tailored[WorkingFile[session.resume]]
<1>1. /\ fit.at = "write" /\ step = Idle /\ fit' = NoFit
      /\ UNCHANGED <<config, resumes, session, tailored, step>>
    BY DEF WriteFinal, vars
<1>2. fit # NoFit
    BY <1>1 DEF NoFit
<1>3. /\ fit.auto \in BOOLEAN
      /\ Made(fit, config.resume, commit) /\ commit.session = session
    BY <1>1, <1>2 DEF PlanInv, FitType, Writing, Idle
<1>4. PICK n : InFlight(fit, config.resume, session, n)
    BY <1>3 DEF Made
<1>5. /\ FitState(fit.source, fit.trims, commit.doc, CutOf(session), ShortOf(session))
      /\ UnloggedKeys(session) = {}
    BY <1>3 DEF Made
<1>6. final' = [doc |-> commit.doc,
                source |-> fit.source, auto |-> fit.auto, answers |-> fit.answers,
                changes |-> session.changes, deferred |-> fit.deferred,
                roles |-> fit.roles, job |-> session.job,
                provenance |-> session.provenance,
                ledger |-> FitLedger(fit.source, ToSet(AcceptedChanges(session)), fit.trims)]
    BY DEF WriteFinal
<1> HIDE DEF commit
<1>7. Sound(final')
    BY <1>3, <1>4, <1>5, <1>6, Zenon, WrittenIsSound
<1>8. Sound(final)'
    BY <1>7 DEF Sound
<1>9. fit'.at = "idle"
    BY <1>1 DEF NoFit
<1> QED
    BY <1>1, <1>8, <1>9 DEF PlanInv

LEMMA StopFitKeepsPlan ==
    ASSUME PlanInv, StopFit
    PROVE  PlanInv'
<1>1. fit' = NoFit /\ step' = Idle /\ UNCHANGED <<config, resumes, tailored, final>>
    BY DEF StopFit, files
<1>2. fit'.at = "idle"
    BY <1>1 DEF NoFit
<1> QED
    BY <1>1, <1>2 DEF PlanInv

LEMMA FitStepKeepsPlan == PlanInv /\ [FitNext]_fitVars => PlanInv'
<1> SUFFICES ASSUME PlanInv, [FitNext]_fitVars PROVE PlanInv'
    OBVIOUS
<1>1. CASE \E evidence \in Evidence, fitMode \in FitModes : StartFit(evidence, fitMode)
    BY <1>1, StartFitPlans
<1>2. CASE AutoResolve /\ UNCHANGED <<fit, final>>
    BY <1>2, AutoResolveKeepsPlan
<1>3. CASE FitOpened
    BY <1>3, FitOpenedKeepsPlan
<1>4. CASE FitDecide
    BY <1>4, FitDecideKeepsPlan
<1>5. CASE FitCommit
    BY <1>5, FitCommitKeepsPlan
<1>6. CASE (WriteAliases \/ WriteTailored) /\ UNCHANGED <<fit, final>>
    BY <1>6, FitWritesKeepPlan
<1>7. CASE WriteFinal
    BY <1>7, WriteFinalKeepsPlan
<1>8. CASE StopFit
    BY <1>8, StopFitKeepsPlan
<1>9. CASE UNCHANGED fitVars
    <2>1. UNCHANGED <<config, resumes, session, tailored, step, fit, final>>
        BY <1>9 DEF fitVars, vars
    <2> QED
        BY <2>1 DEF PlanInv
<1> QED
    BY <1>1, <1>2, <1>3, <1>4, <1>5, <1>6, <1>7, <1>8, <1>9 DEF FitNext

LEMMA FitSpecIsSound == FitSpec => [](final # NoFinal => Sound(final))
<1>1. PlanInv => (final # NoFinal => Sound(final))
    BY DEF PlanInv
<1> QED
    BY <1>1, FitInitPlansNothing, FitStepKeepsPlan, PTL DEF FitSpec

\* Whatever the resume, the budgets, the evidence and the answers, a final file has
\* every item of the source or a ledger entry for it, item by item and also among
\* equal items, and no text that is not one of the source or one of its texts
\* shortened to its budget.
THEOREM SpecNothingLostOrInvented == FitSpec => []NothingLostOrInvented
<1>1. (final # NoFinal => Sound(final)) => NothingLostOrInvented
    BY SoundFinal
<1> QED
    BY <1>1, FitSpecIsSound, PTL

\* No fit cuts what it defers to the human, nor, with explicit answers, what no
\* applying answer was given for.
THEOREM SpecHumanDecidesTheRest == FitSpec => []HumanDecidesTheRest
<1>1. (final # NoFinal => Sound(final)) => HumanDecidesTheRest
    BY SoundFinal
<1> QED
    BY <1>1, FitSpecIsSound, PTL

\* No fit cuts a list below its budget.  An auto-fit leaves a list over its budget
\* only if it deferred an item of it, and a text only if it deferred that text or one
\* reading the same, or if the shortened text repeats a claim made elsewhere that is
\* not vouched for: that compression is neither applied nor reported.
THEOREM SpecFitsToTheBudget == FitSpec => []FitsToTheBudget
<1>1. (final # NoFinal => Sound(final)) => FitsToTheBudget
    BY SoundFinal
<1> QED
    BY <1>1, FitSpecIsSound, PTL
=============================================================================
