----------------------------- MODULE Onboarding -----------------------------
(***************************************************************************)
(* The acquaintance with a new user: OnboardingService                     *)
(* (packages/core/src/onboarding/service.ts) driven by the wizard          *)
(* (apps/web/src/screens/Onboarding.tsx). A call of the service is the     *)
(* list of the statements it still has to commit (todo), one a step; the   *)
(* process may die, or a statement fail, between any two.                  *)
(*                                                                         *)
(*   sessions   rows of onboarding_sessions, the newest last               *)
(*   answers    per session, question_key -> answer                        *)
(*   clarified  per session, the targets with an "interview:" row          *)
(*   questions  rows of interview_questions                                *)
(*   profile    profile_fields: id -> value, source, confidence            *)
(*   groups     the settings written from the answers, if they are                         *)
(*   memories   id and value of each memory of onboarding                  *)
(*   flags      user_model_confirmed, onboarding_completed                 *)
(*   goals      titles in the order they were created                      *)
(*   skills     names; those with evidence; those tied to a goal           *)
(*   nodes, relations   the knowledge map; planned: a day plan exists      *)
(*   ui         the screen, its block, the answers it shows, the question  *)
(*              it asks                                                    *)
(*   agreed     what the user has confirmed: id -> value                   *)
(*   said       the answers whose writing was reported done                *)
(*                                                                         *)
(* Answers are a function on the keys that have a row. Hours and times of  *)
(* day are in minutes, importance is in percent. A free text is what the   *)
(* detectors tell of it: what_you_want is [tone, clauses], its tone being  *)
(* "money" (VAGUE_MONEY), "success" (VAGUE_SUCCESS, short) or "plain";     *)
(* income_expectation is "vague" or "plain"; other texts are "said".       *)
(* Wording, labels and options are left out.                               *)
(***************************************************************************)
EXTENDS Integers, Sequences, FiniteSets, SequencesExt, FiniteSetsExt, TLC

CONSTANTS
    Fills,        \* per block, what a user may enter: keys set, keys cleared
    Proposed,     \* gaps the model may propose in addition
    Unwritable,   \* items of the preview that setField refuses
    Doubtful,     \* bound: items and drafts the user may take out
    Domain,       \* skill or interest -> its domain
    None,
    MaxMishaps,    \* bound: deaths of the process and statements that fail
    MaxQuestions  \* bound: rows of interview_questions

-----------------------------------------------------------------------------
(* The pure part: the questionnaire (questions.ts), what is worth asking about *)
(* an answered one (interview.ts), and what the answers become.                *)

(* The blocks of the questionnaire, by the keys of their questions. *)
Questionnaire ==
    <<{"age_category", "education", "main_activity", "fixed_hours_per_day", "available_hours_per_day",
       "family_situation", "energy_pattern"},
      {"what_you_want", "what_to_avoid", "who_to_become", "problems_to_solve", "goal_horizon"},
      {"skills_have", "skills_learning", "skills_want", "proof_of_skill"},
      {"interests", "interests_other", "curiosity"},
      {"wake_time", "sleep_time", "typical_day", "distractions", "obligations"},
      {"planning_style", "strictness", "free_time_desired", "reminder_attitude", "planning_history"},
      {"career_direction", "financial_situation", "risk_tolerance", "capital_available", "income_expectation"}>>

QuestionKeys == UNION Range(Questionnaire)

Missing == -1
Given(a, key, default) == IF key \in DOMAIN a THEN a[key] ELSE default
Has(a, key) == key \in DOMAIN a
Lists == {"main_activity", "interests", "distractions", "career_direction",
          "skills_have", "skills_learning", "skills_want"}
Named(a, key) == Given(a, key, <<>>)
Listed(a, key) == Range(Named(a, key))
Hour == 60

(* Minutes awake, to the tenth of an hour. *)
WakingHoursBetween(wake, sleep) ==
    LET diff == IF sleep > wake THEN sleep - wake ELSE 24 * Hour - wake + sleep
    IN  ((diff + 3) \div 6) * 6

-----------------------------------------------------------------------------
(* interview.ts *)

(* The detectors, in the order of the code: found, target, importance. *)
Detectors(a) ==
    LET fixed == Given(a, "fixed_hours_per_day", Missing)
        available == Given(a, "available_hours_per_day", Missing)
        free == Given(a, "free_time_desired", 90)
        timed == Has(a, "wake_time") /\ Has(a, "sleep_time")
        waking == WakingHoursBetween(a["wake_time"], a["sleep_time"])
        tone == IF Has(a, "what_you_want") THEN a["what_you_want"].tone ELSE "none"
        career == Listed(a, "career_direction")
        have == Named(a, "skills_have")
        want == Named(a, "skills_want")
        hours == fixed # Missing /\ available # Missing
    IN  <<<<available = Missing, "TIME_AVAILABILITY.available_hours_per_day", 95>>,
          <<fixed = Missing, "CONSTRAINTS.fixed_hours_per_day", 85>>,
          <<tone = "none", "GOALS.primary", 98>>,
          <<career = {} \/ "undecided" \in career, "CAREER_DIRECTION.primary", 70>>,
          <<Listed(a, "interests") = {}, "INTERESTS.areas", 60>>,
          <<hours /\ fixed + available + free + 150 > (IF timed THEN waking ELSE 16 * Hour),
            "TIME_AVAILABILITY.realistic_load", 95>>,
          <<hours /\ available > 8 * Hour, "TIME_AVAILABILITY.realistic_load", 70>>,
          <<Given(a, "planning_style", "") = "strict" /\ Given(a, "reminder_attitude", "") = "none",
            "PREFERENCES.planning", 60>>,
          <<tone = "money" /\ Given(a, "income_expectation", "vague") = "vague", "FINANCIAL_DIRECTION.definition", 92>>,
          <<tone = "success", "GOALS.definition", 80>>,
          <<Given(a, "goal_horizon", "unclear") = "unclear", "GOALS.horizon", 75>>,
          <<"stable_career" \in career /\ career \intersect {"own_business", "financial_independence", "multiple_incomes"} # {},
            "CAREER_DIRECTION.priority", 85>>,
          <<career \intersect {"investments", "financial_independence"} # {} /\ Given(a, "capital_available", Missing) = 0
              /\ Given(a, "financial_situation", "") = "tight", "FINANCIAL_DIRECTION.sequence", 70>>,
          <<Len(want) >= 4, "SKILLS.priority", 72>>,
          <<have # <<>> /\ ~Has(a, "proof_of_skill"), "SKILLS.evidence", 78>>,
          <<want # <<>> /\ Listed(a, "main_activity") = {}, "CONSTRAINTS.structure", 50>>,
          <<~Has(a, "obligations") /\ fixed >= 6 * Hour, "CONSTRAINTS.disruptions", 68>>,
          <<~Has(a, "planning_history") /\ Listed(a, "distractions") = {}, "DISTRACTIONS.main", 55>>,
          <<timed /\ waking < 12 * Hour, "TIME_AVAILABILITY.sleep", 50>>>>

(* A gap keeps its place in the list: the sort by importance is stable. *)
DetectGaps(a) ==
    LET found == Detectors(a) IN
    {[nr |-> i, target |-> found[i][2], importance |-> found[i][3]] : i \in {j \in DOMAIN found : found[j][1]}}

Before(g, h) == g.importance > h.importance \/ (g.importance = h.importance /\ g.nr < h.nr)
Ranked(gaps) == [i \in 1..Cardinality(gaps) |-> CHOOSE g \in gaps : Cardinality({h \in gaps : Before(h, g)}) = i - 1]
FirstOfTarget(gaps) == {g \in gaps : \A h \in gaps : h.target = g.target /\ h # g => Before(g, h)}
Foremost(gaps, max) == LET ranked == Ranked(gaps) IN SubSeq(ranked, 1, Min({max, Len(ranked)}))

(* related_question_key is compared with "question:..." targets, which do  *)
(* not exist, and drops nothing.                                           *)
SelectQuestions(gaps, max, minImportance, asked) ==
    Foremost(FirstOfTarget({g \in gaps : g.importance >= minImportance /\ g.target \notin asked}), max)

(* The proposals of the model come behind what the detectors found. *)
MergeCandidates(gaps, proposed, max) ==
    Range(Foremost(FirstOfTarget(gaps \union {[g EXCEPT !.nr = 100 + @] : g \in proposed}), max))

-----------------------------------------------------------------------------
(* service.ts *)

(* The items that are an answer: their id in the user model, its key. *)
AnswerItems ==
    <<<<"PROFILE.age_category", "age_category">>, <<"PROFILE.education", "education">>,
      <<"PROFILE.main_activity", "main_activity">>, <<"PROFILE.family_situation", "family_situation">>,
      <<"PROFILE.energy_pattern", "energy_pattern">>, <<"GOALS.primary", "what_you_want">>,
      <<"GOALS.avoid", "what_to_avoid">>, <<"VALUES.identity", "who_to_become">>,
      <<"GOALS.problems", "problems_to_solve">>, <<"GOALS.horizon", "goal_horizon">>,
      <<"SKILLS.current", "skills_have">>, <<"SKILLS.learning", "skills_learning">>,
      <<"SKILLS.targets", "skills_want">>, <<"SKILLS.evidence", "proof_of_skill">>,
      <<"INTERESTS.areas", "interests">>, <<"INTERESTS.other", "interests_other">>,
      <<"MOTIVATION_FACTORS.curiosity", "curiosity">>, <<"TIME_AVAILABILITY.wake_time", "wake_time">>,
      <<"TIME_AVAILABILITY.sleep_time", "sleep_time">>, <<"TIME_AVAILABILITY.typical_day", "typical_day">>,
      <<"CONSTRAINTS.fixed_hours_per_day", "fixed_hours_per_day">>,
      <<"TIME_AVAILABILITY.available_hours_per_day", "available_hours_per_day">>,
      <<"CONSTRAINTS.disruptions", "obligations">>, <<"DISTRACTIONS.main", "distractions">>,
      <<"PREFERENCES.planning_style", "planning_style">>, <<"PREFERENCES.strictness", "strictness">>,
      <<"PREFERENCES.free_time_desired_hours", "free_time_desired">>,
      <<"PREFERENCES.reminder_attitude", "reminder_attitude">>, <<"PREFERENCES.past_failures", "planning_history">>,
      <<"CAREER_DIRECTION.wants", "career_direction">>, <<"FINANCIAL_DIRECTION.situation", "financial_situation">>,
      <<"FINANCIAL_DIRECTION.risk_tolerance", "risk_tolerance">>,
      <<"FINANCIAL_DIRECTION.capital_available", "capital_available">>,
      <<"FINANCIAL_DIRECTION.definition_of_earning_well", "income_expectation">>>>

Item(id, value, source, confidence) == [id |-> id, value |-> value, source |-> source, confidence |-> confidence]

InferLearningPreferences(a) ==
    LET active == Listed(a, "main_activity")
        likes == Listed(a, "interests")
        styles == <<<<active \intersect {"study", "academia"} # {}, "courses">>, <<Has(a, "proof_of_skill"), "projects">>,
                    <<likes \intersect {"programming", "technology"} # {}, "building">>,
                    <<likes \intersect {"programming", "technology"} # {}, "documentation">>,
                    <<"languages" \in likes, "short practice">>, <<"languages" \in likes, "speaking">>,
                    <<likes \intersect {"sport", "health"} # {}, "short sessions">>,
                    <<Given(a, "available_hours_per_day", 0) <= Hour, "micro-sessions">>>>
        fit == SelectSeq(styles, LAMBDA s : s[1])
    IN  {fit[i][2] : i \in 1..Min({5, Len(fit)})}

(* What the code derives by itself, marked as inferred. *)
InferredItems(a) ==
    LET fixed == Given(a, "fixed_hours_per_day", 0)
        room == WakingHoursBetween(a["wake_time"], a["sleep_time"]) - fixed - 150 - Given(a, "free_time_desired", 90)
        styles == InferLearningPreferences(a)
    IN  (IF Has(a, "wake_time") /\ Has(a, "sleep_time") /\ fixed > 0
         THEN <<Item("TIME_AVAILABILITY.realistic_daily_focus_minutes",
                     Max({0, Min({Given(a, "available_hours_per_day", 0), room})}), "ai_inferred", "inferred")>>
         ELSE <<>>)
        \o (IF Given(a, "energy_pattern", "variable") # "variable"
            THEN <<Item("LEARNING_PREFERENCES.best_focus_window", a["energy_pattern"], "ai_inferred", "inferred")>>
            ELSE <<>>)
        \o (IF styles # {} THEN <<Item("LEARNING_PREFERENCES.formats", styles, "ai_inferred", "uncertain")>> ELSE <<>>)

(* Clarified is a sequence of [target, answer]: the answered questions. *)
BuildModelItems(a, clarified) ==
    LET stated == SelectSeq(AnswerItems, LAMBDA i : Has(a, i[2]) /\ (i[2] \in Lists => a[i[2]] # <<>>)) IN
    [i \in DOMAIN stated |-> Item(stated[i][1], a[stated[i][2]], "user_provided", "confirmed")]
    \o InferredItems(a)
    \o [i \in DOMAIN clarified |-> Item(clarified[i].target, clarified[i].answer, "user_provided", "confirmed")]

Between(low, n, high) == Max({low, Min({n, high})})

SettingsFromAnswers(a) ==
    LET available == Given(a, "available_hours_per_day", 2 * Hour)
        minutes == (Between(0, available, 10 * Hour) * 6 + 5) \div 10
    IN  [planning |-> [style |-> Given(a, "planning_style", "balanced"),
                       strictness |-> Between(0, Given(a, "strictness", 5), 10),
                       free_time_minutes |-> Between(0, Given(a, "free_time_desired", 90), 8 * Hour),
                       max_focus |-> Between(30, available, 12 * Hour),
                       wake_time |-> Given(a, "wake_time", 450), sleep_time |-> Given(a, "sleep_time", 1410),
                       reminder_style |-> Given(a, "reminder_attitude", "gentle")],
         learning |-> IF minutes = 0 THEN 45 ELSE minutes]

(* Titles of the first goals: at most four clauses of the wish, two skills, *)
(* what to avoid; six of them.                                              *)
HeuristicGoals(a) ==
    LET clauses == IF Has(a, "what_you_want") THEN Min({4, a["what_you_want"].clauses}) ELSE 0
        want == Named(a, "skills_want")
        drafts == [i \in 1..clauses |-> <<"wish", i>>]
                  \o [i \in 1..Min({2, Len(want)}) |-> <<"learn", want[i]>>]
                  \o (IF Has(a, "what_to_avoid") THEN <<<<"reduce">>>> ELSE <<>>)
    IN  IF drafts = <<>> THEN <<<<"define">>>> ELSE SubSeq(drafts, 1, Min({6, Len(drafts)}))

-----------------------------------------------------------------------------
(* The state. *)

VARIABLES sessions, answers, clarified, questions, profile, groups, memories, flags, goals, skills,
          nodes, relations, planned, ui, todo, agreed, said, faults

storyVars == <<sessions, answers, clarified, questions>>
modelVars == <<profile, groups, memories, flags>>
startVars == <<goals, skills, nodes, relations, planned>>
onboardingVars == <<storyVars, modelVars, startVars, ui, todo, agreed, said, faults>>

Nothing == [k \in {} |-> None]
Active == {"in_progress", "awaiting_interview", "awaiting_confirmation"}
Open == {s \in DOMAIN sessions : sessions[s].status \in Active}
Completed == {s \in DOMAIN sessions : sessions[s].status = "completed"}

(* The newest active session, or the last completed one; 0 if none. *)
Session == IF Open # {} THEN Max(Open) ELSE Max(Completed \union {0})
View == IF Session = 0 THEN Nothing ELSE answers[Session]
QuestionsOf(s, status) == {q \in DOMAIN questions : questions[q].session = s /\ questions[q].status \in status}

(* The call of the service that runs has statements left. *)
Underway == todo # <<>>
Idle(screen) == ~Underway /\ ui.screen = screen
Doing(what) == Underway /\ Head(todo).do = what
Step(what) == [do |-> what]
Show(screen) == [do |-> "show", screen |-> screen]
Rest == todo' = Tail(todo)
Each(seq, Op(_)) == [i \in DOMAIN seq |-> Op(seq[i])]

-----------------------------------------------------------------------------
(* The questionnaire *)

(* Mutant: a session is opened whenever the wizard begins. *)
BeginAnew ==
    /\ Idle("welcome")
    /\ sessions' = Append(sessions, [status |-> "in_progress", stage |-> "questionnaire", model |-> FALSE])
    /\ answers' = Append(answers, Nothing)
    /\ clarified' = Append(clarified, {})
    /\ ui' = [ui EXCEPT !.screen = "questionnaire", !.block = 1, !.shown = Nothing]
    /\ UNCHANGED <<questions, modelVars, startVars, todo, agreed, said, faults>>

(* start() of a session when none is active; the wizard reads the answers. *)
Begin ==
    /\ Idle("welcome")
    /\ IF Open # {} THEN UNCHANGED <<sessions, answers, clarified>>
       ELSE /\ sessions' = Append(sessions, [status |-> "in_progress", stage |-> "questionnaire", model |-> FALSE])
            /\ answers' = Append(answers, Nothing)
            /\ clarified' = Append(clarified, {})
    /\ ui' = [ui EXCEPT !.screen = "questionnaire", !.block = 1,
                        !.shown = IF Open # {} THEN View ELSE Nothing]
    /\ UNCHANGED <<questions, modelVars, startVars, todo, agreed, said, faults>>

(* "Save and next": answerBlock of everything shown so far; what is empty  *)
(* is skipped. Behind the last block comes the analysis.                   *)
SaveAndNext(fill) ==
    LET shown == [k \in (DOMAIN ui.shown \union DOMAIN fill.set) \ fill.clear |->
                    IF k \in DOMAIN fill.set THEN fill.set[k] ELSE ui.shown[k]]
    IN  /\ Idle("questionnaire")
        /\ ui' = [ui EXCEPT !.shown = shown]
        /\ todo' = Each(SelectSeq(AnswerItems, LAMBDA i : i[2] \in DOMAIN shown), LAMBDA i : [do |-> "answer", key |-> i[2]])
                   \o <<IF ui.block < Len(Fills) THEN Step("next block") ELSE Step("analyse")>>
        /\ UNCHANGED <<storyVars, modelVars, startVars, agreed, said, faults>>

Answer ==
    /\ Doing("answer")
    /\ LET k == Head(todo).key IN
       /\ answers' = [answers EXCEPT ![Session] = (k :> ui.shown[k]) @@ @]
       /\ said' = (k :> ui.shown[k]) @@ said
    /\ Rest
    /\ UNCHANGED <<sessions, clarified, questions, modelVars, startVars, ui, agreed, faults>>

NextBlock ==
    /\ Doing("next block") /\ Rest
    /\ ui' = [ui EXCEPT !.block = @ + 1]
    /\ UNCHANGED <<storyVars, modelVars, startVars, agreed, said, faults>>

-----------------------------------------------------------------------------
(* The interview *)

(* analyse() with what the model proposes, if it answers. *)
Analyse(proposed) ==
    /\ LET asked == {questions[q].target : q \in {r \in DOMAIN questions : questions[r].session = Session}}
           selected == SelectQuestions(MergeCandidates(DetectGaps(View), proposed, 12), 8, 45, asked)
       IN  todo' = Each(selected, LAMBDA g : [do |-> "ask", target |-> g.target, importance |-> 10 * g.importance])
                   \o <<[do |-> "stage", stage |-> "interview", status |-> "awaiting_interview"],
                        Show("analysis")>>
    /\ UNCHANGED <<storyVars, modelVars, startVars, ui, agreed, said, faults>>

(* The button of the analysis; the interview loads its first question. *)
GoToInterview ==
    /\ Idle("analysis")
    /\ todo' = <<Show("interview"), Step("load")>>
    /\ UNCHANGED <<storyVars, modelVars, startVars, ui, agreed, said, faults>>

Ask ==
    /\ Doing("ask") /\ Len(questions) < MaxQuestions
    /\ questions' = Append(questions, [session |-> Session, target |-> Head(todo).target,
                                       importance |-> Head(todo).importance, status |-> "pending", answer |-> None])
    /\ Rest
    /\ UNCHANGED <<sessions, answers, clarified, modelVars, startVars, ui, agreed, said, faults>>

(* setStage; the status only when one is given. *)
SetStage ==
    /\ Doing("stage")
    /\ sessions' = [sessions EXCEPT ![Session] = [@ EXCEPT !.stage = Head(todo).stage,
                                                           !.status = IF Head(todo).status = None THEN @ ELSE Head(todo).status]]
    /\ Rest
    /\ UNCHANGED <<answers, clarified, questions, modelVars, startVars, ui, agreed, said, faults>>

ShowScreen ==
    /\ Doing("show") /\ Rest
    /\ ui' = [ui EXCEPT !.screen = Head(todo).screen, !.asking = 0]
    /\ UNCHANGED <<storyVars, modelVars, startVars, agreed, said, faults>>

(* Mutant: a question that was put is not taken up again. *)
WaitingUnasked == {"pending"}

Waiting == {"pending", "asked"}

(* loadNext: the most important question that waits, marked as asked, or   *)
(* on to the preview.                                                      *)
LoadNext ==
    /\ Doing("load") /\ Rest
    /\ LET waiting == QuestionsOf(Session, Waiting)
           first == CHOOSE q \in waiting : \A r \in waiting :
                       questions[q].importance > questions[r].importance
                       \/ (questions[q].importance = questions[r].importance /\ q <= r)
       IN  IF waiting = {}
           THEN ui' = [ui EXCEPT !.screen = "preview", !.asking = 0] /\ UNCHANGED questions
           ELSE /\ ui' = [ui EXCEPT !.asking = first]
                /\ questions' = [questions EXCEPT ![first].status = "asked"]
    /\ UNCHANGED <<sessions, answers, clarified, modelVars, startVars, agreed, said, faults>>

(* answerInterview: three statements and the follow-ups. *)
AnswerInterview ==
    /\ Idle("interview") /\ ui.asking # 0
    /\ questions' = [questions EXCEPT ![ui.asking] = [@ EXCEPT !.status = "answered", !.answer = "told"]]
    /\ todo' = <<Step("clarify"), Step("follow up")>>
    /\ UNCHANGED <<sessions, answers, clarified, modelVars, startVars, ui, agreed, said, faults>>

Clarify ==
    /\ Doing("clarify") /\ Rest
    /\ clarified' = [clarified EXCEPT ![Session] = @ \union {questions[ui.asking].target}]
    /\ UNCHANGED <<sessions, answers, questions, modelVars, startVars, ui, agreed, said, faults>>

(* At most two strong gaps whose target has no answered question; those    *)
(* that wait are not looked at.                                            *)
FollowUp ==
    /\ Doing("follow up")
    /\ LET settled == {questions[q].target : q \in QuestionsOf(Session, {"answered"})}
           followUps == SelectQuestions(DetectGaps(View), 2, 70, settled)
       IN  todo' = Each(followUps, LAMBDA g : [do |-> "ask", target |-> g.target, importance |-> 9 * g.importance])
                   \o <<Step("load")>>
    /\ UNCHANGED <<storyVars, modelVars, startVars, ui, agreed, said, faults>>

SkipInterview ==
    /\ Idle("interview") /\ ui.asking # 0
    /\ questions' = [questions EXCEPT ![ui.asking].status = "skipped"]
    /\ todo' = <<Step("load")>>
    /\ UNCHANGED <<sessions, answers, clarified, modelVars, startVars, ui, agreed, said, faults>>

-----------------------------------------------------------------------------
(* The model *)

(* previewModel, read anew by confirmModel: the user sees the same items. *)
PreviewModel ==
    BuildModelItems(View, SelectSeq(questions, LAMBDA q : q.session = Session /\ q.status = "answered"))

Ids(items) == {items[i].id : i \in DOMAIN items}

(* The wizard sends every item it still shows as an edit, so that all come *)
(* from the user; of two items with one id the last value counts. Items    *)
(* the user removes are left out.                                          *)
Confirm(removed) ==
    LET items == PreviewModel
        kept == Ids(items) \ removed
        value == [id \in kept |-> items[Max({i \in DOMAIN items : items[i].id = id})].value]
        fields == SelectSeq(items, LAMBDA i : i.id \in kept)
    IN  /\ removed \subseteq Ids(items)
        /\ todo' = Each(fields, LAMBDA i : [do |-> "field", id |-> i.id, value |-> value[i.id]])
                   \o <<[do |-> "groups", patch |-> SettingsFromAnswers(View)],
                        [do |-> "memories", of |-> {<<fields[i].id, value[fields[i].id]>> :
                                                      i \in 1..Min({40, Len(fields)})}],
                        Step("model"), [do |-> "confirmed", value |-> value], Show("goals")>>
        /\ UNCHANGED <<storyVars, modelVars, startVars, ui, agreed, said, faults>>

(* profile.setField by the user: nothing of what is there withstands it.   *)
SetField ==
    /\ Doing("field") /\ Head(todo).id \notin Unwritable /\ Rest
    /\ profile' = (Head(todo).id :> [value |-> Head(todo).value, source |-> "user_provided", confidence |-> "confirmed"])
                  @@ profile
    /\ UNCHANGED <<storyVars, groups, memories, flags, startVars, ui, agreed, said, faults>>

(* settings.setMany of planning, learning, news and language. *)
SetGroups ==
    /\ Doing("groups") /\ Rest
    /\ groups' = <<Head(todo).patch>>
    /\ UNCHANGED <<storyVars, profile, memories, flags, startVars, ui, agreed, said, faults>>

(* memory.save of each of the first forty; one that is there is kept. *)
SaveMemories ==
    /\ Doing("memories") /\ Rest
    /\ memories' = memories \union Head(todo).of
    /\ UNCHANGED <<storyVars, profile, groups, flags, startVars, ui, agreed, said, faults>>

(* The snapshot and model_json. *)
SaveModel ==
    /\ Doing("model") /\ Rest
    /\ sessions' = [sessions EXCEPT ![Session] = [@ EXCEPT !.model = TRUE, !.stage = "goals"]]
    /\ UNCHANGED <<answers, clarified, questions, modelVars, startVars, ui, agreed, said, faults>>

SetConfirmed ==
    /\ Doing("confirmed") /\ Rest
    /\ flags' = [flags EXCEPT !.confirmed = TRUE]
    /\ agreed' = Head(todo).value
    /\ UNCHANGED <<storyVars, profile, groups, memories, startVars, ui, said, faults>>

-----------------------------------------------------------------------------
(* Goals, skills, knowledge and the first plan *)

(* finish(): createGoals of the drafts, createInitialSkills, seedKnowledge, *)
(* createInitialPlan, complete. The user may drop a draft.                  *)
Finish(dropped) ==
    LET drafts == SelectSeq(HeuristicGoals(View), LAMBDA d : d # dropped)
        have == Named(View, "skills_have")
        wanted == Named(View, "skills_want")
    IN  /\ drafts # <<>>
        /\ todo' = Each(drafts, LAMBDA d : [do |-> "goal", title |-> d])
                   \o <<[do |-> "stage", stage |-> "skills", status |-> None]>>
                   \o Each(have, LAMBDA n : [do |-> "skill", name |-> n, proof |-> Has(View, "proof_of_skill")])
                   \o Each(Named(View, "skills_learning") \o wanted,
                           LAMBDA n : [do |-> "skill", name |-> n, proof |-> FALSE])
                   \o (IF wanted = <<>> THEN <<>> ELSE <<[do |-> "tie", name |-> wanted[1]]>>)
                   \o <<[do |-> "stage", stage |-> "plan", status |-> None], Step("seed"), Step("plan"),
                        [do |-> "stage", stage |-> "done", status |-> None], Step("complete"), Step("completed"),
                        Show("dashboard")>>
        /\ UNCHANGED <<storyVars, modelVars, startVars, ui, agreed, said, faults>>

CreateGoal ==
    /\ Doing("goal") /\ Rest
    /\ goals' = Append(goals, Head(todo).title)
    /\ UNCHANGED <<storyVars, modelVars, skills, nodes, relations, planned, ui, agreed, said, faults>>

(* A name that exists is refused and passed over; assess() follows when the *)
(* evidence names the skill.                                                *)
CreateSkill ==
    /\ Doing("skill") /\ Rest
    /\ LET name == Head(todo).name IN
       skills' = IF name \in skills.names THEN skills
                 ELSE [skills EXCEPT !.names = @ \union {name},
                                     !.proved = IF Head(todo).proof THEN @ \union {name} ELSE @]
    /\ UNCHANGED <<storyVars, modelVars, goals, nodes, relations, planned, ui, agreed, said, faults>>

TieSkill ==
    /\ Doing("tie") /\ Rest
    /\ skills' = [skills EXCEPT !.tied = IF goals # <<>> THEN @ \union ({Head(todo).name} \intersect skills.names) ELSE @]
    /\ UNCHANGED <<storyVars, modelVars, goals, nodes, relations, planned, ui, agreed, said, faults>>

(* seedFromProfile, from the answers and the skills there are now: a node  *)
(* per interest, one per skill, one per domain of a skill, and its part.   *)
SeedKnowledge ==
    /\ Doing("seed") /\ Rest
    /\ LET own == {<<n, Domain[n]>> : n \in skills.names}
           domains == {<<Domain[n], Domain[n]>> : n \in skills.names}
       IN  /\ nodes' = nodes \union {<<i, i>> : i \in Listed(View, "interests")} \union own \union domains
           /\ relations' = relations \union {<<<<n[2], n[2]>>, n>> : n \in {m \in own : m[1] # m[2]}}
    /\ UNCHANGED <<storyVars, modelVars, goals, skills, planned, ui, agreed, said, faults>>

BuildPlan ==
    /\ Doing("plan") /\ Rest
    /\ planned' = TRUE
    /\ UNCHANGED <<storyVars, modelVars, goals, skills, nodes, relations, ui, agreed, said, faults>>

(* complete(): the session, and then the flags the application looks at. *)
Complete ==
    /\ Doing("complete") /\ Rest
    /\ sessions' = [sessions EXCEPT ![Session] = [@ EXCEPT !.status = "completed", !.stage = "done"]]
    /\ UNCHANGED <<answers, clarified, questions, modelVars, startVars, ui, agreed, said, faults>>

SetCompleted ==
    /\ Doing("completed") /\ Rest
    /\ flags' = [flags EXCEPT !.completed = TRUE]
    /\ UNCHANGED <<storyVars, profile, groups, memories, startVars, ui, agreed, said, faults>>

-----------------------------------------------------------------------------
(* Mutant: the wizard goes on as if the call had succeeded. *)
GoneOn ==
    /\ Underway /\ Head(todo).do \notin {"show", "next block", "load"}
    /\ \/ faults < MaxMishaps /\ faults' = faults + 1
       \/ Head(todo).do = "field" /\ Head(todo).id \in Unwritable /\ UNCHANGED faults
    /\ todo' = <<todo[Len(todo)]>>
    /\ UNCHANGED <<storyVars, modelVars, startVars, ui, agreed, said>>

(* A statement fails: the wizard stays where it is and can be used again.  *)
FailedStatement ==
    /\ Underway /\ Head(todo).do \notin {"show", "next block", "load"}
    /\ \/ faults < MaxMishaps /\ faults' = faults + 1
       \/ Head(todo).do = "field" /\ Head(todo).id \in Unwritable /\ UNCHANGED faults
    /\ todo' = <<>>
    /\ UNCHANGED <<storyVars, modelVars, startVars, ui, agreed, said>>

(* The wizard of the next start begins at the welcome screen. *)
OnboardingCrash ==
    /\ faults < MaxMishaps /\ ui.screen # "dashboard"
    /\ faults' = faults + 1
    /\ todo' = <<>>
    /\ ui' = [screen |-> IF flags.completed THEN "dashboard" ELSE "welcome", block |-> 1, shown |-> Nothing, asking |-> 0]
    /\ UNCHANGED <<storyVars, modelVars, startVars, agreed, said>>

OnboardingInit ==
    /\ sessions = <<>> /\ answers = <<>> /\ clarified = <<>> /\ questions = <<>>
    /\ profile = Nothing /\ groups = <<>> /\ memories = {}
    /\ flags = [confirmed |-> FALSE, completed |-> FALSE]
    /\ goals = <<>> /\ skills = [names |-> {}, proved |-> {}, tied |-> {}]
    /\ nodes = {} /\ relations = {} /\ planned = FALSE
    /\ ui = [screen |-> "welcome", block |-> 1, shown |-> Nothing, asking |-> 0]
    /\ todo = <<>> /\ agreed = Nothing /\ said = Nothing /\ faults = 0

OnboardingNext ==
    \/ Begin \/ (ui.screen = "questionnaire" /\ \E fill \in Fills[ui.block] : SaveAndNext(fill)) \/ Answer \/ NextBlock
    \/ Doing("analyse") /\ \E proposed \in SUBSET Proposed : Analyse(proposed)
    \/ GoToInterview \/ Ask \/ SetStage \/ ShowScreen \/ LoadNext \/ AnswerInterview \/ Clarify \/ FollowUp \/ SkipInterview
    \/ Idle("preview") /\ \E removed \in {{}} \union {{id} : id \in Doubtful \intersect Ids(PreviewModel)} : Confirm(removed)
    \/ SetField \/ SetGroups \/ SaveMemories \/ SaveModel \/ SetConfirmed
    \/ Idle("goals") /\ \E dropped \in {<<None>>, <<"define">>} : Finish(dropped)
    \/ CreateGoal \/ CreateSkill \/ TieSkill \/ SeedKnowledge \/ BuildPlan \/ Complete \/ SetCompleted
    \/ FailedStatement \/ OnboardingCrash

OnboardingSpec == OnboardingInit /\ [][OnboardingNext]_onboardingVars

-----------------------------------------------------------------------------
(* Properties *)

(* The application opens only onto a whole model: what the user confirmed  *)
(* last stands in the profile with the confirmed values and as their own   *)
(* words, the settings are written, there is a goal and a plan.            *)
CompletedIsWhole ==
    flags.completed =>
       /\ flags.confirmed /\ planned /\ goals # <<>>
       /\ DOMAIN agreed \subseteq DOMAIN profile
       /\ \A id \in DOMAIN agreed : profile[id].value = agreed[id] /\ <<id, agreed[id]>> \in memories
       /\ groups # <<>>

(* What was saved is found again however often the process dies, until a   *)
(* session is completed; and the model is shown only when every question   *)
(* that was selected has been answered or skipped.                         *)
NothingSaidIsLost ==
    /\ Completed = {} => \A k \in DOMAIN said : k \in DOMAIN View /\ View[k] = said[k]
    /\ ui.screen = "preview" => \A q \in DOMAIN questions :
                                  questions[q].session = Session => questions[q].status \in {"answered", "skipped"}

(* "a finished onboarding must stay finished" (service.ts:128-129). *)
FinishedStaysFinished == Completed # {} => Open = {}

(* "drops already-asked ones" (interview.ts:274). *)
NothingIsAskedTwice ==
    \A q, r \in DOMAIN questions : q # r /\ questions[q].session = questions[r].session
                                   => questions[q].target # questions[r].target

(* "Confirm / Edit / Delete" of each item (docs/06:74): what the user took *)
(* out of the model is not in it.                                          *)
RemovedIsNotThere == flags.completed => DOMAIN profile = DOMAIN agreed

(* One goal per confirmed draft. *)
GoalsOnce == flags.completed => IsInjective(goals)

(* "Each answer is saved at once" (Onboarding.tsx:75): also an emptied one. *)
ShownIsSaved ==
    (ui.screen \in {"analysis", "interview"} /\ Completed = {}) => DOMAIN View = DOMAIN ui.shown

(* "closing the app mid-onboarding resumes exactly where the user stopped"  *)
(* (service.ts:83-84).                                                      *)
ResumesWhereItStopped ==
    (Idle("questionnaire") /\ Session # 0) => sessions[Session].stage = "questionnaire"

(* "ai_inferred - always shown as an assumption" (docs/06:64). *)
AssumptionsStayAssumptions ==
    \A id \in DOMAIN profile : id \in Ids(InferredItems(View)) => profile[id].source = "ai_inferred"
=============================================================================
