----------------------------- MODULE MCServices -----------------------------
(***************************************************************************)
(* The sessions of an account, the acquaintance with a new user, the news, *)
(* the snapshots and reviews of a user's days and the strategy, one part   *)
(* in each behaviour.                                                      *)
(***************************************************************************)
EXTENDS Sessions, Onboarding, NewsFeed, Progress, StrategyLadder

CONSTANTS Parts, d1, d2, c1, c2
VARIABLE part

MCClient == {d1, d2}
MCHorizons == <<"3-5y", "1y">>
MCServicesSymmetry == Permutations({c1, c2})

(* Both devices have signed in, one after the other; two calls are left.   *)
SignedIn ==
    /\ account = "live" /\ password = 1 /\ change = 0
    /\ tokens = <<[dev |-> d1, from |-> 0, row |-> TRUE, revoked |-> "no", expired |-> FALSE, at |-> 1, knew |-> 1],
                  [dev |-> d2, from |-> 0, row |-> TRUE, revoked |-> "no", expired |-> FALSE, at |-> 1, knew |-> 1]>>
    /\ access = (d1 :> 1 @@ d2 :> 2) /\ refresh = access
    /\ session \in [Client -> {"fresh", "stale"}] /\ session[d2] = "fresh"
    /\ syncOn = [d \in Client |-> TRUE]
    /\ call = [d \in Client |-> [c \in Caller |-> NoCall]]
    /\ trouble = {}
    /\ events = [calls |-> MaxCalls - 2, faults |-> 0]

(* What the user may enter in the two screens of the questionnaire, and    *)
(* what a model may ask besides the questions of the detectors.            *)
Entered(set) == [set |-> set, clear |-> {}]
MCFills ==
    <<{Entered([fixed_hours_per_day |-> 300, available_hours_per_day |-> 120, goal_horizon |-> "1y"])},
      {Entered([what_you_want |-> [tone |-> "money", clauses |-> 1], skills_have |-> <<"python">>,
                energy_pattern |-> "morning"]),
       [set |-> [what_you_want |-> [tone |-> "plain", clauses |-> 1], skills_want |-> <<"sales">>,
                 interests |-> <<"ai">>],
        clear |-> {"available_hours_per_day"}]}>>
MCProposed == {[nr |-> 1, target |-> "GOALS.in one word", importance |-> 60]}
MCDomain == [n \in {"python", "sales", "ai"} |->
                CASE n = "python" -> "programming" [] n = "sales" -> "business" [] n = "ai" -> "ai"]

(* Two sources whose pages share an item. *)
MCSources == <<"wire", "paper">>
MCPage == [s \in {"wire", "paper"} |-> IF s = "wire" THEN {<<"a", "b">>, <<"b">>} ELSE {<<"b", "c">>}]

MCInit ==
    /\ part \in Parts
    /\ SessionInit \/ (part = "sessions" /\ SignedIn)
    /\ OnboardingInit /\ NewsInit /\ ProgressInit /\ LadderInit
    /\ part # "strategy" => \A g \in LifeGoal : lifeGoals[g].title = CHOOSE t \in LadderTitle : TRUE

MCNext ==
    \/ part = "sessions"   /\ SessionNext    /\ UNCHANGED <<onboardingVars, newsVars, progressVars, ladderVars, part>>
    \/ part = "onboarding" /\ OnboardingNext /\ UNCHANGED <<sessionVars, newsVars, progressVars, ladderVars, part>>
    \/ part = "news"       /\ NewsNext       /\ UNCHANGED <<sessionVars, onboardingVars, progressVars, ladderVars, part>>
    \/ part = "snapshots"  /\ SnapshotNext   /\ UNCHANGED <<sessionVars, onboardingVars, newsVars, ladderVars, part>>
    \/ part = "reviews"    /\ ReviewNext     /\ UNCHANGED <<sessionVars, onboardingVars, newsVars, ladderVars, part>>
    \/ part = "strategy"   /\ LadderNext     /\ UNCHANGED <<sessionVars, onboardingVars, newsVars, progressVars, part>>

servicesVars == <<sessionVars, onboardingVars, newsVars, progressVars, ladderVars, part>>
MCSpec == MCInit /\ [][MCNext]_servicesVars

(* What is on record of a user's days and directions is what was (Progress!DaysAreToldTruly, *)
(* StrategyLadder!StrategyIsOnRecord).                                                       *)
RecordsAreTrue == DaysAreToldTruly /\ StrategyIsOnRecord
=============================================================================
