------------------------------- MODULE MCRules -------------------------------
(* The pure rules and the fetcher for TLC: one of them runs, on every input   *)
(* of its bounds, while the others stay on one initial state.                 *)
EXTENDS EditDistance, Fetch, RscScan, Rules, FiniteSets

CONSTANTS MaxCrowns, MaxQuantity

VARIABLE rule

MatchVars == <<offer, step, failed, result>>
MarkVars == <<rows, next, by, raised>>
AllVars == <<rule, vars, MatchVars, MarkVars, scanVars, fetchVars>>

\* Onion rings of every size, zero included, and price, and rows that may not replace them.
MCPortions ==
    [crowns : 1..MaxCrowns, quantity : 0..MaxQuantity, family : {"rings"}, usable : {TRUE}]
    \cup [crowns : {1}, quantity : {MaxQuantity}, family : {"nuggets"}, usable : {TRUE}]
    \cup [crowns : {1, MaxCrowns}, quantity : {0, MaxQuantity}, family : {"rings"}, usable : {FALSE}]
    \cup [crowns : {1}, quantity : {MaxQuantity}, family : {"none"}, usable : {TRUE}]

\* The input of a rule that does not run.
NoWords == left = <<>> /\ right = <<>>
NoRows == rows = [r \in 1..1 |-> CHOOSE p \in Portions : TRUE]
NoOffer ==
    offer = [id \in Ids |-> [price |-> 0, active |-> FALSE, available |-> FALSE,
                             categorised |-> FALSE, hits |-> {}]]
NoText == text = <<"open">>

RulesInit ==
    /\ \/ rule = "near" /\ NoOffer /\ NoRows /\ NoText /\ stop = FALSE
       \/ rule = "match" /\ NoWords /\ NoRows /\ NoText /\ stop = FALSE
       \/ rule = "mark" /\ NoWords /\ NoOffer /\ NoText /\ stop = FALSE
       \/ rule = "slice" /\ NoWords /\ NoOffer /\ NoRows /\ stop = FALSE
       \/ rule = "fetch" /\ NoWords /\ NoOffer /\ NoRows /\ NoText
    /\ Init /\ M!Init /\ D!Init /\ ScanInit /\ FetchInit

Fetches ==
    /\ rule = "fetch" /\ Get
    /\ UNCHANGED <<rule, vars, MatchVars, MarkVars, scanVars>>

RulesNext ==
    \/ Fetches
    \/ /\ UNCHANGED rule
       /\ \/ rule = "near" /\ Next /\ UNCHANGED <<MatchVars, MarkVars, scanVars, fetchVars>>
          \/ rule = "match" /\ M!Next /\ UNCHANGED <<vars, MarkVars, scanVars, fetchVars>>
          \/ rule = "mark" /\ D!Next /\ UNCHANGED <<vars, MatchVars, scanVars, fetchVars>>
          \/ rule = "slice" /\ ScanNext /\ UNCHANGED <<vars, MatchVars, MarkVars, fetchVars>>
          \/ rule = "fetch" /\ Stop /\ UNCHANGED <<vars, MatchVars, MarkVars, scanVars>>

\* The fairness of FairFetch.
RulesSpec == RulesInit /\ [][RulesNext]_AllVars /\ WF_AllVars(Fetches)

\* See Fetch.
FetchEnds == rule = "fetch" => Ends
=============================================================================
