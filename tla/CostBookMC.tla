------------------------------ MODULE CostBookMC ------------------------------
(* An instance of CostBook: SKUs "A" and "a" that differ in case only, "m", a   *)
(* name on the marketplace for A, and the name a blank cell reads as.         *)
(* The accounts of Accounts, which share no row with the book, are explored   *)
(* beside it: a behaviour is one of the book or one of the accounts.          *)
EXTENDS CostBook, Accounts, TLC

MCSku == {"A", "a", "m", "nan"}
MCNorm == [A |-> "a", a |-> "a", m |-> "m", nan |-> "nan"]
MCMapsTo == [m |-> "A"]

(* Headers by their canonical names; "cost" is found inside "packaging_cost". *)
Named == <<{"internal_sku", "sku"}, {"packaging_cost", "cost", "packaging"},
           {"product_cost", "cost"}, {"effective_from"}, {"currency"}>>
Lines(ls) == [cols |-> Named, lines |-> ls]

MCFiles ==
    {Lines(<<<<"A", 2, 4, 1, "RUB">>, <<"a", Null, 2, 1, "RUB">>>>),
     Lines(<<<<"A", Null, 8, 1, "RUB">>, <<"a", 2, 2, 2, Null>>>>),
     Lines(<<<<"m", 1, 4, 2, Blank>>, <<Null, 0, 2, 2, "RUB">>, <<Blank, 0, 2, 2, "RUB">>>>),
     Lines(<<<<"A", 0, 8, 1, "RUB">>, <<"A", 0, 6, 1, "RUB">>>>)}
Symmetric ==
    UNION {Permutations(s) : s \in {Session, Visitor, Email, Invite, Secret}}

BothInit == BookInit /\ AccountsInit
BothNext ==
    \/ mode = "open" /\ clock + begun = 0 /\ BookNext /\ UNCHANGED accountVars
    \/ acts = 0 /\ AccountsNext /\ UNCHANGED bookVars
BothSpec == BothInit /\ [][BothNext]_<<bookVars, accountVars>>
==============================================================================
