----------------------------- MODULE MCUpgrade ------------------------------
(* Both ways to upgrade, side by side: a behaviour is one of the server's    *)
(* job or one of the command line.                                           *)
EXTENDS UpgradeJob, CliUpgrade

CONSTANTS p1, p2

VARIABLE part

MCSetting ==
  [method : {"Plain", "Docker", "Brew"}, starts : {1}, checks : {TRUE},
   hangups : {TRUE}, crashes : {TRUE}]
  \cup [method : {"Docker"}, starts : {2}, checks : {FALSE}, hangups : {FALSE},
        crashes : {FALSE}]

MCSession ==
  {[upgraders |-> {p1}, rollers |-> {p1}, ticks |-> 3, deaths |-> 2, fails |-> 2],
   [upgraders |-> {p1, p2}, rollers |-> {}, ticks |-> 1, deaths |-> 1, fails |-> 0]}

vars == <<part, upgradeVars, cliVars>>

Init ==
  /\ part \in {"server", "cli"}
  /\ UpgradeInit
  /\ CliInit
  /\ part = "server" => session = CHOOSE x \in Session : TRUE
  /\ part = "cli" => setting = CHOOSE x \in Setting : TRUE

Next ==
  /\ UNCHANGED part
  /\ \/ part = "server" /\ UpgradeNext /\ UNCHANGED cliVars
     \/ part = "cli" /\ CliNext /\ UNCHANGED upgradeVars

\* Fairness is the server's only: nobody need finish a command.
Spec == Init /\ [][Next]_vars /\ UpgradeFairness
=============================================================================
