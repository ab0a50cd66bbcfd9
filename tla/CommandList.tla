------------------------------ MODULE CommandList ------------------------------
(***************************************************************************)
(* ihome/command.c: the list of installed commands, kept sorted by name.   *)
(* A command is known by the number of the call of command_install that    *)
(* allocated it; the list is a sequence of such numbers.  The list of      *)
(* system commands stays empty: command_sys_install installs nothing.      *)
(***************************************************************************)
EXTENDS Integers, SequencesExt

CONSTANTS
  Name,          \* names of commands
  Exec,          \* their functions
  Rank,          \* the order of strcmp
  MaxInstalled   \* bound: commands installed

ASSUME ListAssumption ==
  /\ Rank \in [Name -> Nat]
  /\ \A m, n \in Name : Rank[m] = Rank[n] => m = n
  /\ MaxInstalled \in Nat

VARIABLES
  installed,  \* the commands, in the order of their installation
  user        \* the list cmd_head->user

listVars == <<installed, user>>

Command == [name : Name, exec : Exec]

ListTypeOK ==
  /\ installed \in Seq(Command)
  /\ user \in Seq(DOMAIN installed)

ListInit == installed = <<>> /\ user = <<>>

-----------------------------------------------------------------------------

\* strcmp(cmd->name, name of the i-th of the list) < 0
Smaller(cmd, i) == Rank[cmd.name] < Rank[installed[user[i]].name]

\* __command_add walks past every command that is not greater
Place_BeforeEqual(cmd, p) ==
  /\ \A i \in 1..(p - 1) : Rank[cmd.name] > Rank[installed[user[i]].name]
  /\ p <= Len(user) => Rank[cmd.name] <= Rank[installed[user[p]].name]
Place(cmd, p) ==
  /\ \A i \in 1..(p - 1) : ~Smaller(cmd, i)
  /\ p <= Len(user) => Smaller(cmd, p)

\* the list with node k linked in at p
Linked_Previous(p, k) == InsertAt(user, p, k - 1)
Linked_TailLost(p, k) == Append(SubSeq(user, 1, p - 1), k)
Linked(p, k) == InsertAt(user, p, k)

command_install(cmd) ==
  /\ Len(installed) < MaxInstalled
  /\ installed' = Append(installed, cmd)
  /\ \E p \in 1..(Len(user) + 1) :
       /\ Place(cmd, p)
       /\ user' = Linked(p, Len(installed) + 1)

\* __command_find: 0 if no command has the name
command_find(name) ==
  LET i == SelectInSeq(user, LAMBDA k : installed[k].name = name)
  IN IF i = 0 THEN 0 ELSE user[i]

ListNext == \E cmd \in Command : command_install(cmd)

ListSpec == ListInit /\ [][ListNext]_listVars

-----------------------------------------------------------------------------
(* Properties. *)

\* No command is lost or listed twice.
ListComplete ==
  /\ Len(user) = Len(installed)
  /\ \A i, j \in 1..Len(user) : user[i] = user[j] => i = j

\* The list is in strcmp's order, and of the commands of one name the one that was
\* installed first comes first: it is the one that will run.
ListOrdered ==
  \A i, j \in 1..Len(user) : i < j =>
    LET m == installed[user[i]].name
        n == installed[user[j]].name
    IN Rank[m] < Rank[n] \/ (m = n /\ user[i] < user[j])
=============================================================================
