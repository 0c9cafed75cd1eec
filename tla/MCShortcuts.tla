---------------------------- MODULE MCShortcuts ----------------------------
(***************************************************************************)
(* Shortcuts with three settings files: one that binds a key twice and    *)
(* then to an unknown command, and in another index has a line that has no *)
(* colon but is a key's name; one with an unknown key between keys that it *)
(* binds; and one with nothing to run.                                     *)
(***************************************************************************)
EXTENDS Shortcuts, TLC

CONSTANTS Tab, BackSpace, terminal

Both(shell, app) ==
    [ix \in Index |-> IF ix = <<"shell", "ctrl_alt">> THEN shell
                      ELSE IF ix = <<"app", "ctrl_alt">> THEN app ELSE <<>>]
Bind(key, does) == [split |-> 1, size |-> 4, key |-> key, does |-> does]

MCKey == {Tab, Escape, Delete, BackSpace}
MCSwitchKey == {Tab}
MCProgram == {terminal}
MCSetting ==
    { Both(<<[split |-> npos, size |-> 4, key |-> Escape, does |-> terminal]>>,
           <<Bind(BackSpace, terminal), Bind(BackSpace, "exit"), Bind(BackSpace, None)>>),
      Both(<<Bind(BackSpace, terminal), Bind(None, terminal), Bind(Escape, terminal)>>,
           <<Bind(Escape, "exit")>>),
      Both(<<[split |-> 2, size |-> 3, key |-> Escape, does |-> terminal]>>, <<>>) }

WindowSymmetry == Permutations(Window)
=============================================================================
