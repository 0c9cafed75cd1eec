----------------------------- MODULE MCSettings -----------------------------
(***************************************************************************)
(* Settings with a list of commands, a scroll speed that two options of    *)
(* the .config file set, and an attribute of two presets that none sets.   *)
(***************************************************************************)
EXTENDS Settings

MCKeys == <<"command_meta", "filter", "scroll_speed">>
MCOptions ==
    [meta |-> "command_meta", scroll |-> "scroll_speed", wheel |-> "scroll_speed"]
MCAttributes ==
    << [key |-> "scroll_speed", lines |-> 1], [key |-> "filter", lines |-> 2],
       [key |-> "command_meta", lines |-> 1] >>

O(option, value) == [option |-> option, value |-> value]
MCSystemwide == <<O("meta", "a"), O("meta", "b")>>
MCPersonal == <<O("meta", Empty), O("wheel", "a"), O("scroll", "b")>>
=============================================================================
