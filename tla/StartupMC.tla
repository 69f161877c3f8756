----------------------------- MODULE StartupMC -----------------------------
\* Two profiles: one with two entries and one that was removed, and one with one entry.
EXTENDS Startup

Of(p, t, on) == [path |-> p, text |-> t, on |-> on]
Both(first, second) == [p \in Profile |-> IF p = "one" THEN first ELSE second]
OneStart ==
    {[file    |-> Both(<<Of("a", "x", TRUE), Of("b", "y", FALSE)>>, <<Of("a", "x", TRUE)>>),
      keeping |-> Both(<<[path |-> "a", text |-> "y", on |-> TRUE, next |-> "b"]>>, <<>>),
      preset  |-> [p \in Profile |-> [x \in Path |-> IF x = "a" THEN "disable" ELSE
                                                    IF x = "b" /\ p = "one" THEN "enable" ELSE None]]]}
Newcomers == {Of("a", "x", TRUE)}
=============================================================================
