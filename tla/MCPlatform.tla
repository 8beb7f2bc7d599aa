----------------------------- MODULE MCPlatform -----------------------------
(* Platform with every description of up to three entries of these kinds.   *)
EXTENDS Platform

MCEntry(compatible, form, present) ==
    [compatible |-> compatible, form |-> form, present |-> present]

MCEntries == {
    MCEntry("rgb_indicator", "good", TRUE), MCEntry("rgb_indicator", "good", FALSE),
    MCEntry("rgb_indicator", "partial", TRUE), MCEntry("rgb_indicator", "partial", FALSE),
    MCEntry("hatch2sr", "good", TRUE), MCEntry("hatch2sr", "good", FALSE),
    MCEntry("hatch2sr", "partial", TRUE), MCEntry("ds18b20", "good", TRUE),
    MCEntry("cpu_temp", "good", TRUE), MCEntry("cpu_temp", "malformed", TRUE),
    MCEntry("other", "good", TRUE)}

MCDescriptions == UNION {[1..n -> MCEntries] : n \in 0..3}
=============================================================================
