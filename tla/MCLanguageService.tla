-------------------------- MODULE MCLanguageService --------------------------
(* Two files of one project and one of another. *)
EXTENDS LanguageService

CONSTANTS k1, k2, f1, f2, g1

MCKeyOf == [f \in {f1, f2, g1} |-> IF f = g1 THEN k2 ELSE k1]

MCCallsOf ==
    [f \in {f1, f2, g1} |-> CASE f = f1 -> {"navigate", "diagnostics"}
                              [] f = f2 -> {"navigate"}
                              [] f = g1 -> {"symbols", "diagnostics"}]

MCServersOf == [k \in {k1, k2} |-> IF k = k2 THEN {"off", "unversioned"} ELSE {"incremental"}]
=============================================================================
