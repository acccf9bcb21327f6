------------------------------ MODULE MCLspLocks -----------------------------
(* Three handlers at work, of every script. *)
EXTENDS LspLocks, TLC
CONSTANTS h1, h2, h3
MCHandlers == {h1, h2, h3}
MCKinds == {"open", "change", "check", "watch", "codeAction", "symbol", "goto", "runMain",
            "completion", "hover", "rename"}
Symmetry == Permutations(MCHandlers)
=============================================================================
