--------------------------- MODULE HandlerIdentity ---------------------------
(***************************************************************************)
(* What of a Python function is signed and what is kept of it              *)
(* (handler_identity.py), in a supported interpreter.                      *)
(*                                                                         *)
(* A world is what the interpreter holds at a moment: the function objects *)
(* (their code, and whether they are plain, without closure or defaults),  *)
(* what the names of their module stand for, and the callable builtins.    *)
(* Code is [text, names, clean]; clean code imports nothing, writes no     *)
(* global, has no code among its constants and fits the caps.              *)
(***************************************************************************)
EXTENDS PolicyDecision, FiniteSets

CONSTANT Functions    \* the function objects of the adapter's author

FunctionNamed(f) == [kind |-> "function", function |-> f]
Data(value) == [kind |-> "data", value |-> value]      \* immutable all the way down
Mutable == [kind |-> "mutable"]
Unsupported == [kind |-> "unsupported", free |-> {}]

\* canonical_handler_bytes: the code with what its names stand for, functions by their own code;
\* `free` are the names found nowhere, which a builtin could still claim.
CanonicalHandler(w, f) ==
    LET canonical[g \in Functions, seen \in SUBSET Functions] ==
            LET object   == w.functions[g]
                resolved == object.code.names \cap DOMAIN w.globals
                parts    == [n \in resolved |->
                                 IF w.globals[n].kind = "function"
                                 THEN canonical[w.globals[n].function, seen \cup {g}]
                                 ELSE w.globals[n]]
                unresolved == object.code.names \ resolved
            IN  IF \/ g \in seen \/ ~object.plain \/ ~object.code.clean
                   \/ unresolved \cap w.builtins # {}
                   \/ \E n \in resolved : parts[n].kind \in {"unsupported", "mutable"}
                THEN Unsupported
                ELSE [kind |-> "code", text |-> object.code.text, parts |-> parts,
                      free |-> unresolved
                               \cup UNION {parts[n].free : n \in {m \in resolved : parts[m].kind = "code"}}]
    IN  canonical[f, {}]

\* freeze_handler: a clone with clones of the functions it calls; nobody else holds it.
FreezeHandler(w, f) == CanonicalHandler(w, f)

\* digest_handler of a clone: of its own names only those no module defined are still looked up.
DigestHandler(w, clone) ==
    Digest("handler", IF clone.free \cap w.builtins # {} THEN Unsupported ELSE clone)
=============================================================================
