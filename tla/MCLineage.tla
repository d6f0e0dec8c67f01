------------------------------ MODULE MCLineage ------------------------------
(* Instances of Lineage for TLC: roots of two contents, clean and tainted,   *)
(* with and without a bundle; inputs just above every cap.                   *)
EXTENDS Lineage

Canonical(v) == [value |-> v, size |-> 1, form |-> "canonical"]
Text(bytes, size) == [bytes |-> bytes, size |-> size]
SampleContents == {Text("news", 1), Text("mail", 1), Text("book", 2)}

Evidence == [artifact |-> Canonical("tool"), dependencies |-> {Canonical("dep")}, claims |-> Canonical("claims")]

Root(content, kind, taints, bundle) ==
    [content |-> content, media |-> "text/plain", kind |-> kind, identity |-> Canonical("site"),
     claims |-> Canonical("claims"), transform |-> "ingress_capture", implementation |-> Canonical("code"),
     parameters |-> Canonical("none"), taints |-> taints, bundle |-> bundle]
News == Root(Text("news", 1), "web", <<>>, Nothing)
SampleIngressInputs ==
    {News, Root(Text("mail", 1), "email", <<"critical", "critical">>, Nothing),
     Root(Text("mail", 1), "bundle_metadata", <<>>, Evidence),
     Root(Text("mail", 1), "bundle_metadata", <<>>, Nothing),
     Root(Text("long", 3), "web", <<>>, Nothing),
     [News EXCEPT !.transform = "deterministic"], [News EXCEPT !.kind = "derived"],
     [News EXCEPT !.claims.form = "noncanonical"], [News EXCEPT !.identity.size = 3],
     [News EXCEPT !.taints = <<"harmless">>],
     [News EXCEPT !.bundle = [Evidence EXCEPT !.dependencies = {Canonical("one"), Canonical("two")}]]}

Step(content, taints) ==
    [content |-> content, media |-> "text/plain", transform |-> "deterministic",
     implementation |-> Canonical("code"), parameters |-> Canonical("none"), taints |-> taints, bundle |-> Nothing]
SampleDeriveInputs ==
    {Step(Text("book", 2), <<>>), Step(Text("news", 1), <<"secret">>),
     [Step(Text("book", 2), <<>>) EXCEPT !.transform = "ingress_capture"]}

\* TLC evaluates a definition once, but what replaces a constant at every use: hence the aliases.
MCContents == SampleContents
MCIngressInputs == SampleIngressInputs
MCDeriveInputs == SampleDeriveInputs
=============================================================================
