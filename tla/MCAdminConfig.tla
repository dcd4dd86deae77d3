--------------------------- MODULE MCAdminConfig ---------------------------
(* Two notifiers, two settings, a camera of two columns, one password. *)
EXTENDS AdminConfig, TLC

CONSTANTS p, q, u, v

MCParts == [notifiers |-> {p, q}, settings |-> {p, q}, camera |-> {p, q}, admin_pw |-> {p}]
MCYaml  == (p :> v @@ q :> None)
MCFirst == [notifiers |-> (p :> None @@ q :> None), settings |-> (p :> u @@ q :> u),
            camera |-> (p :> u @@ q :> u), admin_pw |-> (p :> None)]
Sym == Permutations(Handlers)
=============================================================================
