---------------------------- MODULE MCMemoryCache ----------------------------
(* MemoryCache on a small instance: two scopes, and two keys of one digest. *)
EXTENDS MemoryCache, TLC

CONSTANTS k1, k2, k3, k4, i1, i2, i3, a, b

MCDigestOf == (k1 :> i1 @@ k2 :> i2 @@ k3 :> i3 @@ k4 :> i3)
MCScopeOf == (k1 :> a @@ k2 :> a @@ k3 :> b @@ k4 :> a)
=============================================================================
