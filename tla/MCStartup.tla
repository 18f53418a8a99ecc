----------------------------- MODULE MCStartup -----------------------------
(* Instances of Startup: what three directories may hold.                    *)
EXTENDS Startup

Manifest(b, provides, version, deps) ==
  [name |-> b, provides |-> provides, version |-> version, dependencies |-> deps]
Bare(contracts) == [contract : contracts, version : {<<>>}]
AtMostOne(S) == {{}} \cup {{x} : x \in S}

\* Who provides and requires what, and from whom: two contracts, one version.
Structures(b) ==
  {Manifest(b, Bare(p), <<1, 0>>, d) : p \in SUBSET {1, 2},
     d \in AtMostOne([contract : {1, 2}, min_version : {<<1, 0>>}, bundle : 0 .. 2])}

\* Versions, of one contract, with and without a minimum.
Versions(b) ==
  {Manifest(b, p[1], p[2], d) :
     p \in {<<{}, <<>>>>} \cup {<<Bare({1}), v>> : v \in {<<>>, <<1, 1>>, <<2, 0>>}},
     d \in AtMostOne([contract : {1}, min_version : {<<>>, <<1, 1>>, <<2, 0>>}, bundle : {0}])}

\* A contract provided with an inline version, below the bundle's or of another
\* major version.
Inline(b) ==
  {Manifest(b, p[1], p[2], d) :
     p \in {<<{}, <<1, 0>>>>}
             \cup {<<{spec}, v>> : spec \in [contract : {1}, version : {<<>>, <<1, 0>>, <<2, 0>>}],
                                    v \in {<<1, 0>>, <<1, 1>>}},
     d \in AtMostOne([contract : {1}, min_version : {<<1, 1>>, <<2, 0>>}, bundle : {0}])}

\* The last: two directories with a bundle of the same name.
MCDirectories ==
  {[b \in 1 .. 3 |-> Structures(b)], [b \in 1 .. 3 |-> Versions(b)],
   [b \in 1 .. 3 |-> Inline(b)],
   <<Versions(1), Versions(1)>>}
=============================================================================
