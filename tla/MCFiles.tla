----------------------------- MODULE MCFiles ------------------------------
(* All archives of up to MaxHeaders headers and depth MaxDepth, in every   *)
(* order tar may write them, and one directory with ManyFiles files.       *)
EXTENDS Files

CONSTANTS bin, usr, MaxHeaders, MaxDepth, ManyFiles

RootHeader == [path |-> << >>, dir |-> TRUE]

Below(t) ==
  {Append(p, n) : p \in {q \in Prefixes(Last(t).path) :
                           Len(q) < MaxDepth /\ [path |-> q, dir |-> TRUE] \in ToSet(t)},
                  n \in Names}

Longer(t) ==
  {Append(t, [path |-> p, dir |-> d]) :
     p \in Below(t) \ {t[i].path : i \in DOMAIN t}, d \in BOOLEAN}

ArchivesOf[k \in 1 .. MaxHeaders] ==
  IF k = 1 THEN {<<RootHeader>>} ELSE UNION {Longer(t) : t \in ArchivesOf[k - 1]}

SmallArchives == UNION {ArchivesOf[k] : k \in 1 .. MaxHeaders}

FullDirectory ==
  {<<RootHeader>> \o [i \in 1 .. ManyFiles |-> [path |-> <<i>>, dir |-> FALSE]]}

OneDevice == <<bin>>
Numbers == 1 .. ManyFiles
=============================================================================
