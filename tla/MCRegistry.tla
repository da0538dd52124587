----------------------------- MODULE MCRegistry -----------------------------
(* Instances of Registry for TLC: m1, m2 and m3 are main connections of     *)
(* clients, d1 and d2 connections of downloads.                             *)
EXTENDS Registry

CONSTANTS m1, m2, m3, d1, d2, F, G, F0, F1, G0

IpA == "10.0.0.1"
IpB == "10.0.0.2"
IpC == "10.0.0.3"

\* Blocks F0 and F1 of file F, G0 of file G.
TheFileOf == [x \in Blocks |-> IF x = G0 THEN G ELSE F]

\* A client announces every file it has a block of.
FilesOfBlocks(announced) == {TheFileOf[x] : x \in announced}

\* As many blocks as the instance has for that file.
TheNumOf == [m \in Main |-> [x \in Files |-> Cardinality({y \in Blocks : TheFileOf[y] = x})]]

WantsF == [x \in Conns |-> F]

\* download: m1 seeds F, m2 has announced nothing and downloads F over d1, m3
\* looks on.
DownloadOwner  == [x \in Conns |-> IF x = d1 THEN m2 ELSE x]
DownloadIp     == [x \in Conns |-> IF x = m1 THEN IpA ELSE IF x = m3 THEN IpC ELSE IpB]
DownloadPorts  == [x \in Main |-> IF x = m2 THEN 27001 ELSE 27000]
DownloadBlocks == [x \in Main |-> IF x = m1 THEN {F0} ELSE {}]
DownloadFiles  == [x \in Main |-> FilesOfBlocks(DownloadBlocks[x])]

\* seeders: m1 has file F, m2 one block of F; m2 and m3 have the metadata of G,
\* but no block of it.
SeedersOwner  == [x \in Conns |-> x]
SeedersIp     == [x \in Conns |-> IF x = m1 THEN IpA ELSE IF x = m2 THEN IpB ELSE IpC]
SamePort      == [x \in Main |-> 27000]
SeedersBlocks == [x \in Main |-> IF x = m1 THEN {F0, F1} ELSE IF x = m2 THEN {F0} ELSE {}]
SeedersFiles  == [x \in Main |-> IF x = m1 THEN {F} ELSE IF x = m2 THEN {F, G} ELSE {G}]
SeedersNum    == [m \in Main |-> [x \in Files |-> IF x = F THEN 2 ELSE 1]]

\* again: the seeder m1 downloads its own file over d1; m2 has one block of it.
\* Both use the default port.
AgainOwner  == [x \in Conns |-> IF x = m2 THEN m2 ELSE m1]
AgainIp     == [x \in Conns |-> IF x = m2 THEN IpB ELSE IpA]
AgainBlocks == [x \in Main |-> IF x = m1 THEN {F0, F1} ELSE {F1}]
AgainFiles  == [x \in Main |-> {F}]
=============================================================================
