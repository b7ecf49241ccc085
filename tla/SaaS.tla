-------------------------------- MODULE SaaS --------------------------------
(***************************************************************************)
(* External.  The SaaS systems behind the connectors, and the clock.       *)
(*                                                                         *)
(* None of this is gateway code: it is what internal/connector and         *)
(* internal/freshness assume of the other end of the wire.  The data of a  *)
(* connector is a version number that only grows; what a version holds is  *)
(* ContentOf[version], and two versions may hold the same content (a       *)
(* record is edited and edited back).  A page of rows is the version it    *)
(* was read from and its place in the result.  An ETag is a hash of the    *)
(* content, as internal/mocksf computes it; a connector outside SendsETag  *)
(* sends none, as internal/mockzd does.                                    *)
(***************************************************************************)
EXTENDS Naturals

CONSTANTS
  Connector,    \* names in Deps.Sources: "sf", "zd"
  MaxVersion,   \* bound on the number of changes to a connector's data
  MaxClock,     \* bound on the clock, in the units of max_staleness
  ContentOf,    \* version -> content, content is what an ETag hashes
  PageCount,    \* version -> number of pages a full result has
  SendsETag,    \* connectors whose 200 responses carry an ETag
  NoETag        \* the empty ETag, ""

Version == 0 .. MaxVersion

ASSUME BoundAssumption == MaxVersion \in Nat /\ MaxClock \in Nat
ASSUME PageCountAssumption == PageCount \in [Version -> Nat \ {0}]
ASSUME ContentAssumption ==
  DOMAIN ContentOf = Version /\ \A v \in Version : ContentOf[v] # NoETag

VARIABLES
  clock,        \* the instant
  ver,          \* connector -> the version its data is at
  superseded    \* connector -> version -> the instant that version ended

saasVars == <<clock, ver, superseded>>

SaaSTypeOK ==
  /\ clock \in Nat
  /\ ver \in [Connector -> Version]
  /\ superseded \in [Connector -> [Version -> Nat]]

SaaSInit ==
  /\ clock = 0
  /\ ver = [c \in Connector |-> 0]
  /\ superseded = [c \in Connector |-> [v \in Version |-> 0]]

Tick ==
  /\ clock < MaxClock
  /\ clock' = clock + 1
  /\ UNCHANGED <<ver, superseded>>

Change(c) ==
  /\ ver[c] < MaxVersion
  /\ ver' = [ver EXCEPT ![c] = @ + 1]
  /\ superseded' = [superseded EXCEPT ![c][ver[c]] = clock]
  /\ UNCHANGED clock

(* The last instant at which version v of connector c was the data. *)
CurrentUntil(c, v) == IF v = ver[c] THEN clock ELSE superseded[c][v]

(* Version v existed, and was still the data at instant t or later. *)
CurrentSince(c, v, t) == v <= ver[c] /\ t <= CurrentUntil(c, v)

(* What version v holds was the data's content at instant t or later. *)
ContentCurrentSince(c, v, t) ==
  \E w \in Version : ContentOf[w] = ContentOf[v] /\ CurrentSince(c, w, t)

(* Version v is an edit that has been undone: the content of version u,    *)
(* which v had replaced, is back, and an ETag cannot tell it from u.       *)
Undone(c, u, v) ==
  /\ c \in SendsETag
  /\ \E w \in Version : /\ u < v /\ v < w /\ w <= ver[c]
                       /\ ContentOf[w] = ContentOf[u]
                       /\ ContentOf[v] # ContentOf[u]

(* What an ETag can vouch for.  The first page of a result is of version   *)
(* u, and a page of version v, read later, holds what was the data at      *)
(* instant t or later, unless it shows an edit that has since been undone. *)
AsFreshAs(c, u, v, t) == ContentCurrentSince(c, v, t) \/ Undone(c, u, v)

(* The ETag a response served now carries. *)
ETagNow(c) == IF c \in SendsETag THEN ContentOf[ver[c]] ELSE NoETag
=============================================================================
