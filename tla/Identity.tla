------------------------------ MODULE Identity -------------------------------
(***************************************************************************)
(* internal/identity: who a request is from.  A registry maps the issuers  *)
(* that are trusted to [tenant, roles, attrs]: roles maps a group to the   *)
(* name of a role, attrs a group to its attributes.  A token is [bearer,   *)
(* iss, sub, groups, tenantID]; bearer says whether the Authorization      *)
(* header is a bearer token whose claims can be read.                      *)
(***************************************************************************)
EXTENDS Selection

Nobody ==
  [ok |-> FALSE, tenant |-> "", sub |-> "", roles |-> <<>>,
   attrs |-> [a \in {} |-> ""]]

(* The roles of the groups in order, each once; a group that the issuer's  *)
(* registration does not know gives none.                                  *)
RolesOf(registration, groups) ==
  LET roleOf(k) == registration.roles[groups[k]]
      known == {k \in DOMAIN groups : groups[k] \in DOMAIN registration.roles}
      first == {k \in known : \A j \in known : j < k => roleOf(j) # roleOf(k)}
  IN [n \in 1 .. Cardinality(first) |-> roleOf(Nth(first, n))]

(* The attributes of the groups; the last to set one decides. *)
AttrsOf(registration, groups) ==
  LET known == {k \in DOMAIN groups : groups[k] \in DOMAIN registration.attrs}
      setBy(name) ==
        {k \in known : name \in DOMAIN registration.attrs[groups[k]]}
  IN [name \in UNION {DOMAIN registration.attrs[groups[k]] : k \in known} |->
        registration.attrs[groups[Latest(setBy(name))]][name]]

(* The tenant is the issuer's, whatever the token claims (ADR-011). *)
TenantOf(registration, token) == registration.tenant

(* ResolveFromHeader and Resolve. *)
ResolveFromHeader(token, registry) ==
  IF ~token.bearer \/ token.iss \notin DOMAIN registry
  THEN Nobody
  ELSE LET registration == registry[token.iss]
       IN [ok |-> TRUE, tenant |-> TenantOf(registration, token),
           sub |-> token.sub, roles |-> RolesOf(registration, token.groups),
           attrs |-> AttrsOf(registration, token.groups)]
==============================================================================
