------------------------------ MODULE MCIngest ------------------------------
(***************************************************************************)
(* An instance of Ingest for TLC: three tenants, a user listed twice (the  *)
(* later record wins), a key of a user who is not listed, and the headers  *)
(* and batches that the receivers tell apart.                              *)
(***************************************************************************)
EXTENDS Ingest

CONSTANTS zero, acme, beta, alice, bob, carol, ka, kb, kc, nobody, e1

MCTenants == {zero, acme, beta}
MCUsers == {alice, bob, carol}
MCKeys == {ka, kb, kc}
MCUsersFile == << [user |-> alice, tenant |-> beta], [user |-> bob, tenant |-> beta],
                  [user |-> alice, tenant |-> acme] >>
MCAPIKeysFile == << [user |-> alice, key |-> ka], [user |-> carol, key |-> kc],
                    [user |-> alice, key |-> kb], [user |-> bob, key |-> kb] >>
MCExports == {e1}

H(transport, authorization, header) ==
    [transport |-> transport, authorization |-> authorization, tenant |-> header]
P(id, type, finite) == [id |-> id, type |-> type, finite |-> finite]
R(headers, points) == [headers |-> headers, points |-> points]

MCRequests ==
    { R(H("grpc", ka, "absent"), {P(1, "span", TRUE), P(2, "span", TRUE)}),
      R(H("http", "empty", acme), {P(1, "log", TRUE)}),
      R(H("grpc", "empty", beta), {P(1, "gauge", TRUE), P(2, "other", TRUE)}),
      R(H("http", kb, acme), {P(1, "sum", TRUE), P(2, "gauge", FALSE)}),
      R(H("http", kc, "malformed"), {P(1, "histogram", TRUE)}),
      R(H("http", "absent", acme), {P(1, "other", TRUE)}) }
=============================================================================
