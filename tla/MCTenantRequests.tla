-------------------------- MODULE MCTenantRequests --------------------------
(* Small instances of TenantRequests for TLC. *)
EXTENDS TenantRequests, TLC

\* One user per outcome of authentication and of HasAnyRole.
MCUsers == {[token |-> "bad", superuser |-> FALSE, groups |-> {}],
            [token |-> "none", superuser |-> FALSE, groups |-> {}],
            [token |-> "good", superuser |-> FALSE, groups |-> {"api_reader"}],
            [token |-> "good", superuser |-> FALSE, groups |-> {"api_writer"}]}

Symmetry == Permutations(Workers) \cup Permutations(Items) \cup Permutations(Tenants)
=============================================================================
