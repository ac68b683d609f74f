----------------------------- MODULE MCAccounts -----------------------------
\* Instances of Accounts for TLC.
EXTENDS Accounts, TLC

\* Threads are interchangeable.
MCSymmetry == Permutations(Thread)

\* The name and the image of an account matter if it was made for the guest.
MCAccount(u) == <<u.id, u.email, u.uid, u.born = "guest" /\ u.user_name = "guest_user",
                  u.born = "guest">>

\* The number of a row only tells it from others like it, and a row that is gone stays so.
MCRow(k) == <<k.kind, k.from, k.to,
              Cardinality({j \in ties : [j EXCEPT !.no = k.no] = k /\ j.no < k.no})>>
MCRows(ks) == {MCRow(k) : k \in ks \cap ties}

MCReq(t) ==
  CASE req[t].pc = "unfollow" -> <<"unfollow", MCRows({req[t].row})>>
    [] req[t].pc = "destroy" -> <<"destroy", req[t].id, MCRows(req[t].doomed)>>
    [] OTHER -> <<req[t]>>

\* A deletion in the past matters as long as a row or a request still names the account.
MCNamed ==
  Ids \cup UNION {{k.from, k.to} : k \in ties}
      \cup UNION {{req[t].row.from, req[t].row.to} : t \in {s \in Thread : req[s].pc = "tie"}}

MCView == <<{MCAccount(u) : u \in users}, MCRows(ties), lastUser, lastTie,
            [t \in Thread |-> MCReq(t)], contended \cap MCNamed, doubled>>
=============================================================================
