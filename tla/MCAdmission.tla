---------------------------- MODULE MCAdmission ----------------------------
(* Small instances of Admission: a post and a reaction that share a token, a *)
(* tokenless group reaction, a wrap, and a mailbox event and a post that     *)
(* carry the wrap's token.                                                   *)
EXTENDS Admission, TLC

CONSTANTS alice, eph, kPost, kSpace, t1, t2, t3, post, rival, react, wrap, mail, stray

MCKeyOf == (t1 :> kPost) @@ (t2 :> kPost) @@ (t3 :> kSpace)

MCBody ==
    (post :> [class |-> "blind", by |-> eph, creds |-> <<t1, t2>>, size |-> 3,
              chain |-> "holder", dom |-> "picture", pow |-> FALSE]) @@
    (rival :> [class |-> "reaction", by |-> eph, creds |-> <<t2, t2>>, size |-> 3,
               chain |-> "holder", dom |-> "posting", pow |-> FALSE]) @@
    (react :> [class |-> "reaction", by |-> alice, creds |-> <<>>, size |-> 1,
               chain |-> "none", dom |-> "posting", pow |-> FALSE]) @@
    (wrap :> [class |-> "wrap", by |-> eph, creds |-> <<t3>>, size |-> 1,
              chain |-> "all", dom |-> "posting", pow |-> TRUE]) @@
    (mail :> [class |-> "mailbox", by |-> eph, creds |-> <<t3>>, size |-> 1,
              chain |-> "none", dom |-> "posting", pow |-> TRUE]) @@
    (stray :> [class |-> "blind", by |-> eph, creds |-> <<t3>>, size |-> 1,
               chain |-> "holder", dom |-> "posting", pow |-> FALSE])

\* A dark policy, and one with every gate on and a price of two bytes a token.
Dark ==
    [organizers |-> {}, blind |-> FALSE, holder |-> FALSE, bytesPerToken |-> 0,
     space |-> FALSE, posting |-> {}, picture |-> {}, audio |-> {}, spaceWrite |-> {}]
Strictest ==
    [organizers |-> {}, blind |-> TRUE, holder |-> TRUE, bytesPerToken |-> 2,
     space |-> TRUE, posting |-> {kPost}, picture |-> {}, audio |-> {}, spaceWrite |-> {kSpace}]

MCConfig == {Dark, Strictest}

HandlerSymmetry == Permutations(Handler)
============================================================================
