------------------------------- MODULE MCChat -------------------------------
(* The instance of Chat that TLC checks: one page and one message of each  *)
(* party.                                                                  *)
EXTENDS ChatProperties, TLC

CONSTANTS pageA, pageO, a1, o1

MCPages == {pageA, pageO}
MCViewer == pageA :> Advertiser @@ pageO :> Other
MCMsgs == {a1, o1}
MCAuthor == a1 :> Advertiser @@ o1 :> Other
=============================================================================
