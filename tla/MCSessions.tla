------------------------------ MODULE MCSessions ------------------------------
(* Small instances of Sessions.                                            *)
EXTENDS Sessions

MCTabs    == {"t1", "t2"}
MCWriters == {"t1"}
MCPolls   == { <<"t1", 1>>, <<"t1", 2>>, <<"t2", 1>> }
=============================================================================
