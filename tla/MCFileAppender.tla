--------------------------- MODULE MCFileAppender ---------------------------
(* Model-checking instance of FileAppender: the values of the constants     *)
(* that a .cfg cannot write down are named here.                            *)
EXTENDS FileAppender

\* Flush only on an appender that AddAppender has started.
Steady == {"started"}

\* Also while AddAppender is still between entityItem.AddAppender and Start.
FromMount == {"mounted", "inited", "started"}

\* Used on its own: also after a failed Init and after UnInit.
StandAlone == {"failed", "started", "closed"}

\* Lines below, at and above the limit.
Mixed == <<1, 2, 3, 1>>
Short == <<1, 2>>
=============================================================================
