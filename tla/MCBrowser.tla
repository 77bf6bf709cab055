------------------------------- MODULE MCBrowser -------------------------------
\* Keys that behave differently: Browser watches one of them in each behaviour.
EXTENDS Browser

MCWatched == {<<"users", "list">>, <<"comments", "list">>, <<"notifications", "list">>,
              <<"media", "list">>, <<"media", "list-all">>, <<"search", "query">>,
              <<"health", "status">>, <<"users", "detail">>, <<"posts", "detail">>}
=============================================================================
