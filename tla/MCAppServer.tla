---------------------------- MODULE MCAppServer ----------------------------
EXTENDS AppServer

MCRequests == {"page1", "page2", "profile"}
MCLimited == {"page1", "page2"}
=============================================================================
