---- MODULE MCBrowser ----
EXTENDS Browser
CONSTANTS a, b
MCRejections == {{}, {b}}
====
