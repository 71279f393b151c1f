---- MODULE MCDeployment ----
\* Deployment checked with TLC.
EXTENDS Deployment
====
