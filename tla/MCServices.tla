---------------------------- MODULE MCServices ----------------------------
(* The relay's routes and services beside the life of a session, each with its
   dashboard page.  They share no state in these models: a behaviour runs one of
   them, "part", and leaves the others where they began.                       *)
EXTENDS SessionFiles, PackageValidation, Extensions, Environments, Secrets, GitHub, Models, PackageCatalog, ExtensionsPage

VARIABLE part          \* the component that runs in this behaviour

ServicesParts == {"files", "validation", "extensions", "environments", "secrets", "github", "models", "catalog", "page"}

ServicesInit ==
  /\ part \in ServicesParts
  /\ FilesInit
  /\ ValidationInit
  /\ ExtensionInit
  /\ EnvironmentsInit
  /\ SecretsInit
  /\ GitHubInit
  /\ ModelsInit
  /\ CatalogInit
  /\ PageInit
  /\ (part # "models" => inputs = CHOOSE i \in Inputs : TRUE)
  /\ (part # "page" => scope = CHOOSE s \in PageScopes : TRUE)
  /\ (part # "page" => query = CHOOSE q \in Queries : TRUE)
  /\ (part # "page" => load[CHOOSE l \in Loads : TRUE] # NoLoad)

ServicesNext ==
  \/ part = "files" /\ FilesNext
     /\ UNCHANGED <<part, validationVars, extensionVars, environmentsVars, secretsVars, githubVars, modelsVars, catalogVars, pageVars>>
  \/ part = "validation" /\ ValidationNext
     /\ UNCHANGED <<part, filesVars, extensionVars, environmentsVars, secretsVars, githubVars, modelsVars, catalogVars, pageVars>>
  \/ part = "extensions" /\ ExtensionNext
     /\ UNCHANGED <<part, filesVars, validationVars, environmentsVars, secretsVars, githubVars, modelsVars, catalogVars, pageVars>>
  \/ part = "environments" /\ EnvironmentsNext
     /\ UNCHANGED <<part, filesVars, validationVars, extensionVars, secretsVars, githubVars, modelsVars, catalogVars, pageVars>>
  \/ part = "secrets" /\ SecretsNext
     /\ UNCHANGED <<part, filesVars, validationVars, extensionVars, environmentsVars, githubVars, modelsVars, catalogVars, pageVars>>
  \/ part = "github" /\ GitHubNext
     /\ UNCHANGED <<part, filesVars, validationVars, extensionVars, environmentsVars, secretsVars, modelsVars, catalogVars, pageVars>>
  \/ part = "models" /\ ModelsNext
     /\ UNCHANGED <<part, filesVars, validationVars, extensionVars, environmentsVars, secretsVars, githubVars, catalogVars, pageVars>>
  \/ part = "catalog" /\ CatalogNext
     /\ UNCHANGED <<part, filesVars, validationVars, extensionVars, environmentsVars, secretsVars, githubVars, modelsVars, pageVars>>
  \/ part = "page" /\ PageNext
     /\ UNCHANGED <<part, filesVars, validationVars, extensionVars, environmentsVars, secretsVars, githubVars, modelsVars, catalogVars>>

ServicesSpec == ServicesInit /\ [][ServicesNext]_<<part, filesVars, validationVars, extensionVars, environmentsVars, secretsVars, githubVars, modelsVars, catalogVars, pageVars>>

(* The state of every component above keeps its types, whichever of them runs. *)
ServicesTypeOK ==
  /\ part \in ServicesParts
  /\ part = "files" => FilesTypeOK
  /\ part = "validation" => ValidationTypeOK
  /\ part = "extensions" => ExtensionTypeOK
  /\ part = "environments" => EnvironmentsTypeOK
  /\ part = "secrets" => SecretsTypeOK
  /\ part = "github" => GitHubTypeOK
  /\ part = "models" => ModelsTypeOK
  /\ part = "catalog" => CatalogTypeOK
  /\ part = "page" => PageTypeOK
=============================================================================
